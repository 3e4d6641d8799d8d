------------------------- MODULE MotionProducersProofs -------------------------
(***************************************************************************)
(* Proofs about MotionProducers, in two layers.                            *)
(*                                                                         *)
(* RuleInd says who may still write what: which loops each step of a call  *)
(* has cancelled (Fences), that a loop whose generation is current is the  *)
(* newest that drives its axes (CurrentRules), and that the owner never    *)
(* holds a write of an older loop than it has executed (OwnerRules).  It   *)
(* holds even when a loop outlives the wait of its canceller, and gives    *)
(* NewestCommandRules.                                                     *)
(*                                                                         *)
(* StopInd adds what a stop leaves behind: the queue holds the last task   *)
(* of every loop that ends (LastTask), no loop older than an acknowledged  *)
(* stop is current (StopFence) and, as long as cancellers wait for the     *)
(* loops, one loop runs on an axis (OneRuns), the call has seen those that *)
(* it takes over from end (Joins), and what it has stopped stands still    *)
(* before it returns (Halted).  It gives ProducersInv.                     *)
(***************************************************************************)
EXTENDS MotionProducers, SequenceTheorems, TLAPS
-----------------------------------------------------------------------------
(* The inductive invariant *)

CallOps == {"goto", "velocity", "sine", "stopSine", "stop"}
LoopOps == {"loop", "loopStop"}

Launched(n) == loops[n].kind # "none"
Waiting(kind) == call.kind = kind /\ call.step = "wait"

\* Which steps a call of each kind goes through.
CallOK ==
    \/ call = NoCall
    \/ /\ call.n # 0 /\ call.axes # {}
       /\ call.step \in {"position", "sine", "write", "wait"}
       /\ \/ call.kind = "velocity"
          \/ call.kind = "goto" /\ call.velocity = 1
          \/ call.kind = "sine" /\ call.velocity = 1 /\ \E a \in Axes : call.axes = {a}
          \/ call.kind = "stopSine" /\ call.velocity = 0 /\ call.step # "position"
          \/ /\ call.kind = "stop" /\ call.velocity = 0 /\ call.axes = Axes
             /\ call.step \in {"write", "wait"}

StopOK ==
    \/ stop = NoCall
    \/ /\ stop.n # 0 /\ stop.velocity = 0 /\ stop.axes # {}
       /\ stop.step \in {"requestPosition", "requestSine", "ready"}
       /\ stop.kind \in {"velocity", "stop"} /\ (stop.kind = "stop" => stop.axes = Axes)

\* A task is a round or the end of a loop that was launched, or the one the call waits for.
TaskOK(t) ==
    \/ /\ t.op \in LoopOps
       /\ t.n \in Commands /\ Launched(t.n)
       /\ DOMAIN t.values = loops[t.n].axes
       /\ t.key # "external"
    \/ /\ t.op \in CallOps
       /\ t.n = call.n /\ Waiting(t.op)
       /\ t.op \in {"velocity", "stop"} => t.values = All(call.axes, call.velocity)
       /\ t.op = "sine" => DOMAIN t.values = call.axes
       /\ t.op = "goto" => DOMAIN t.values \subseteq call.axes
       /\ t.op = "stop" => t.key = "none"
       /\ t.op = "velocity" => t.key = "external"
       /\ t.op \in {"goto", "stopSine"} => \A a \in DOMAIN t.values : t.values[a] = 0

Types ==
    /\ setpoint \in [Axes -> Velocities] /\ cached \in [Axes -> Velocities]
    /\ positionGen \in Nat /\ sineGen \in [Axes -> Nat]
    /\ loops \in [Commands -> [kind : {"none", "position", "sine"}, axes : SUBSET Axes,
                               gen : Nat, pc : {"off", "run", "stopping", "done"}]]
    /\ mailbox \in Seq(Tasks)
    /\ owner \in Tasks
    /\ call \in Calls /\ stop \in Calls
    /\ commands \in 0..MaxCommands /\ stopsUsed \in 0..MaxStops
    /\ source \in [Axes -> [n : 0..MaxCommands, by : {"rest", "held", "loop"}]]
    /\ stopped \in [Axes -> 0..MaxCommands]

\* A loop is off until its command launches it; a sine test has one axis.
LoopsOK ==
    \A n \in Commands :
        /\ Launched(n) => loops[n].axes # {}
        /\ ~Launched(n) => loops[n] = NoLoop
        /\ loops[n].kind = "position" => loops[n].gen <= positionGen
        /\ loops[n].kind = "sine" => \E a \in Axes : loops[n].axes = {a} /\ loops[n].gen <= sineGen[a]

TasksOK ==
    /\ \A i \in DOMAIN mailbox : TaskOK(mailbox[i])
    /\ owner = NoTask \/ TaskOK(owner)

\* Commands are numbered in the order in which they enter the controller.
Numbered(n) ==
    /\ n <= commands
    /\ call.n # 0 => n <= call.n
    /\ stop.n # 0 => n < stop.n

InOrder ==
    /\ call.n <= commands /\ stop.n <= commands
    /\ stop.n # 0 => call.n < stop.n
    /\ \A n \in Commands : Launched(n) => Numbered(n) /\ n # call.n
    /\ \A a \in Axes : Numbered(source[a].n)
    /\ \A a \in Axes : Numbered(stopped[a]) /\ (call.n # 0 => stopped[a] # call.n)

\* What the call in progress has cancelled so far.
PositionCancelled ==
    \/ call.kind = "goto" /\ call.step \in {"write", "wait"}
    \/ call.kind \in {"velocity", "sine"} /\ call.step \in {"sine", "write", "wait"}
SineCancelled ==
    \/ call.kind = "goto" /\ call.step \in {"position", "write", "wait"}
    \/ call.kind \in {"velocity", "sine"} /\ call.step \in {"write", "wait"}

\* The stop is being, or has been, executed by the owner.
StopTaken == owner.op = "stop" \/ (Waiting("stop") /\ ~Pending("stop", call.n))

Fences ==
    /\ \A n \in Commands :
          /\ PositionCancelled /\ loops[n].kind = "position" => loops[n].gen < positionGen
          /\ SineCancelled /\ loops[n].kind = "sine" /\ loops[n].axes \cap call.axes # {} => ~IsCurrent(n)
          /\ StopTaken /\ Launched(n) => ~IsCurrent(n)
    /\ call.kind = "goto" /\ call.step \in {"write", "wait"} => call.gen <= positionGen

\* Two loops that may still write share no axis.
Exclusive ==
    \A m, n \in Commands :
        m # n /\ Launched(m) /\ Launched(n) /\ IsCurrent(m) /\ IsCurrent(n)
            => loops[m].axes \cap loops[n].axes = {}

\* A loop that may still write an axis is the newest that has.
CurrentRules ==
    \A n \in Commands : IsCurrent(n) => \A a \in loops[n].axes : source[a].n <= n
OwnerRules ==
    owner.op \in LoopOps =>
        /\ \A a \in loops[owner.n].axes : source[a].n <= owner.n
        /\ \A m \in Commands : m < owner.n /\ Launched(m) /\ IsCurrent(m) =>
              loops[m].axes \cap loops[owner.n].axes = {}

RuleInd == Types /\ CallOK /\ StopOK /\ LoopsOK /\ TasksOK /\ InOrder /\ Fences
           /\ Exclusive /\ CurrentRules /\ OwnerRules
-----------------------------------------------------------------------------
\* A drive that turns was last sent what it does.
CacheOK == \A a \in Axes : setpoint[a] # 0 => cached[a] = setpoint[a]

\* The call has one task.
OneCallTask ==
    /\ \A i, j \in DOMAIN mailbox : mailbox[i].op \in CallOps /\ mailbox[j].op \in CallOps => i = j
    /\ owner.op \in CallOps => \A i \in DOMAIN mailbox : mailbox[i].op \notin CallOps

\* A loop whose tasks are pending has not ended: its last one is the one that it waits for.
TaskOfLoop(t) ==
    /\ t.op = "loop" => Running(t.n)
    /\ t.op = "loopStop" => loops[t.n].pc = "stopping"
LoopsOutlive ==
    /\ \A i \in DOMAIN mailbox : TaskOfLoop(mailbox[i])
    /\ TaskOfLoop(owner)
LastTask ==
    /\ \A i \in DOMAIN mailbox : mailbox[i].op = "loop" /\ loops[mailbox[i].n].pc = "stopping" =>
          \E j \in DOMAIN mailbox : j > i /\ mailbox[j].op = "loopStop" /\ mailbox[j].n = mailbox[i].n
    /\ owner.op = "loop" /\ loops[owner.n].pc = "stopping" =>
          \E j \in DOMAIN mailbox : mailbox[j].op = "loopStop" /\ mailbox[j].n = owner.n

\* As long as cancellers wait for the loops: one loop runs on an axis ...
OneRuns ==
    \A m, n \in Commands :
        m < n /\ Launched(m) /\ loops[m].kind = loops[n].kind
              /\ (loops[m].axes \cap loops[n].axes # {} \/ loops[m].kind = "position") => ~Running(m)
\* ... and the call in progress has seen the ones it waited for end.
PositionAwaited ==
    \/ Waiting("goto")
    \/ call.kind \in {"velocity", "sine"} /\ call.step \in {"write", "wait"}
SineAwaited ==
    \/ call.kind = "goto" /\ call.step \in {"write", "wait"}
    \/ Waiting("velocity") \/ Waiting("sine")
Joins ==
    \A n \in Commands :
        /\ PositionAwaited /\ loops[n].kind = "position" => ~Running(n)
        /\ SineAwaited /\ loops[n].kind = "sine" /\ loops[n].axes \cap call.axes # {} => ~Running(n)

\* No loop that is older than an acknowledged stop writes after it.
StopFence ==
    \A n \in Commands : \A a \in loops[n].axes : n <= stopped[a] => ~IsCurrent(n)
OwnerFence ==
    owner.op \in LoopOps => \A a \in loops[owner.n].axes : owner.n > stopped[a]

\* What the call has stopped stands still, before it has returned.
Halted ==
    /\ Waiting("velocity") /\ call.velocity = 0 /\ ~Pending("velocity", call.n) =>
          \A a \in call.axes : setpoint[a] = 0
    /\ Waiting("stop") /\ ~Pending("stop", call.n) =>
          owner.op \notin LoopOps /\ \A a \in Axes : setpoint[a] = 0

StopInd == CacheOK /\ OneCallTask /\ LoopsOutlive /\ LastTask /\ StopFence
           /\ (~slow => OneRuns /\ Joins /\ OwnerFence /\ Halted /\ StoppedAxisStays)
-----------------------------------------------------------------------------
(* The queue of the owner *)

\* The element at a place of a sequence leaves it; the others keep their order.
LEMMA RemoveAtProps ==
    ASSUME NEW T, NEW s \in Seq(T), NEW i \in DOMAIN s
    PROVE  /\ RemoveAt(s, i) \in Seq(T)
           /\ Len(RemoveAt(s, i)) = Len(s) - 1
           /\ \A j \in 1..Len(s) - 1 : RemoveAt(s, i)[j] = IF j < i THEN s[j] ELSE s[j + 1]
<1> DEFINE a == SubSeq(s, 1, i - 1)
           b == SubSeq(s, i + 1, Len(s))
<1>1. i \in 1..Len(s) /\ Len(s) \in Nat
    OBVIOUS
<1>2. a \in Seq(T) /\ Len(a) = i - 1 /\ \A j \in 1..i - 1 : a[j] = s[j]
    BY <1>1, SubSeqProperties
<1>3. b \in Seq(T) /\ Len(b) = Len(s) - i /\ \A j \in 1..Len(s) - i : b[j] = s[i + j]
    BY <1>1, SubSeqProperties
<1> HIDE DEF a, b
<1>4. a \o b \in Seq(T) /\ Len(a \o b) = Len(s) - 1
    BY <1>1, <1>2, <1>3
<1>5. ASSUME NEW j \in 1..Len(s) - 1 PROVE (a \o b)[j] = IF j < i THEN s[j] ELSE s[j + 1]
  <2>1. (a \o b)[j] = IF j <= Len(a) THEN a[j] ELSE b[j - Len(a)]
    BY <1>1, <1>2, <1>3, ConcatProperties
  <2>2. CASE j < i
    BY <1>1, <1>2, <2>1, <2>2
  <2>3. CASE ~(j < i)
    <3>1. j - (i - 1) \in 1..Len(s) - i /\ i + (j - (i - 1)) = j + 1
        BY <1>1, <2>3
    <3>2. (a \o b)[j] = b[j - (i - 1)]
        BY <1>1, <1>2, <2>1, <2>3
    <3>3. b[j - (i - 1)] = s[i + (j - (i - 1))]
        BY <1>3, <3>1
    <3>4. QED
        BY <2>3, <3>1, <3>2, <3>3
  <2>4. QED
    BY <2>2, <2>3
<1>6. QED
    BY <1>4, <1>5 DEF RemoveAt, a, b

\* A task goes to the end of the queue; the one at place p, if any, was a dead round.
LastIn(t) ==
    \E p \in 1..Len(mailbox) + 1 :
        /\ p <= Len(mailbox) => mailbox[p].op = "loop"
        /\ Len(mailbox') = IF p <= Len(mailbox) THEN Len(mailbox) ELSE Len(mailbox) + 1
        /\ mailbox'[Len(mailbox')] = t
        /\ \A i \in 1..Len(mailbox') - 1 : mailbox'[i] = mailbox[IF i < p THEN i ELSE i + 1]

\* A task goes to the head of the queue.
FirstIn(t) ==
    /\ Len(mailbox') = Len(mailbox) + 1
    /\ mailbox'[1] = t
    /\ \A i \in 2..Len(mailbox) + 1 : mailbox'[i] = mailbox[i - 1]

LEMMA EnqueueEffect ==
    ASSUME mailbox \in Seq(Tasks), NEW t \in Tasks, Enqueue(t)
    PROVE  mailbox' \in Seq(Tasks) /\ LastIn(t)
<1>1. Len(mailbox) + 1 \in 1..Len(mailbox) + 1
    OBVIOUS
<1>2. QED
    BY <1>1 DEF Enqueue, LastIn

LEMMA EnqueueFirstEffect ==
    ASSUME mailbox \in Seq(Tasks), NEW t \in Tasks, EnqueueFirst(t)
    PROVE  mailbox' \in Seq(Tasks) /\ FirstIn(t)
    BY DEF EnqueueFirst, FirstIn

LEMMA PublishEffect ==
    ASSUME mailbox \in Seq(Tasks), NEW t \in Tasks, Publish(t)
    PROVE  mailbox' \in Seq(Tasks) /\ LastIn(t)
<1>1. CASE mailbox' = Append(mailbox, t)
    BY <1>1, EnqueueEffect DEF Enqueue
<1>2. ASSUME NEW i \in DOMAIN mailbox, mailbox[i].op = "loop",
             mailbox' = Append(RemoveAt(mailbox, i), t)
      PROVE  mailbox' \in Seq(Tasks) /\ LastIn(t)
  <2> DEFINE r == RemoveAt(mailbox, i)
  <2>1. i \in 1..Len(mailbox) /\ Len(mailbox) \in Nat /\ i \in 1..Len(mailbox) + 1
    OBVIOUS
  <2>2. r \in Seq(Tasks) /\ Len(r) = Len(mailbox) - 1
        /\ \A j \in 1..Len(mailbox) - 1 : r[j] = IF j < i THEN mailbox[j] ELSE mailbox[j + 1]
    BY RemoveAtProps
  <2> HIDE DEF r
  <2>3. /\ mailbox' \in Seq(Tasks) /\ Len(mailbox') = Len(mailbox)
        /\ mailbox'[Len(mailbox')] = t
        /\ \A j \in 1..Len(mailbox) - 1 : mailbox'[j] = r[j]
    BY <1>2, <2>1, <2>2 DEF r
  <2>4. \A j \in 1..Len(mailbox') - 1 : mailbox'[j] = mailbox[IF j < i THEN j ELSE j + 1]
    BY <2>1, <2>2, <2>3
  <2>5. i <= Len(mailbox) => mailbox[i].op = "loop"
    BY <1>2
  <2>6. Len(mailbox') = IF i <= Len(mailbox) THEN Len(mailbox) ELSE Len(mailbox) + 1
    BY <2>1, <2>3
  <2>7. QED
    BY <2>1, <2>3, <2>4, <2>5, <2>6 DEF LastIn
<1>3. QED
    BY <1>1, <1>2 DEF Publish

LEMMA TailEffect ==
    ASSUME mailbox \in Seq(Tasks), mailbox # <<>>, mailbox' = Tail(mailbox)
    PROVE  /\ mailbox' \in Seq(Tasks)
           /\ Head(mailbox) \in Tasks /\ Head(mailbox) = mailbox[1]
           /\ Len(mailbox) \in Nat \ {0} /\ DOMAIN mailbox = 1..Len(mailbox)
           /\ DOMAIN mailbox' = 1..Len(mailbox) - 1
           /\ \A i \in DOMAIN mailbox' : mailbox'[i] = mailbox[i + 1]
    OBVIOUS

\* Of what a queue holds, only rounds of loops are lost.
LEMMA QueueKept ==
    ASSUME mailbox \in Seq(Tasks), mailbox' \in Seq(Tasks), NEW t, LastIn(t) \/ FirstIn(t)
    PROVE  /\ \A i \in DOMAIN mailbox' :
                 mailbox'[i] = t \/ \E j \in DOMAIN mailbox : mailbox'[i] = mailbox[j]
           /\ \A j \in DOMAIN mailbox : mailbox[j].op # "loop" =>
                 \E i \in DOMAIN mailbox' : mailbox'[i] = mailbox[j]
           /\ \E i \in DOMAIN mailbox' : mailbox'[i] = t
<1>1. /\ DOMAIN mailbox = 1..Len(mailbox) /\ DOMAIN mailbox' = 1..Len(mailbox')
      /\ Len(mailbox) \in Nat /\ Len(mailbox') \in Nat
    OBVIOUS
<1>2. CASE LastIn(t)
  <2>1. PICK p \in 1..Len(mailbox) + 1 :
            /\ p <= Len(mailbox) => mailbox[p].op = "loop"
            /\ Len(mailbox') = IF p <= Len(mailbox) THEN Len(mailbox) ELSE Len(mailbox) + 1
            /\ mailbox'[Len(mailbox')] = t
            /\ \A i \in 1..Len(mailbox') - 1 : mailbox'[i] = mailbox[IF i < p THEN i ELSE i + 1]
    BY <1>2 DEF LastIn
  <2>2. ASSUME NEW j \in DOMAIN mailbox, mailbox[j].op # "loop"
        PROVE  \E i \in DOMAIN mailbox' : mailbox'[i] = mailbox[j]
    <3>1. CASE j < p
        BY <1>1, <2>1, <2>2, <3>1
    <3>2. CASE j > p
      <4>1. j - 1 \in 1..Len(mailbox') - 1 /\ ~(j - 1 < p) /\ (j - 1) + 1 = j
        BY <1>1, <2>1, <3>2
      <4>2. QED
        BY <1>1, <2>1, <4>1
    <3>3. QED
        BY <1>1, <2>1, <2>2, <3>1, <3>2
  <2>3. ASSUME NEW i \in DOMAIN mailbox'
        PROVE  mailbox'[i] = t \/ \E j \in DOMAIN mailbox : mailbox'[i] = mailbox[j]
    BY <1>1, <2>1
  <2>4. Len(mailbox') \in DOMAIN mailbox'
    BY <1>1, <2>1
  <2>5. QED
    BY <2>1, <2>2, <2>3, <2>4
<1>3. CASE FirstIn(t)
  <2>1. ASSUME NEW j \in DOMAIN mailbox PROVE \E i \in DOMAIN mailbox' : mailbox'[i] = mailbox[j]
    <3>1. j + 1 \in 2..Len(mailbox) + 1 /\ (j + 1) - 1 = j
        BY <1>1
    <3>2. QED
        BY <1>1, <1>3, <3>1 DEF FirstIn
  <2>2. ASSUME NEW i \in DOMAIN mailbox'
        PROVE  mailbox'[i] = t \/ \E j \in DOMAIN mailbox : mailbox'[i] = mailbox[j]
    <3>1. i = 1 \/ (i \in 2..Len(mailbox) + 1 /\ i - 1 \in DOMAIN mailbox)
        BY <1>1, <1>3 DEF FirstIn
    <3>2. QED
        BY <1>3, <3>1 DEF FirstIn
  <2>3. 1 \in DOMAIN mailbox' /\ mailbox'[1] = t
    BY <1>1, <1>3 DEF FirstIn
  <2>4. QED
    BY <2>1, <2>2, <2>3
<1>4. QED
    BY <1>2, <1>3
-----------------------------------------------------------------------------
(* What most steps leave alone *)

LEMMA NoneFields ==
    /\ NoCall \in Calls /\ NoTask \in Tasks
    /\ NoCall.n = 0 /\ NoCall.kind = "none" /\ NoCall.step = "idle" /\ NoCall.velocity = 0
    /\ NoTask.op = "none" /\ DOMAIN NoTask.values = {}
    /\ NoLoop.kind = "none" /\ NoLoop.axes = {} /\ NoLoop.pc = "off"
<1>1. <<>> \in UNION {[A -> Velocities] : A \in SUBSET Axes} /\ DOMAIN <<>> = {}
  <2>1. <<>> \in [{} -> Velocities] /\ {} \in SUBSET Axes
    OBVIOUS
  <2>2. QED
    BY <2>1
<1>2. NoTask \in Tasks /\ NoTask.op = "none" /\ DOMAIN NoTask.values = {}
  <2> DEFINE w == <<>>
  <2>1. w \in UNION {[A -> Velocities] : A \in SUBSET Axes} /\ DOMAIN w = {}
    BY <1>1
  <2>2. 0 \in 0..MaxCommands
    BY ProducersAssumption
  <2>3. NoTask = [op |-> "none", n |-> 0, values |-> w, key |-> "none"]
    BY DEF NoTask
  <2> HIDE DEF w
  <2>4. [op |-> "none", n |-> 0, values |-> w, key |-> "none"] \in Tasks
    BY <2>1, <2>2 DEF Tasks
  <2>5. QED
    BY <2>1, <2>3, <2>4
<1>3. NoCall \in Calls
    BY ProducersAssumption DEF NoCall, Calls, Velocities
<1>4. QED
    BY <1>2, <1>3 DEF NoCall, NoLoop

\* Loops that have only changed their pc.
SameLoops ==
    \A n \in Commands :
        /\ loops'[n].kind = loops[n].kind /\ loops'[n].axes = loops[n].axes
        /\ loops'[n].gen = loops[n].gen
        /\ ~Launched(n) => loops'[n] = loops[n]

GensGrow ==
    /\ positionGen' \in Nat /\ positionGen' >= positionGen
    /\ sineGen' \in [Axes -> Nat] /\ \A a \in Axes : sineGen'[a] >= sineGen[a]

\* A loop that is no longer current never is again.
LEMMA Outdated ==
    ASSUME Types, LoopsOK, SameLoops, GensGrow
    PROVE  /\ LoopsOK'
           /\ \A n \in Commands : /\ Launched(n)' <=> Launched(n)
                                  /\ IsCurrent(n)' /\ Launched(n) => IsCurrent(n)
<1>1. ASSUME NEW n \in Commands
      PROVE  /\ Launched(n)' <=> Launched(n)
             /\ IsCurrent(n)' /\ Launched(n) => IsCurrent(n)
             /\ loops'[n].kind = "position" => loops'[n].gen <= positionGen'
             /\ loops'[n].kind = "sine" =>
                   \E a \in Axes : loops'[n].axes = {a} /\ loops'[n].gen <= sineGen'[a]
             /\ Launched(n)' => loops'[n].axes # {}
             /\ ~Launched(n)' => loops'[n] = NoLoop
  <2>1. /\ loops'[n].kind = loops[n].kind /\ loops'[n].axes = loops[n].axes
        /\ loops'[n].gen = loops[n].gen /\ (~Launched(n) => loops'[n] = loops[n])
    BY DEF SameLoops
  <2>2. loops[n].kind \in {"none", "position", "sine"} /\ loops[n].gen \in Nat
    BY DEF Types
  <2>3. Launched(n)' <=> Launched(n)
    BY <2>1 DEF Launched
  <2>4. CASE loops[n].kind = "none"
    BY <2>1, <2>3, <2>4 DEF Launched, LoopsOK
  <2>5. CASE loops[n].kind = "position"
    BY <2>1, <2>2, <2>3, <2>5 DEF Types, LoopsOK, GensGrow, IsCurrent
  <2>6. CASE loops[n].kind = "sine"
    <3>1. PICK a \in Axes : loops[n].axes = {a} /\ loops[n].gen <= sineGen[a]
        BY <2>6 DEF LoopsOK
    <3>2. /\ sineGen[a] \in Nat /\ sineGen'[a] \in Nat /\ sineGen'[a] >= sineGen[a]
        BY <3>1 DEF Types, GensGrow
    <3>3. loops'[n].axes = {a} /\ loops'[n].gen <= sineGen'[a]
        BY <2>1, <2>2, <3>1, <3>2
    <3>4. IsCurrent(n)' => loops[n].gen = sineGen'[a]
        BY <2>1, <2>6, <3>1 DEF IsCurrent
    <3>5. loops[n].gen = sineGen[a] => IsCurrent(n)
        BY <2>6, <3>1 DEF IsCurrent
    <3>6. QED
        BY <2>1, <2>2, <2>3, <2>6, <3>1, <3>2, <3>3, <3>4, <3>5 DEF Launched
  <2>7. QED
    BY <2>2, <2>4, <2>5, <2>6
<1>2. QED
    BY <1>1 DEF LoopsOK

\* A step that launches no loop and writes nothing.
LEMMA QuietLoops ==
    ASSUME RuleInd, SameLoops, GensGrow, UNCHANGED <<source, owner>>
    PROVE  LoopsOK' /\ Exclusive' /\ CurrentRules' /\ OwnerRules'
<1>1. LoopsOK' /\ \A n \in Commands : /\ Launched(n)' <=> Launched(n)
                                      /\ IsCurrent(n)' /\ Launched(n) => IsCurrent(n)
    BY Outdated DEF RuleInd
<1>2. \A n \in Commands : loops'[n].axes = loops[n].axes
    BY DEF SameLoops
<1>3. Exclusive'
    BY <1>1, <1>2 DEF RuleInd, Exclusive
<1>4. CurrentRules'
    BY <1>1, <1>2, NoneFields DEF RuleInd, CurrentRules, LoopsOK
<1>5. OwnerRules'
  <2>1. owner.op \in LoopOps => owner.n \in Commands
    BY NoneFields DEF RuleInd, TasksOK, TaskOK, CallOps, LoopOps
  <2>2. QED
    BY <1>1, <1>2, <2>1 DEF RuleInd, OwnerRules
<1>6. QED
    BY <1>1, <1>3, <1>4, <1>5

\* Whoever does not wait for the owner has no task there.
LEMMA OnlyLoopTasks ==
    ASSUME TasksOK, call.step # "wait" \/ ~Pending(call.kind, call.n)
    PROVE  /\ owner = NoTask \/ owner.op \in LoopOps
           /\ \A i \in DOMAIN mailbox : mailbox[i].op \in LoopOps
    BY DEF TasksOK, TaskOK, Waiting, Pending

\* Tasks of loops stay what they are, and so do those of a call that waits.
LEMMA TasksKept ==
    ASSUME TasksOK, SameLoops, UNCHANGED <<mailbox, owner>>,
           \/ UNCHANGED call
           \/ call.step # "wait" \/ ~Pending(call.kind, call.n)
    PROVE  TasksOK'
<1>1. ASSUME NEW t, TaskOK(t), UNCHANGED call \/ t.op \in LoopOps PROVE TaskOK(t)'
    BY <1>1 DEF TaskOK, SameLoops, Launched, LoopOps, CallOps, Waiting
<1>2. CASE UNCHANGED call
    BY <1>1, <1>2 DEF TasksOK
<1>3. CASE call.step # "wait" \/ ~Pending(call.kind, call.n)
    BY <1>1, <1>3, OnlyLoopTasks DEF TasksOK
<1>4. QED
    BY <1>2, <1>3
-----------------------------------------------------------------------------
(* The steps of the callers *)

LEMMA AcceptRules ==
    ASSUME RuleInd, NEW kind \in {"goto", "velocity", "sine", "stopSine"}, NEW A \in AxisSets,
           Accept(kind, A), kind = "sine" => \E a \in Axes : A = {a}
    PROVE  RuleInd'
<1>1. /\ call = NoCall /\ stop = NoCall /\ commands < MaxCommands /\ commands' = commands + 1
      /\ UNCHANGED <<loops, positionGen, sineGen, setpoint, cached, mailbox, owner, source,
                     stopsUsed, stop, stopped>>
    BY DEF Accept, loopVars, ownerVars
<1>2. /\ call'.n = commands + 1 /\ call'.kind = kind /\ call'.axes = A
      /\ call'.velocity = (IF kind = "stopSine" THEN 0 ELSE 1)
      /\ call'.step = (IF kind \in {"goto", "stopSine"} THEN "sine" ELSE "position")
      /\ call' = [n |-> call'.n, kind |-> kind, axes |-> A, gen |-> 0,
                  velocity |-> call'.velocity, step |-> call'.step]
    BY DEF Accept
<1>3. commands \in Nat /\ commands + 1 \in 1..MaxCommands
    BY <1>1, ProducersAssumption DEF RuleInd, Types
<1>4. Types'
    BY <1>1, <1>2, <1>3 DEF RuleInd, Types, AxisSets, Calls, Velocities
<1>5. CallOK' /\ StopOK'
    BY <1>1, <1>2, <1>3 DEF RuleInd, CallOK, StopOK, AxisSets
<1>6. SameLoops /\ GensGrow
    BY <1>1 DEF RuleInd, Types, SameLoops, GensGrow
<1>7. LoopsOK' /\ Exclusive' /\ CurrentRules' /\ OwnerRules'
    BY <1>1, <1>6, QuietLoops
<1>8. TasksOK'
    BY <1>1, <1>6, TasksKept, NoneFields DEF RuleInd
<1>9. InOrder'
    BY <1>1, <1>2, <1>3, NoneFields DEF RuleInd, Types, InOrder, Numbered, Launched, Commands
<1>10. Fences'
  <2>1. owner.op # "stop"
    BY <1>1, NoneFields, OnlyLoopTasks DEF RuleInd, LoopOps
  <2>2. QED
    BY <1>1, <1>2, <2>1 DEF Fences, PositionCancelled, SineCancelled, StopTaken, Waiting
<1>11. QED
    BY <1>4, <1>5, <1>7, <1>8, <1>9, <1>10 DEF RuleInd

\* A step of the stop that waits to enter, or of nobody: the call goes on as before.
LEMMA CallGoesOn ==
    ASSUME RuleInd, SameLoops, GensGrow, UNCHANGED <<source, owner, mailbox, call>>
    PROVE  CallOK' /\ LoopsOK' /\ TasksOK' /\ Fences' /\ Exclusive' /\ CurrentRules' /\ OwnerRules'
<1>1. LoopsOK' /\ Exclusive' /\ CurrentRules' /\ OwnerRules'
    BY QuietLoops
<1>2. CallOK' /\ TasksOK'
    BY TasksKept DEF RuleInd, CallOK
<1>3. Fences'
  <2>1. \A n \in Commands : /\ Launched(n)' <=> Launched(n)
                            /\ IsCurrent(n)' /\ Launched(n) => IsCurrent(n)
    BY Outdated DEF RuleInd
  <2>2. /\ PositionCancelled' <=> PositionCancelled
        /\ SineCancelled' <=> SineCancelled
        /\ StopTaken' <=> StopTaken
    BY DEF PositionCancelled, SineCancelled, StopTaken, Waiting, Pending
  <2>3. \A n \in Commands : /\ loops'[n].kind = loops[n].kind /\ loops'[n].axes = loops[n].axes
                            /\ loops'[n].gen = loops[n].gen /\ loops[n].gen \in Nat
    BY DEF SameLoops, RuleInd, Types
  <2>4. /\ positionGen \in Nat /\ positionGen' \in Nat /\ positionGen' >= positionGen
        /\ call.gen \in Nat
    BY DEF GensGrow, RuleInd, Types, Calls
  <2>5. \A n \in Commands : loops[n].kind = "sine" => Launched(n)
    BY DEF Launched
  <2>6. ASSUME NEW n \in Commands
        PROVE  /\ PositionCancelled /\ loops[n].kind = "position" => loops[n].gen < positionGen'
               /\ SineCancelled /\ loops[n].kind = "sine" /\ loops[n].axes \cap call.axes # {}
                     => ~IsCurrent(n)'
               /\ StopTaken /\ Launched(n) => ~IsCurrent(n)'
    BY <2>1, <2>3, <2>4, <2>5 DEF RuleInd, Fences
  <2>7. call.kind = "goto" /\ call.step \in {"write", "wait"} => call.gen <= positionGen'
    BY <2>4 DEF RuleInd, Fences
  <2>8. QED
    BY <2>1, <2>2, <2>3, <2>6, <2>7 DEF Fences
<1>4. QED
    BY <1>1, <1>2, <1>3

LEMMA AcceptStopRules ==
    ASSUME RuleInd, NEW kind \in {"stop", "velocity"}, NEW A \in SUBSET Axes, A # {},
           kind = "stop" => A = Axes, AcceptStop(kind, A)
    PROVE  RuleInd'
<1>1. /\ stop = NoCall /\ commands < MaxCommands /\ commands' = commands + 1
      /\ stopsUsed < MaxStops /\ stopsUsed' = stopsUsed + 1
      /\ UNCHANGED <<loops, positionGen, sineGen, setpoint, cached, mailbox, owner, source,
                     call, stopped>>
    BY DEF AcceptStop, loopVars, ownerVars
<1>2. /\ stop'.n = commands + 1 /\ stop'.kind = kind /\ stop'.axes = A /\ stop'.velocity = 0
      /\ stop'.step = "requestPosition"
      /\ stop' = [n |-> stop'.n, kind |-> kind, axes |-> A, velocity |-> 0, gen |-> 0,
                  step |-> "requestPosition"]
    BY DEF AcceptStop
<1>3. commands \in Nat /\ commands + 1 \in 1..MaxCommands /\ stopsUsed + 1 \in 0..MaxStops
    BY <1>1, ProducersAssumption DEF RuleInd, Types
<1>4. Types'
  <2>1. stop' \in Calls
    BY <1>2, <1>3 DEF Calls, Velocities
  <2>2. QED
    BY <1>1, <1>3, <2>1 DEF RuleInd, Types
<1>5. StopOK'
    BY <1>1, <1>2, <1>3 DEF StopOK
<1>6. SameLoops /\ GensGrow
    BY <1>1 DEF RuleInd, Types, SameLoops, GensGrow
<1>7. CallOK' /\ LoopsOK' /\ TasksOK' /\ Fences' /\ Exclusive' /\ CurrentRules' /\ OwnerRules'
    BY <1>1, <1>6, CallGoesOn
<1>8. InOrder'
  <2>1. \A m \in Nat : Numbered(m) => Numbered(m)'
    BY <1>1, <1>2, <1>3 DEF Numbered
  <2>2. \A n \in Commands : Launched(n)' <=> Launched(n)
    BY <1>1 DEF Launched
  <2>3. /\ call.n \in Nat /\ Commands \subseteq Nat
        /\ \A a \in Axes : source[a].n \in Nat /\ stopped[a] \in Nat
    BY DEF RuleInd, Types, Calls, Commands
  <2>4. QED
    BY <1>1, <1>2, <1>3, <2>1, <2>2, <2>3 DEF RuleInd, InOrder
<1>9. QED
    BY <1>4, <1>5, <1>7, <1>8 DEF RuleInd

LEMMA RequestRules ==
    ASSUME RuleInd, RequestPositionStop \/ RequestSineStop
    PROVE  RuleInd'
<1>1. /\ stop.step \in {"requestPosition", "requestSine"}
      /\ \E s \in {"requestSine", "ready"} : stop' = [stop EXCEPT !.step = s]
      /\ UNCHANGED <<loops, setpoint, cached, mailbox, owner, source, call, stopped, commands, stopsUsed>>
    BY DEF RequestPositionStop, RequestSineStop, ownerVars, acceptVars
<1>2. GensGrow
    BY DEF RuleInd, Types, GensGrow, RequestPositionStop, RequestSineStop
<1>3. /\ stop' \in Calls /\ stop'.n = stop.n /\ stop'.kind = stop.kind /\ stop'.axes = stop.axes
      /\ stop'.velocity = stop.velocity /\ stop'.step \in {"requestSine", "ready"}
    BY <1>1 DEF RuleInd, Types, Calls
<1>4. Types'
    BY <1>1, <1>2, <1>3 DEF RuleInd, Types, GensGrow
<1>5. StopOK'
    BY <1>1, <1>3, NoneFields DEF RuleInd, StopOK
<1>6. SameLoops
    BY <1>1 DEF SameLoops
<1>7. CallOK' /\ LoopsOK' /\ TasksOK' /\ Fences' /\ Exclusive' /\ CurrentRules' /\ OwnerRules'
    BY <1>1, <1>2, <1>6, CallGoesOn
<1>8. InOrder'
    BY <1>1, <1>3 DEF RuleInd, InOrder, Numbered, Launched
<1>9. QED
    BY <1>4, <1>5, <1>7, <1>8 DEF RuleInd

LEMMA EnterStopRules == ASSUME RuleInd, EnterStop PROVE RuleInd'
<1>1. /\ stop.step = "ready" /\ call = NoCall /\ stop' = NoCall
      /\ UNCHANGED <<loops, positionGen, sineGen, setpoint, cached, mailbox, owner, source,
                     stopped, commands, stopsUsed>>
    BY DEF EnterStop, loopVars, ownerVars, acceptVars
<1>2. /\ call' \in Calls /\ call'.n = stop.n /\ call'.kind = stop.kind /\ call'.axes = stop.axes
      /\ call'.velocity = stop.velocity
      /\ call'.step = IF stop.kind = "stop" THEN "write" ELSE "position"
    BY DEF EnterStop, RuleInd, Types, Calls
<1>3. /\ stop.n # 0 /\ stop.velocity = 0 /\ stop.axes # {} /\ stop.kind \in {"velocity", "stop"}
      /\ stop.kind = "stop" => stop.axes = Axes
    BY <1>1, NoneFields DEF RuleInd, StopOK
<1>4. Types'
    BY <1>1, <1>2, NoneFields DEF RuleInd, Types
<1>5. CallOK' /\ StopOK'
    BY <1>1, <1>2, <1>3 DEF CallOK, StopOK
<1>6. SameLoops /\ GensGrow
    BY <1>1 DEF RuleInd, Types, SameLoops, GensGrow
<1>7. LoopsOK' /\ Exclusive' /\ CurrentRules' /\ OwnerRules'
    BY <1>1, <1>6, QuietLoops
<1>8. TasksOK'
    BY <1>1, <1>6, TasksKept, NoneFields DEF RuleInd
<1>9. InOrder'
    BY <1>1, <1>2, <1>3, NoneFields
    DEF RuleInd, Types, Calls, InOrder, Numbered, Launched, Commands
<1>10. Fences'
  <2>1. owner.op # "stop"
    BY <1>1, NoneFields, OnlyLoopTasks DEF RuleInd, LoopOps
  <2>2. QED
    BY <1>1, <1>2, <1>3, <2>1 DEF Fences, PositionCancelled, SineCancelled, StopTaken, Waiting
<1>11. QED
    BY <1>4, <1>5, <1>7, <1>8, <1>9, <1>10 DEF RuleInd
-----------------------------------------------------------------------------
(* The controller call *)

\* A step of the call changes what it has still to do.
LEMMA CallMoves ==
    ASSUME RuleInd, call # NoCall, call' \in Calls, call'.n = call.n, call'.kind = call.kind,
           call'.axes = call.axes, call'.velocity = call.velocity,
           UNCHANGED <<loops, stop, commands, source, stopped>>
    PROVE  StopOK' /\ InOrder' /\ call.n # 0 /\ call.axes # {}
    BY DEF RuleInd, CallOK, StopOK, InOrder, Numbered, Launched

LEMMA CancelPositionRules == ASSUME RuleInd, CancelPosition PROVE RuleInd'
<1>1. /\ call.step = "position" /\ positionGen' = positionGen + 1
      /\ UNCHANGED <<loops, sineGen, setpoint, cached, mailbox, owner, source, commands,
                     stopsUsed, stop, stopped>>
    BY DEF CancelPosition, ownerVars, acceptVars
<1>2. /\ call' \in Calls /\ call'.n = call.n /\ call'.kind = call.kind /\ call'.axes = call.axes
      /\ call'.velocity = call.velocity /\ call'.gen = positionGen + 1
      /\ call'.step = IF call.kind = "goto" THEN "write" ELSE "sine"
  <2>1. call \in Calls /\ positionGen + 1 \in Nat
    BY DEF RuleInd, Types
  <2>2. QED
    BY <2>1 DEF CancelPosition, Calls
<1>3. call.kind \in {"goto", "velocity", "sine"} /\ call # NoCall
    BY <1>1, NoneFields DEF RuleInd, CallOK
<1>4. Types'
    BY <1>1, <1>2 DEF RuleInd, Types
<1>5. CallOK'
    BY <1>1, <1>2, <1>3 DEF RuleInd, CallOK
<1>6. SameLoops /\ GensGrow
    BY <1>1 DEF RuleInd, Types, SameLoops, GensGrow
<1>7. LoopsOK' /\ Exclusive' /\ CurrentRules' /\ OwnerRules'
    BY <1>1, <1>6, QuietLoops
<1>8. TasksOK'
    BY <1>1, <1>6, TasksKept DEF RuleInd
<1>9. StopOK' /\ InOrder'
    BY <1>1, <1>2, <1>3, CallMoves
<1>10. Fences'
  <2>1. owner.op # "stop"
    BY <1>1, NoneFields, OnlyLoopTasks DEF RuleInd, LoopOps
  <2>2. ~StopTaken'
    BY <1>1, <1>2, <2>1 DEF StopTaken, Waiting
  <2>3. \A n \in Commands : loops[n].kind = "position" => loops'[n].gen < positionGen'
    BY <1>1 DEF RuleInd, Types, LoopsOK
  <2>4. ASSUME NEW n \in Commands, SineCancelled', loops[n].kind = "sine",
               loops[n].axes \cap call.axes # {}
        PROVE  ~IsCurrent(n)'
    <3>1. SineCancelled
        BY <1>1, <1>2, <1>3, <2>4 DEF SineCancelled
    <3>2. ~IsCurrent(n)
        BY <2>4, <3>1 DEF RuleInd, Fences
    <3>3. QED
        BY <1>6, <2>4, <3>2, Outdated DEF RuleInd, Launched
  <2>5. QED
    BY <1>1, <1>2, <2>2, <2>3, <2>4 DEF Fences, RuleInd, Types
<1>11. QED
    BY <1>4, <1>5, <1>7, <1>8, <1>9, <1>10 DEF RuleInd

LEMMA CancelSineRules == ASSUME RuleInd, CancelSine PROVE RuleInd'
<1>1. /\ call.step = "sine"
      /\ sineGen' = [a \in Axes |-> IF a \in call.axes THEN sineGen[a] + 1 ELSE sineGen[a]]
      /\ UNCHANGED <<loops, positionGen, setpoint, cached, mailbox, owner, source, commands,
                     stopsUsed, stop, stopped>>
    BY DEF CancelSine, ownerVars, acceptVars
<1>2. /\ call' \in Calls /\ call'.n = call.n /\ call'.kind = call.kind /\ call'.axes = call.axes
      /\ call'.velocity = call.velocity /\ call'.gen = call.gen
      /\ call'.step = IF call.kind = "goto" THEN "position" ELSE "write"
  <2>1. call \in Calls
    BY DEF RuleInd, Types
  <2>2. QED
    BY <2>1 DEF CancelSine, Step, Calls
<1>3. call.kind \in {"goto", "velocity", "sine", "stopSine"} /\ call # NoCall
    BY <1>1, NoneFields DEF RuleInd, CallOK
<1>4. Types'
    BY <1>1, <1>2 DEF RuleInd, Types
<1>5. CallOK'
    BY <1>1, <1>2, <1>3 DEF RuleInd, CallOK
<1>6. SameLoops /\ GensGrow
    BY <1>1 DEF RuleInd, Types, SameLoops, GensGrow
<1>7. LoopsOK' /\ Exclusive' /\ CurrentRules' /\ OwnerRules'
    BY <1>1, <1>6, QuietLoops
<1>8. TasksOK'
    BY <1>1, <1>6, TasksKept DEF RuleInd
<1>9. StopOK' /\ InOrder'
    BY <1>1, <1>2, <1>3, CallMoves
<1>10. Fences'
  <2>1. owner.op # "stop"
    BY <1>1, NoneFields, OnlyLoopTasks DEF RuleInd, LoopOps
  <2>2. ~StopTaken'
    BY <1>1, <1>2, <2>1 DEF StopTaken, Waiting
  <2>3. PositionCancelled' => PositionCancelled
    BY <1>1, <1>2, <1>3 DEF PositionCancelled
  <2>4. ASSUME NEW n \in Commands, loops[n].kind = "sine", loops[n].axes \cap call.axes # {}
        PROVE  ~IsCurrent(n)'
    <3>1. PICK a \in Axes : loops[n].axes = {a} /\ loops[n].gen <= sineGen[a]
        BY <2>4 DEF RuleInd, LoopsOK
    <3>2. sineGen'[a] = sineGen[a] + 1 /\ sineGen[a] \in Nat /\ loops[n].gen \in Nat
        BY <1>1, <2>4, <3>1 DEF RuleInd, Types
    <3>3. loops[n].gen # sineGen'[a]
        BY <3>1, <3>2
    <3>4. QED
        BY <1>1, <2>4, <3>1, <3>3 DEF IsCurrent
  <2>5. call'.kind = "goto" => call'.step = "position"
    BY <1>2
  <2>6. QED
    BY <1>1, <1>2, <2>2, <2>3, <2>4, <2>5 DEF Fences, RuleInd
<1>11. QED
    BY <1>4, <1>5, <1>7, <1>8, <1>9, <1>10 DEF RuleInd

LEMMA ReturnRules ==
    ASSUME RuleInd, call # NoCall, Return, call.step # "wait" \/ ~Pending(call.kind, call.n),
           UNCHANGED <<loopVars, ownerVars, acceptVars, stop>>
    PROVE  RuleInd'
<1>1. /\ call' = NoCall
      /\ stopped' = [a \in Axes |-> IF Halts /\ a \in call.axes THEN call.n ELSE stopped[a]]
      /\ UNCHANGED <<loops, positionGen, sineGen, setpoint, cached, mailbox, owner, source,
                     commands, stopsUsed, stop>>
    BY DEF Return, loopVars, ownerVars, acceptVars
<1>2. call.n \in 0..MaxCommands
    BY DEF RuleInd, Types, Calls
<1>3. Types'
    BY <1>1, <1>2, NoneFields DEF RuleInd, Types
<1>4. CallOK' /\ StopOK'
    BY <1>1 DEF RuleInd, CallOK, StopOK
<1>5. SameLoops /\ GensGrow
    BY <1>1 DEF RuleInd, Types, SameLoops, GensGrow
<1>6. LoopsOK' /\ Exclusive' /\ CurrentRules' /\ OwnerRules'
    BY <1>1, <1>5, QuietLoops
<1>7. TasksOK'
    BY <1>1, <1>5, TasksKept DEF RuleInd
<1>8. InOrder'
  <2>1. \A m : Numbered(m) => Numbered(m)'
    BY <1>1, NoneFields DEF Numbered
  <2>2. call.n <= call.n /\ (stop.n # 0 => call.n < stop.n) /\ call.n <= commands
    BY <1>2 DEF RuleInd, InOrder
  <2>3. \A a \in Axes : stopped'[a] = stopped[a] \/ stopped'[a] = call.n
    BY <1>1
  <2>4. \A m : m = call.n => Numbered(m)'
    BY <1>1, <2>2, NoneFields DEF Numbered
  <2>5. call'.n <= commands' /\ stop'.n <= commands' /\ (stop'.n # 0 => call'.n < stop'.n)
    BY <1>1, NoneFields DEF RuleInd, InOrder, Types, Calls
  <2>6. QED
    BY <1>1, <2>1, <2>3, <2>4, <2>5, NoneFields DEF RuleInd, InOrder, Types, Launched, Commands
<1>9. Fences'
  <2>1. owner.op # "stop"
    BY NoneFields, OnlyLoopTasks DEF RuleInd, LoopOps
  <2>2. QED
    BY <1>1, <2>1, NoneFields DEF Fences, PositionCancelled, SineCancelled, StopTaken, Waiting
<1>10. QED
    BY <1>3, <1>4, <1>6, <1>7, <1>8, <1>9 DEF RuleInd

LEMMA SubmitRules ==
    ASSUME RuleInd, NEW t \in Tasks, t.op = call.kind, t.op \in CallOps, t.n = call.n,
           t.op \in {"velocity", "stop"} => t.values = All(call.axes, call.velocity),
           t.op = "sine" => DOMAIN t.values = call.axes,
           t.op = "goto" => DOMAIN t.values \subseteq call.axes,
           t.op = "stop" => t.key = "none",
           t.op = "velocity" => t.key = "external",
           t.op \in {"goto", "stopSine"} => \A a \in DOMAIN t.values : t.values[a] = 0,
           call.step = "write", Step("wait"),
           mailbox' \in Seq(Tasks), LastIn(t) \/ FirstIn(t),
           UNCHANGED <<loopVars, setpoint, cached, owner, source, acceptVars, stop, stopped>>
    PROVE  RuleInd'
<1>1. UNCHANGED <<loops, positionGen, sineGen, commands, stopsUsed, setpoint, cached, owner, source,
                  stop, stopped>>
    BY DEF loopVars, acceptVars
<1>2. /\ call' \in Calls /\ call'.n = call.n /\ call'.kind = call.kind /\ call'.axes = call.axes
      /\ call'.velocity = call.velocity /\ call'.step = "wait" /\ call'.gen = call.gen
    BY DEF RuleInd, Types, Step, Calls
<1>3. Types'
    BY <1>1, <1>2 DEF RuleInd, Types
<1>4. call # NoCall
    BY NoneFields
<1>5. CallOK'
    BY <1>2, <1>4 DEF RuleInd, CallOK
<1>6. StopOK' /\ InOrder'
    BY <1>1, <1>2, <1>4, CallMoves
<1>7. SameLoops /\ GensGrow
    BY <1>1 DEF RuleInd, Types, SameLoops, GensGrow
<1>8. LoopsOK' /\ Exclusive' /\ CurrentRules' /\ OwnerRules'
    BY <1>1, <1>7, QuietLoops
<1>9. TasksOK'
  <2>1. TaskOK(t)'
    BY <1>2 DEF TaskOK, Waiting
  <2>2. \A u : TaskOK(u) => TaskOK(u)'
    BY <1>1, <1>2 DEF TaskOK, Waiting, Launched
  <2>3. \A i \in DOMAIN mailbox' :
            mailbox'[i] = t \/ \E j \in DOMAIN mailbox : mailbox'[i] = mailbox[j]
    BY QueueKept DEF RuleInd, Types
  <2>4. QED
    BY <1>1, <2>1, <2>2, <2>3 DEF RuleInd, TasksOK
<1>10. Fences'
  <2>1. owner.op # "stop"
    BY NoneFields, OnlyLoopTasks DEF RuleInd, LoopOps
  <2>2. \E i \in DOMAIN mailbox' : mailbox'[i] = t
    BY QueueKept DEF RuleInd, Types
  <2>3. ~StopTaken'
    BY <1>1, <1>2, <2>1, <2>2 DEF StopTaken, Waiting, Pending
  <2>4. /\ PositionCancelled' => PositionCancelled
        /\ SineCancelled' => SineCancelled
    BY <1>2 DEF PositionCancelled, SineCancelled
  <2>5. \A n \in Commands : (Launched(n)' <=> Launched(n)) /\ (IsCurrent(n)' /\ Launched(n) => IsCurrent(n))
    BY <1>7, Outdated DEF RuleInd
  <2>6. QED
    BY <1>1, <1>2, <2>3, <2>4, <2>5 DEF RuleInd, Fences, Launched
<1>11. QED
    BY <1>3, <1>5, <1>6, <1>8, <1>9, <1>10 DEF RuleInd

LEMMA ValuesOK ==
    ASSUME NEW A \in SUBSET Axes, NEW v \in Velocities
    PROVE  All(A, v) \in UNION {[B -> Velocities] : B \in SUBSET Axes} /\ DOMAIN All(A, v) = A
<1>1. All(A, v) \in [A -> Velocities]
    BY DEF All
<1>2. QED
    BY <1>1

\* What a call hands to the owner.
LEMMA SubmitEffect ==
    ASSUME RuleInd,
           SubmitStop \/ SubmitVelocity \/ SubmitMove \/ SubmitSine \/ SubmitSineStop
    PROVE  /\ call.step = "write" /\ Joined /\ Step("wait")
           /\ UNCHANGED <<loopVars, setpoint, cached, owner, source, acceptVars, stop, stopped>>
           /\ mailbox' \in Seq(Tasks)
           /\ \E t \in Tasks :
                 /\ LastIn(t) \/ FirstIn(t)
                 /\ t.op = call.kind /\ t.op \in CallOps /\ t.n = call.n
                 /\ t.op \in {"velocity", "stop"} => t.values = All(call.axes, call.velocity)
                 /\ t.op = "sine" => DOMAIN t.values = call.axes
                 /\ t.op = "goto" => DOMAIN t.values \subseteq call.axes
                 /\ t.op = "stop" => t.key = "none"
                 /\ t.op = "velocity" => t.key = "external"
                 /\ t.op \in {"goto", "stopSine"} => \A a \in DOMAIN t.values : t.values[a] = 0
<1>1. /\ call.step = "write" /\ Joined /\ Step("wait")
      /\ UNCHANGED <<loopVars, setpoint, cached, owner, source, acceptVars, stop, stopped>>
    BY DEF SubmitStop, SubmitVelocity, SubmitMove, SubmitSine, SubmitSineStop, Submit
<1>2. /\ mailbox \in Seq(Tasks) /\ call.n \in 0..MaxCommands /\ call.axes \in SUBSET Axes
      /\ call.velocity \in Velocities /\ 0 \in Velocities
    BY DEF RuleInd, Types, Calls, Velocities
<1>3. CASE SubmitStop
  <2> DEFINE t == [op |-> "stop", n |-> call.n, values |-> All(Axes, 0), key |-> "none"]
  <2>1. t \in Tasks
    BY <1>2, ValuesOK DEF Tasks
  <2>2. EnqueueFirst(t) /\ call.kind = "stop"
    BY <1>3 DEF SubmitStop, Submit
  <2>3. call.axes = Axes /\ call.velocity = 0
    BY <2>2, NoneFields DEF RuleInd, CallOK
  <2>4. /\ t.op = "stop" /\ t.n = call.n /\ t.values = All(call.axes, call.velocity)
        /\ t.key = "none"
    BY <2>3
  <2> HIDE DEF t
  <2>5. QED
    BY <1>1, <1>2, <2>1, <2>2, <2>4, EnqueueFirstEffect DEF CallOps
<1>4. CASE SubmitVelocity
  <2> DEFINE t == [op |-> "velocity", n |-> call.n, values |-> All(call.axes, call.velocity),
                   key |-> "external"]
  <2>1. t \in Tasks
    BY <1>2, ValuesOK DEF Tasks
  <2>2. Enqueue(t) /\ call.kind = "velocity"
    BY <1>4 DEF SubmitVelocity, Submit
  <2>3. /\ t.op = "velocity" /\ t.n = call.n /\ t.values = All(call.axes, call.velocity)
        /\ t.key = "external"
    OBVIOUS
  <2> HIDE DEF t
  <2>4. QED
    BY <1>1, <1>2, <2>1, <2>2, <2>3, EnqueueEffect DEF CallOps
<1>5. CASE SubmitMove
  <2>1. PICK A \in SUBSET call.axes : Submit("goto", Enqueue, All(A, 0), "none")
    BY <1>5 DEF SubmitMove
  <2> DEFINE t == [op |-> "goto", n |-> call.n, values |-> All(A, 0), key |-> "none"]
  <2>2. t \in Tasks /\ t.op = "goto" /\ t.n = call.n /\ DOMAIN t.values \subseteq call.axes
    BY <1>2, ValuesOK DEF Tasks
  <2>3. Enqueue(t) /\ call.kind = "goto"
    BY <2>1 DEF Submit
  <2>4. \A a \in DOMAIN t.values : t.values[a] = 0
    BY DEF All
  <2> HIDE DEF t
  <2>5. QED
    BY <1>1, <1>2, <2>2, <2>3, <2>4, EnqueueEffect DEF CallOps
<1>6. CASE SubmitSine
  <2> DEFINE t == [op |-> "sine", n |-> call.n, values |-> All(call.axes, 0), key |-> "none"]
  <2>1. t \in Tasks /\ t.op = "sine" /\ t.n = call.n /\ DOMAIN t.values = call.axes
    BY <1>2, ValuesOK DEF Tasks
  <2>2. Enqueue(t) /\ call.kind = "sine"
    BY <1>6 DEF SubmitSine, Submit
  <2> HIDE DEF t
  <2>3. QED
    BY <1>1, <1>2, <2>1, <2>2, EnqueueEffect DEF CallOps
<1>7. ASSUME NEW a \in call.axes, Submit("stopSine", Enqueue, All({a}, 0), a)
      PROVE  \E t \in Tasks : Enqueue(t) /\ call.kind = "stopSine" /\ t.op = "stopSine" /\ t.n = call.n
                                /\ \A b \in DOMAIN t.values : t.values[b] = 0
  <2> DEFINE t == [op |-> "stopSine", n |-> call.n, values |-> All({a}, 0), key |-> a]
  <2>1. a \in Axes /\ {a} \in SUBSET Axes
    BY <1>2
  <2>2. t \in Tasks /\ t.op = "stopSine" /\ t.n = call.n
    BY <1>2, <2>1, ValuesOK DEF Tasks
  <2>3. Enqueue(t) /\ call.kind = "stopSine"
    BY <1>7 DEF Submit
  <2>5. \A b \in DOMAIN t.values : t.values[b] = 0
    BY DEF All
  <2> HIDE DEF t
  <2>4. QED
    BY <2>2, <2>3, <2>5
<1>8. CASE SubmitSineStop
    BY <1>1, <1>2, <1>7, <1>8, EnqueueEffect DEF SubmitSineStop, CallOps
<1>9. QED
    BY <1>3, <1>4, <1>5, <1>6, <1>8
-----------------------------------------------------------------------------
(* Launches *)

LoopSet == [kind : {"none", "position", "sine"}, axes : SUBSET Axes,
            gen : Nat, pc : {"off", "run", "stopping", "done"}]

LEMMA LaunchRules ==
    ASSUME RuleInd, call # NoCall, Return, Waiting(call.kind), ~Pending(call.kind, call.n),
           NEW l \in LoopSet, loops' = [loops EXCEPT ![call.n] = l],
           l.kind # "none", l.axes = call.axes, PositionCancelled, SineCancelled,
           l.kind = "position" => l.gen = positionGen,
           l.kind = "sine" => \E a \in Axes : call.axes = {a} /\ l.gen = sineGen[a],
           UNCHANGED <<positionGen, sineGen, ownerVars, acceptVars, stop>>
    PROVE  RuleInd'
<1>1. /\ call' = NoCall
      /\ stopped' = [a \in Axes |-> IF Halts /\ a \in call.axes THEN call.n ELSE stopped[a]]
      /\ UNCHANGED <<setpoint, cached, mailbox, owner, source, commands, stopsUsed>>
    BY DEF Return, ownerVars, acceptVars
<1>2. call.n \in Commands /\ call.axes # {} /\ call.axes \subseteq Axes
    BY ProducersAssumption DEF RuleInd, Types, Calls, CallOK, Commands
<1>3. /\ loops'[call.n] = l
      /\ \A n \in Commands \ {call.n} : loops'[n] = loops[n]
    BY <1>2 DEF RuleInd, Types
<1>4. Types'
    BY <1>1, <1>2, NoneFields DEF RuleInd, Types, LoopSet, Commands
<1>5. CallOK' /\ StopOK'
    BY <1>1 DEF RuleInd, CallOK, StopOK
<1>6. /\ ~Launched(call.n)
      /\ \A n \in Commands : Launched(n) => n < call.n
    BY <1>2 DEF RuleInd, InOrder, Numbered, Commands
<1>7. LoopsOK'
  <2>1. ASSUME NEW n \in Commands
        PROVE  /\ Launched(n)' => loops'[n].axes # {}
               /\ ~Launched(n)' => loops'[n] = NoLoop
               /\ loops'[n].kind = "position" => loops'[n].gen <= positionGen'
               /\ loops'[n].kind = "sine" =>
                     \E a \in Axes : loops'[n].axes = {a} /\ loops'[n].gen <= sineGen'[a]
    <3>1. CASE n = call.n
      <4>1. loops'[n] = l /\ l.gen \in Nat /\ positionGen' = positionGen /\ sineGen' = sineGen
        BY <1>3, <3>1 DEF LoopSet
      <4>2. Launched(n)' /\ loops'[n].axes # {}
        BY <1>2, <4>1 DEF Launched
      <4>3. l.kind = "position" => l.gen <= positionGen'
        BY <4>1
      <4>4. l.kind = "sine" => \E a \in Axes : l.axes = {a} /\ l.gen <= sineGen'[a]
        BY <4>1
      <4>5. QED
        BY <4>1, <4>2, <4>3, <4>4
    <3>2. CASE n # call.n
        BY <1>3, <3>2 DEF RuleInd, LoopsOK, Launched
    <3>3. QED
        BY <3>1, <3>2
  <2>2. QED
    BY <2>1 DEF LoopsOK
<1>8. \A n \in Commands \ {call.n} : /\ Launched(n)' <=> Launched(n)
                                     /\ IsCurrent(n)' <=> IsCurrent(n)
    BY <1>3 DEF Launched, IsCurrent
<1>9. TasksOK'
  <2>1. ASSUME NEW u, TaskOK(u), u.op \in LoopOps PROVE TaskOK(u)'
    BY <1>3, <1>6, <1>8, <2>1 DEF TaskOK, LoopOps, CallOps
  <2>2. QED
    BY <1>1, <2>1, OnlyLoopTasks DEF RuleInd, TasksOK
<1>10. InOrder'
  <2>1. \A m : Numbered(m) => Numbered(m)'
    BY <1>1, NoneFields DEF Numbered
  <2>2. Numbered(call.n)
    BY <1>2 DEF Numbered, RuleInd, InOrder, Commands
  <2>3. \A a \in Axes : stopped'[a] = stopped[a] \/ stopped'[a] = call.n
    BY <1>1
  <2>4. call'.n <= commands' /\ stop'.n <= commands' /\ (stop'.n # 0 => call'.n < stop'.n)
    BY <1>1, NoneFields DEF RuleInd, InOrder, Types, Calls
  <2>5. \A n \in Commands : n # call'.n
    BY <1>1, NoneFields DEF Commands
  <2>6. \A n \in Commands : Launched(n)' => Numbered(n)'
    BY <1>8, <2>1, <2>2 DEF RuleInd, InOrder
  <2>7. QED
    BY <1>1, <2>1, <2>2, <2>3, <2>4, <2>5, <2>6, NoneFields DEF RuleInd, InOrder
<1>11. Fences'
  <2>1. owner.op # "stop"
    BY NoneFields, OnlyLoopTasks DEF RuleInd, LoopOps
  <2>2. QED
    BY <1>1, <2>1, NoneFields DEF Fences, PositionCancelled, SineCancelled, StopTaken, Waiting
\* What runs on the axes of the call has been cancelled: the new loop is alone there.
<1>12. \A n \in Commands \ {call.n} :
           Launched(n) /\ IsCurrent(n) => loops[n].axes \cap call.axes = {}
  <2>1. SUFFICES ASSUME NEW n \in Commands, Launched(n), IsCurrent(n)
                 PROVE  loops[n].axes \cap call.axes = {}
    OBVIOUS
  <2>2. loops[n].kind \in {"position", "sine"} /\ loops[n].gen \in Nat /\ positionGen \in Nat
    BY <2>1 DEF RuleInd, Types, Launched
  <2>3. loops[n].kind # "position"
    BY <2>1, <2>2 DEF RuleInd, Fences, IsCurrent
  <2>4. QED
    BY <2>1, <2>2, <2>3 DEF RuleInd, Fences
<1>13. Exclusive'
  <2>1. ASSUME NEW m \in Commands, NEW n \in Commands, m # n,
               Launched(m)', Launched(n)', IsCurrent(m)', IsCurrent(n)'
        PROVE  loops'[m].axes \cap loops'[n].axes = {}
    <3>1. CASE m = call.n
        BY <1>3, <1>8, <1>12, <2>1, <3>1
    <3>2. CASE n = call.n
        BY <1>3, <1>8, <1>12, <2>1, <3>2
    <3>3. CASE m # call.n /\ n # call.n
        BY <1>3, <1>8, <2>1, <3>3 DEF RuleInd, Exclusive
    <3>4. QED
        BY <3>1, <3>2, <3>3
  <2>2. QED
    BY <2>1 DEF Exclusive
<1>14. CurrentRules'
  <2>1. \A a \in Axes : source[a].n <= call.n
    BY <1>2 DEF RuleInd, InOrder, Numbered, Commands
  <2>2. QED
    BY <1>1, <1>2, <1>3, <1>8, <2>1 DEF RuleInd, CurrentRules
<1>15. OwnerRules'
  <2>1. SUFFICES ASSUME owner.op \in LoopOps PROVE OwnerRules'
    BY <1>1 DEF OwnerRules
  <2>2. owner.n \in Commands /\ Launched(owner.n) /\ owner.n < call.n
    BY <1>6, <2>1, NoneFields DEF RuleInd, TasksOK, TaskOK, LoopOps, CallOps
  <2>3. \A m \in Commands : m < owner.n => m # call.n
    BY <1>2, <2>2 DEF Commands
  <2>4. QED
    BY <1>1, <1>3, <1>8, <2>1, <2>2, <2>3 DEF RuleInd, OwnerRules, Commands
<1>16. QED
    BY <1>4, <1>5, <1>7, <1>9, <1>10, <1>11, <1>13, <1>14, <1>15 DEF RuleInd

LEMMA LaunchMoveRules == ASSUME RuleInd, LaunchMove PROVE RuleInd'
<1>1. /\ Waiting("goto") /\ ~Pending(call.kind, call.n) /\ Return /\ call # NoCall
      /\ UNCHANGED <<positionGen, sineGen, ownerVars, acceptVars, stop>>
    BY NoneFields DEF LaunchMove, Answered, Waiting
<1>2. CASE call.gen # positionGen
    BY <1>1, <1>2, ReturnRules DEF LaunchMove, loopVars
<1>3. CASE call.gen = positionGen
  <2> DEFINE l == [kind |-> "position", axes |-> call.axes, gen |-> call.gen, pc |-> "run"]
  <2>1. l \in LoopSet
    BY DEF RuleInd, Types, Calls, LoopSet
  <2>2. loops' = [loops EXCEPT ![call.n] = l]
    BY <1>3 DEF LaunchMove
  <2>3. PositionCancelled /\ SineCancelled /\ Waiting(call.kind)
    BY <1>1 DEF PositionCancelled, SineCancelled, Waiting
  <2>4. l.kind = "position" /\ l.gen = positionGen /\ l.axes = call.axes
    BY <1>3
  <2> HIDE DEF l
  <2>5. QED
    BY <1>1, <2>1, <2>2, <2>3, <2>4, LaunchRules
<1>4. QED
    BY <1>2, <1>3

LEMMA LaunchSineRules == ASSUME RuleInd, LaunchSine PROVE RuleInd'
<1>1. /\ Waiting("sine") /\ ~Pending(call.kind, call.n) /\ Return /\ call # NoCall
      /\ UNCHANGED <<positionGen, sineGen, ownerVars, acceptVars, stop>>
    BY NoneFields DEF LaunchSine, Answered, Waiting
<1>2. PICK a \in Axes : call.axes = {a}
    BY <1>1 DEF RuleInd, CallOK, Waiting
<1>3. (CHOOSE b \in call.axes : TRUE) = a
    BY <1>2
<1> DEFINE l == [kind |-> "sine", axes |-> call.axes, pc |-> "run",
                 gen |-> sineGen[CHOOSE b \in call.axes : TRUE]]
<1>4. l \in LoopSet
    BY <1>2, <1>3 DEF RuleInd, Types, Calls, LoopSet
<1>5. loops' = [loops EXCEPT ![call.n] = l]
    BY DEF LaunchSine
<1>6. PositionCancelled /\ SineCancelled /\ Waiting(call.kind)
    BY <1>1 DEF PositionCancelled, SineCancelled, Waiting
<1>7. l.kind = "sine" /\ l.axes = call.axes /\ l.gen = sineGen[a]
    BY <1>3
<1> HIDE DEF l
<1>8. QED
    BY <1>1, <1>2, <1>4, <1>5, <1>6, <1>7, LaunchRules
-----------------------------------------------------------------------------
(* The loops *)

\* A loop goes on or ends, and may hand the owner a task of its own.
LEMMA LoopRules ==
    ASSUME RuleInd, SameLoops, loops' \in [Commands -> LoopSet],
           UNCHANGED <<positionGen, sineGen, setpoint, cached, owner, source, acceptVars,
                       call, stop, stopped>>,
           \/ UNCHANGED mailbox
           \/ mailbox' \in Seq(Tasks) /\ \E t \in Tasks : TaskOK(t) /\ t.op \in LoopOps /\ LastIn(t)
    PROVE  RuleInd'
<1>1. GensGrow
    BY DEF RuleInd, Types, GensGrow
<1>2. Types'
    BY DEF RuleInd, Types, LoopSet, acceptVars
<1>3. CallOK' /\ StopOK'
    BY DEF RuleInd, CallOK, StopOK
<1>4. LoopsOK' /\ Exclusive' /\ CurrentRules' /\ OwnerRules'
    BY <1>1, QuietLoops
<1>5. \A n \in Commands : /\ Launched(n)' <=> Launched(n)
                          /\ IsCurrent(n)' /\ Launched(n) => IsCurrent(n)
    BY <1>1, Outdated DEF RuleInd
<1>6. InOrder'
    BY <1>5 DEF RuleInd, InOrder, Numbered, acceptVars
<1>7. TasksOK'
  <2>1. \A u : TaskOK(u) => TaskOK(u)'
    BY <1>5 DEF TaskOK, Waiting, SameLoops
  <2>2. CASE UNCHANGED mailbox
    BY <2>1, <2>2 DEF RuleInd, TasksOK
  <2>3. CASE mailbox' \in Seq(Tasks) /\ \E t \in Tasks : TaskOK(t) /\ t.op \in LoopOps /\ LastIn(t)
    <3>1. PICK t \in Tasks : TaskOK(t) /\ LastIn(t)
        BY <2>3
    <3>2. \A i \in DOMAIN mailbox' :
              mailbox'[i] = t \/ \E j \in DOMAIN mailbox : mailbox'[i] = mailbox[j]
        BY <2>3, <3>1, QueueKept DEF RuleInd, Types
    <3>3. QED
        BY <2>1, <3>1, <3>2 DEF RuleInd, TasksOK
  <2>4. QED
    BY <2>2, <2>3
<1>8. Fences'
  <2>1. StopTaken' => StopTaken
    <3>1. CASE UNCHANGED mailbox
        BY <3>1 DEF StopTaken, Waiting, Pending
    <3>2. CASE mailbox' \in Seq(Tasks) /\ \E t \in Tasks : TaskOK(t) /\ t.op \in LoopOps /\ LastIn(t)
      <4>1. \A j \in DOMAIN mailbox : mailbox[j].op = "stop" =>
                \E i \in DOMAIN mailbox' : mailbox'[i] = mailbox[j]
        BY <3>2, QueueKept DEF RuleInd, Types
      <4>2. Pending("stop", call.n) => Pending("stop", call.n)'
        BY <4>1 DEF Pending
      <4>3. QED
        BY <4>2 DEF StopTaken, Waiting
    <3>3. QED
        BY <3>1, <3>2
  <2>2. /\ PositionCancelled' <=> PositionCancelled
        /\ SineCancelled' <=> SineCancelled
    BY DEF PositionCancelled, SineCancelled
  <2>3. QED
    BY <1>5, <2>1, <2>2 DEF RuleInd, Fences, SameLoops, Launched
<1>9. QED
    BY <1>2, <1>3, <1>4, <1>6, <1>7, <1>8 DEF RuleInd

\* The task of a loop.
LEMMA LoopTask ==
    ASSUME RuleInd, NEW n \in Commands, Launched(n), NEW op \in LoopOps,
           NEW values \in [loops[n].axes -> Velocities]
    PROVE  LET t == [op |-> op, n |-> n, values |-> values, key |-> LoopKey(n)]
           IN  t \in Tasks /\ TaskOK(t) /\ t.op = op /\ t.n = n
<1>1. loops[n].axes \in SUBSET Axes /\ loops[n].kind \in {"position", "sine"}
    BY DEF RuleInd, Types, Launched
<1>2. LoopKey(n) \in {"position"} \cup Axes
  <2>1. CASE loops[n].kind = "position"
    BY <2>1 DEF LoopKey
  <2>2. CASE loops[n].kind = "sine"
    <3>1. \E a \in Axes : loops[n].axes = {a}
        BY <2>2 DEF RuleInd, LoopsOK
    <3>2. (CHOOSE a \in Axes : loops[n].axes = {a}) \in Axes
        BY <3>1
    <3>3. QED
        BY <2>2, <3>2 DEF LoopKey
  <2>3. QED
    BY <1>1, <2>1, <2>2
<1>3. LoopKey(n) # "external"
    BY <1>2, ProducersAssumption
<1>4. values \in UNION {[A -> Velocities] : A \in SUBSET Axes} /\ DOMAIN values = loops[n].axes
    BY <1>1
<1>5. n \in 0..MaxCommands /\ op \in {"loop", "loopStop"}
    BY DEF Commands, LoopOps
<1> HIDE DEF LoopKey
<1>6. [op |-> op, n |-> n, values |-> values, key |-> LoopKey(n)] \in Tasks
    BY <1>2, <1>4, <1>5 DEF Tasks
<1>7. QED
    BY <1>3, <1>4, <1>6 DEF TaskOK

LEMMA PublishRoundRules ==
    ASSUME RuleInd, NEW n \in Commands, NEW values \in [loops[n].axes -> Velocities],
           PublishPosition(n, values) \/ PublishSine(n, values)
    PROVE  RuleInd' /\ loops[n].pc = "run" /\ UNCHANGED loops
           /\ mailbox' \in Seq(Tasks)
           /\ \E t \in Tasks : TaskOK(t) /\ t.op = "loop" /\ t.n = n /\ LastIn(t)
<1> DEFINE t == [op |-> "loop", n |-> n, values |-> values, key |-> LoopKey(n)]
<1>1. /\ Publish(t) /\ loops[n].pc = "run" /\ Launched(n)
      /\ UNCHANGED <<loops, positionGen, sineGen, setpoint, cached, owner, source, acceptVars,
                     call, stop, stopped>>
    BY DEF PublishPosition, PublishSine, PublishRound, Launched, loopVars
<1>2. t \in Tasks /\ TaskOK(t) /\ t.op = "loop" /\ t.n = n
    BY <1>1, LoopTask DEF LoopOps
<1> HIDE DEF t
<1>3. mailbox' \in Seq(Tasks) /\ LastIn(t)
    BY <1>1, <1>2, PublishEffect DEF RuleInd, Types
<1>4. SameLoops /\ loops' \in [Commands -> LoopSet]
    BY <1>1 DEF SameLoops, RuleInd, Types, LoopSet
<1>5. RuleInd'
    BY <1>1, <1>2, <1>3, <1>4, LoopRules DEF LoopOps
<1>6. QED
    BY <1>1, <1>2, <1>3, <1>5

LEMMA LeaveRules ==
    ASSUME RuleInd, NEW n \in Commands, LeavePosition(n) \/ LeaveSine(n)
    PROVE  RuleInd' /\ loops[n].pc = "run" /\ loops' = [loops EXCEPT ![n].pc = "stopping"]
           /\ mailbox' \in Seq(Tasks)
           /\ \E t \in Tasks : TaskOK(t) /\ t.op = "loopStop" /\ t.n = n /\ LastIn(t) /\ Enqueue(t)
<1> DEFINE t == [op |-> "loopStop", n |-> n, values |-> All(loops[n].axes, 0), key |-> LoopKey(n)]
<1>1. /\ Enqueue(t) /\ loops[n].pc = "run" /\ Launched(n)
      /\ loops' = [loops EXCEPT ![n].pc = "stopping"]
      /\ UNCHANGED <<positionGen, sineGen, setpoint, cached, owner, source, acceptVars,
                     call, stop, stopped>>
    BY DEF LeavePosition, LeaveSine, LeaveLoop, Launched, loopVars
<1>2. All(loops[n].axes, 0) \in [loops[n].axes -> Velocities]
    BY DEF All, Velocities
<1>3. t \in Tasks /\ TaskOK(t) /\ t.op = "loopStop" /\ t.n = n
    BY <1>1, <1>2, LoopTask DEF LoopOps
<1> HIDE DEF t
<1>4. mailbox' \in Seq(Tasks) /\ LastIn(t)
    BY <1>1, <1>3, EnqueueEffect DEF RuleInd, Types
<1>5. SameLoops /\ loops' \in [Commands -> LoopSet]
    BY <1>1 DEF SameLoops, Launched, RuleInd, Types, LoopSet
<1>6. RuleInd'
    BY <1>1, <1>3, <1>4, <1>5, LoopRules DEF LoopOps
<1>7. QED
    BY <1>1, <1>3, <1>4, <1>6

LEMMA EndRules ==
    ASSUME RuleInd, NEW n \in Commands, EndLoop(n)
    PROVE  RuleInd'
<1>1. /\ loops[n].pc = "stopping" /\ loops' = [loops EXCEPT ![n].pc = "done"]
      /\ UNCHANGED <<positionGen, sineGen, setpoint, cached, mailbox, owner, source, acceptVars,
                     call, stop, stopped>>
    BY DEF EndLoop, ownerVars
<1>2. Launched(n)
    BY <1>1, NoneFields DEF RuleInd, LoopsOK
<1>3. SameLoops /\ loops' \in [Commands -> LoopSet]
    BY <1>1, <1>2 DEF SameLoops, Launched, RuleInd, Types, LoopSet
<1>4. QED
    BY <1>1, <1>3, LoopRules
-----------------------------------------------------------------------------
(* The owner *)

\* What TakeTask takes, and what it drops.
LEMMA TakeEffect ==
    ASSUME RuleInd, TakeTask
    PROVE  /\ owner = NoTask /\ mailbox # <<>>
           /\ mailbox' = Tail(mailbox) /\ mailbox' \in Seq(Tasks)
           /\ Head(mailbox) = mailbox[1] /\ Len(mailbox) \in Nat \ {0}
           /\ DOMAIN mailbox = 1..Len(mailbox) /\ DOMAIN mailbox' = 1..Len(mailbox) - 1
           /\ \A i \in DOMAIN mailbox' : mailbox'[i] = mailbox[i + 1]
           /\ mailbox[1] \in Tasks /\ TaskOK(mailbox[1])
           /\ \/ owner' = NoTask
              \/ owner' = mailbox[1] /\ (mailbox[1].op \in LoopOps => IsCurrent(mailbox[1].n))
           /\ mailbox[1].op = "stop" => owner' = mailbox[1]
           /\ mailbox[1].op = "velocity" =>
                 owner' = mailbox[1] \/ \E i \in DOMAIN mailbox' : mailbox'[i].key = mailbox[1].key
           /\ owner'.op = "stop" => positionGen' = positionGen + 1
                                    /\ sineGen' = [a \in Axes |-> sineGen[a] + 1]
           /\ owner'.op # "stop" => UNCHANGED <<positionGen, sineGen>>
           /\ UNCHANGED <<loops, setpoint, cached, source, acceptVars, call, stop, stopped>>
<1>1. /\ owner = NoTask /\ mailbox # <<>> /\ mailbox' = Tail(mailbox)
      /\ owner' = IF \/ Superseded(Head(mailbox), Tail(mailbox))
                     \/ Fenced(Head(mailbox)) /\ ~IsCurrent(Head(mailbox).n)
                  THEN NoTask ELSE Head(mailbox)
      /\ owner'.op = "stop" => positionGen' = positionGen + 1
                                    /\ sineGen' = [a \in Axes |-> sineGen[a] + 1]
      /\ owner'.op # "stop" => UNCHANGED <<positionGen, sineGen>>
      /\ UNCHANGED <<loops, setpoint, cached, source, acceptVars, call, stop, stopped>>
    BY DEF TakeTask
<1>2. /\ mailbox' \in Seq(Tasks) /\ Head(mailbox) = mailbox[1] /\ mailbox[1] \in Tasks
      /\ Len(mailbox) \in Nat \ {0}
      /\ DOMAIN mailbox = 1..Len(mailbox) /\ DOMAIN mailbox' = 1..Len(mailbox) - 1
      /\ \A i \in DOMAIN mailbox' : mailbox'[i] = mailbox[i + 1]
    BY <1>1, TailEffect DEF RuleInd, Types
<1>3. 1 \in DOMAIN mailbox /\ TaskOK(mailbox[1])
    BY <1>2 DEF RuleInd, TasksOK
<1>4. mailbox[1].op = "stop" => mailbox[1].key = "none"
    BY <1>3 DEF TaskOK, LoopOps
<1>5. /\ mailbox[1].op = "stop" => owner' = mailbox[1]
      /\ mailbox[1].op = "velocity" =>
            owner' = mailbox[1] \/ \E i \in DOMAIN mailbox' : mailbox'[i].key = mailbox[1].key
      /\ \/ owner' = NoTask
         \/ owner' = mailbox[1] /\ (mailbox[1].op \in LoopOps => IsCurrent(mailbox[1].n))
    BY <1>1, <1>2, <1>4 DEF Superseded, Fenced, LoopOps
<1>6. QED
    BY <1>1, <1>2, <1>3, <1>5

LEMMA TakeRules == ASSUME RuleInd, TakeTask PROVE RuleInd'
<1>1. SameLoops /\ GensGrow
  <2>1. SameLoops
    BY TakeEffect DEF SameLoops
  <2>2. GensGrow
    BY TakeEffect DEF RuleInd, Types, GensGrow
  <2>3. QED
    BY <2>1, <2>2
<1>2. Types'
    BY <1>1, TakeEffect, NoneFields DEF RuleInd, Types, GensGrow, acceptVars
<1>3. CallOK' /\ StopOK' /\ InOrder'
    BY TakeEffect DEF RuleInd, CallOK, StopOK, InOrder, Numbered, Launched, acceptVars
<1>4. LoopsOK' /\ \A n \in Commands : /\ Launched(n)' <=> Launched(n)
                                      /\ IsCurrent(n)' /\ Launched(n) => IsCurrent(n)
    BY <1>1, Outdated DEF RuleInd
<1>5. Exclusive' /\ CurrentRules'
  <2>1. Exclusive'
    BY <1>4, TakeEffect DEF RuleInd, Exclusive
  <2>2. CurrentRules'
    BY <1>4, TakeEffect, NoneFields DEF RuleInd, CurrentRules, LoopsOK
  <2>3. QED
    BY <2>1, <2>2
<1>6. TasksOK'
  <2>1. \A u : TaskOK(u) => TaskOK(u)'
    BY <1>4, TakeEffect DEF TaskOK, Waiting
  <2>2. \A i \in DOMAIN mailbox' : mailbox'[i] = mailbox[i + 1] /\ i + 1 \in DOMAIN mailbox
    BY TakeEffect
  <2>3. \A i \in DOMAIN mailbox' : TaskOK(mailbox'[i])
    BY <2>2 DEF RuleInd, TasksOK
  <2>4. owner' = NoTask \/ TaskOK(owner')
    BY TakeEffect
  <2>5. QED
    BY <2>1, <2>3, <2>4 DEF TasksOK
<1>7. Fences'
  <2>1. owner'.op = "stop" => \A n \in Commands : Launched(n) => ~IsCurrent(n)'
    <3>1. SUFFICES ASSUME owner'.op = "stop", NEW n \in Commands, Launched(n) PROVE ~IsCurrent(n)'
        OBVIOUS
    <3>2. /\ positionGen' = positionGen + 1 /\ positionGen \in Nat
          /\ \A a \in Axes : sineGen'[a] = sineGen[a] + 1 /\ sineGen[a] \in Nat
          /\ loops' = loops /\ loops[n].gen \in Nat /\ loops[n].kind \in {"position", "sine"}
        BY <3>1, TakeEffect DEF RuleInd, Types, Launched
    <3>3. CASE loops[n].kind = "position"
        BY <3>2, <3>3 DEF RuleInd, LoopsOK, IsCurrent
    <3>4. CASE loops[n].kind = "sine"
      <4>1. PICK a \in Axes : loops[n].axes = {a} /\ loops[n].gen <= sineGen[a]
        BY <3>4 DEF RuleInd, LoopsOK
      <4>2. loops[n].gen # sineGen'[a]
        BY <3>2, <4>1
      <4>3. QED
        BY <3>2, <3>4, <4>1, <4>2 DEF IsCurrent
    <3>5. QED
        BY <3>2, <3>3, <3>4
  <2>2. StopTaken' => owner'.op = "stop" \/ StopTaken
    <3>1. SUFFICES ASSUME Waiting("stop"), ~Pending("stop", call.n)', Pending("stop", call.n),
                          owner'.op # "stop"
                   PROVE  FALSE
        BY TakeEffect DEF StopTaken, Waiting
    <3>2. PICK i \in DOMAIN mailbox : mailbox[i].op = "stop" /\ mailbox[i].n = call.n
        BY <3>1, TakeEffect, NoneFields DEF Pending
    <3>3. i # 1
        BY <3>1, <3>2, TakeEffect
    <3>4. i - 1 \in DOMAIN mailbox' /\ (i - 1) + 1 = i
        BY <3>3, TakeEffect
    <3>5. mailbox'[i - 1] = mailbox[i]
        BY <3>4, TakeEffect
    <3>6. QED
        BY <3>1, <3>2, <3>4, <3>5, TakeEffect DEF Pending
  <2>3. /\ PositionCancelled' <=> PositionCancelled
        /\ SineCancelled' <=> SineCancelled
    BY TakeEffect DEF PositionCancelled, SineCancelled
  <2>4. positionGen \in Nat /\ positionGen' \in Nat /\ positionGen' >= positionGen /\ call.gen \in Nat
        /\ \A n \in Commands : loops[n].gen \in Nat
    BY <1>1 DEF GensGrow, RuleInd, Types, Calls
  <2>5. QED
    BY <1>4, <2>1, <2>2, <2>3, <2>4, TakeEffect DEF RuleInd, Fences, Launched
<1>8. OwnerRules'
  <2>1. SUFFICES ASSUME owner'.op \in LoopOps PROVE OwnerRules'
    BY DEF OwnerRules
  <2>2. /\ owner' = mailbox[1] /\ IsCurrent(owner'.n) /\ UNCHANGED <<positionGen, sineGen, loops, source>>
        /\ owner'.n \in Commands /\ Launched(owner'.n)
    BY <2>1, TakeEffect, NoneFields DEF LoopOps, TaskOK, CallOps
  <2>3. \A m \in Commands : m < owner'.n /\ Launched(m) /\ IsCurrent(m) =>
            loops[m].axes \cap loops[owner'.n].axes = {}
    BY <2>2 DEF RuleInd, Exclusive, Commands
  <2>4. \A m \in Commands : IsCurrent(m)' <=> IsCurrent(m)
    BY <2>2 DEF IsCurrent
  <2>5. \A a \in loops[owner'.n].axes : source[a].n <= owner'.n
    BY <2>2 DEF RuleInd, CurrentRules
  <2>6. QED
    BY <1>4, <2>2, <2>3, <2>4, <2>5 DEF OwnerRules
<1>9. QED
    BY <1>2, <1>3, <1>4, <1>5, <1>6, <1>7, <1>8 DEF RuleInd

\* What the owner writes is of no older command than what it wrote last.
LEMMA ExecuteEffect ==
    ASSUME RuleInd, ExecuteTask
    PROVE  /\ owner # NoTask /\ TaskOK(owner) /\ owner.n \in Commands /\ owner' = NoTask
           /\ UNCHANGED <<loops, positionGen, sineGen, mailbox, commands, stopsUsed, call, stop, stopped>>
           /\ source' = [a \in Axes |-> IF a \in DOMAIN owner.values /\ owner.op # "stopSine"
                                        THEN [n |-> owner.n, by |-> Producer(owner.op)]
                                        ELSE source[a]]
           /\ \A a \in DOMAIN owner.values : owner.op # "stopSine" => source[a].n <= owner.n
           /\ Numbered(owner.n)
           /\ owner.op \in CallOps => owner.n = call.n /\ Waiting(owner.op)
           /\ owner.op \in {"goto", "velocity", "sine"} => DOMAIN owner.values \subseteq call.axes
           /\ owner.op \in LoopOps => Launched(owner.n) /\ DOMAIN owner.values = loops[owner.n].axes
           /\ DOMAIN owner.values \subseteq Axes
<1>1. /\ owner # NoTask /\ owner' = NoTask
      /\ source' = [a \in Axes |-> IF a \in DOMAIN owner.values /\ owner.op # "stopSine"
                                   THEN [n |-> owner.n, by |-> Producer(owner.op)]
                                   ELSE source[a]]
      /\ UNCHANGED <<loops, positionGen, sineGen, mailbox, commands, stopsUsed, call, stop, stopped>>
    BY DEF ExecuteTask, loopVars, acceptVars
<1>2. TaskOK(owner)
    BY <1>1 DEF RuleInd, TasksOK
<1>3. owner.values \in UNION {[A -> Velocities] : A \in SUBSET Axes}
    BY DEF RuleInd, Types, Tasks
<1>4. DOMAIN owner.values \subseteq Axes
    BY <1>3
<1>5. CASE owner.op \in LoopOps
  <2>1. /\ owner.n \in Commands /\ Launched(owner.n) /\ DOMAIN owner.values = loops[owner.n].axes
        /\ owner.op \notin CallOps
    BY <1>2, <1>5 DEF TaskOK, LoopOps, CallOps
  <2>2. Numbered(owner.n)
    BY <2>1 DEF RuleInd, InOrder
  <2>3. \A a \in DOMAIN owner.values : source[a].n <= owner.n
    BY <1>5, <2>1 DEF RuleInd, OwnerRules
  <2>4. owner.op \notin {"goto", "velocity", "sine"}
    BY <1>5 DEF LoopOps
  <2>5. QED
    BY <1>1, <1>2, <1>4, <2>1, <2>2, <2>3, <2>4
<1>6. CASE owner.op \in CallOps
  <2>1. owner.n = call.n /\ Waiting(owner.op) /\ owner.op \notin LoopOps
    BY <1>2, <1>6 DEF TaskOK, LoopOps, CallOps
  <2>2. call.n # 0 /\ call.n \in 0..MaxCommands /\ call.n \in Commands
    BY <2>1, NoneFields, ProducersAssumption DEF RuleInd, CallOK, Types, Calls, Waiting, Commands
  <2>3. Numbered(owner.n)
    BY <2>1, <2>2 DEF RuleInd, InOrder, Numbered
  <2>4. \A a \in Axes : source[a].n <= owner.n
    BY <2>1, <2>2 DEF RuleInd, InOrder, Numbered
  <2>5. owner.op \in {"goto", "velocity", "sine"} => DOMAIN owner.values \subseteq call.axes
    BY <1>2, <1>6 DEF TaskOK, LoopOps, All
  <2>6. QED
    BY <1>1, <1>2, <1>4, <2>1, <2>2, <2>3, <2>4, <2>5
<1>7. QED
    BY <1>2, <1>5, <1>6 DEF TaskOK

LEMMA ExecuteRules == ASSUME RuleInd, ExecuteTask PROVE RuleInd'
<1>1. SameLoops /\ GensGrow
    BY ExecuteEffect DEF SameLoops, GensGrow, RuleInd, Types
<1>2. Types'
  <2>1. /\ setpoint' \in [Axes -> Velocities] /\ cached' \in [Axes -> Velocities]
    <3>1. PICK A \in SUBSET Axes : owner.values \in [A -> Velocities]
        BY DEF RuleInd, Types, Tasks
    <3>2. QED
        BY <3>1 DEF ExecuteTask, RuleInd, Types
  <2>2. source' \in [Axes -> [n : 0..MaxCommands, by : {"rest", "held", "loop"}]]
    <3>1. Producer(owner.op) \in {"rest", "held", "loop"} /\ owner.n \in 0..MaxCommands
        BY DEF Producer, RuleInd, Types, Tasks
    <3>2. [n |-> owner.n, by |-> Producer(owner.op)] \in [n : 0..MaxCommands, by : {"rest", "held", "loop"}]
        BY <3>1
    <3> HIDE DEF Producer
    <3>3. QED
        BY <3>2, ExecuteEffect DEF RuleInd, Types
  <2>3. QED
    BY <2>1, <2>2, ExecuteEffect, NoneFields DEF RuleInd, Types
<1>3. CallOK' /\ StopOK'
    BY ExecuteEffect DEF RuleInd, CallOK, StopOK
<1>4. LoopsOK' /\ \A n \in Commands : (Launched(n)' <=> Launched(n)) /\ (IsCurrent(n)' <=> IsCurrent(n))
    BY <1>1, ExecuteEffect, Outdated DEF RuleInd, IsCurrent
<1>5. Exclusive'
    BY <1>4, ExecuteEffect DEF RuleInd, Exclusive
<1>6. \A a \in Axes : source'[a] = source[a] \/
          (source'[a].n = owner.n /\ a \in DOMAIN owner.values /\ owner.op # "stopSine")
    BY ExecuteEffect
<1>7. InOrder'
  <2>1. \A m : Numbered(m)' <=> Numbered(m)
    BY ExecuteEffect DEF Numbered
  <2>2. \A a \in Axes : Numbered(source'[a].n)
    BY <1>6, ExecuteEffect DEF RuleInd, InOrder
  <2>3. \A a \in Axes : Numbered(source[a].n)'
    BY <2>2, ExecuteEffect DEF Numbered
  <2>4. QED
    BY <1>4, <2>1, <2>3, ExecuteEffect DEF RuleInd, InOrder
<1>8. TasksOK'
  <2>1. \A u : TaskOK(u) => TaskOK(u)'
    BY <1>4, ExecuteEffect DEF TaskOK, Waiting
  <2>2. QED
    BY <2>1, ExecuteEffect DEF RuleInd, TasksOK
<1>9. Fences'
  <2>1. StopTaken' => StopTaken
    BY ExecuteEffect, NoneFields DEF StopTaken, Waiting, Pending
  <2>2. /\ PositionCancelled' <=> PositionCancelled
        /\ SineCancelled' <=> SineCancelled
    BY ExecuteEffect DEF PositionCancelled, SineCancelled
  <2>3. QED
    BY <1>4, <2>1, <2>2, ExecuteEffect DEF RuleInd, Fences
<1>10. CurrentRules'
  <2>1. SUFFICES ASSUME NEW n \in Commands, IsCurrent(n), NEW a \in loops[n].axes,
                        a \in DOMAIN owner.values, owner.op # "stopSine"
                 PROVE  owner.n <= n
    <3>1. \A n \in Commands : loops[n].axes \subseteq Axes
        BY DEF RuleInd, Types
    <3>2. QED
        BY <1>4, <1>6, <3>1, ExecuteEffect DEF RuleInd, CurrentRules
  <2>2. Launched(n) /\ loops[n].kind \in {"position", "sine"} /\ n \in Int /\ owner.n \in Int
        /\ loops[n].gen \in Nat /\ positionGen \in Nat
    <3>1. /\ loops[n].kind \in {"none", "position", "sine"} /\ loops[n].gen \in Nat /\ positionGen \in Nat
        BY DEF RuleInd, Types
    <3>2. n \in Int /\ owner.n \in Int
        BY ExecuteEffect, ProducersAssumption DEF Commands
    <3>3. Launched(n)
        BY <2>1, NoneFields DEF RuleInd, LoopsOK
    <3>4. QED
        BY <3>1, <3>2, <3>3 DEF Launched
  <2>3. CASE owner.op \in LoopOps
    <3>1. n < owner.n => loops[n].axes \cap loops[owner.n].axes = {}
        BY <2>1, <2>2, <2>3 DEF RuleInd, OwnerRules
    <3>2. QED
        BY <2>1, <2>2, <2>3, <3>1, ExecuteEffect
  <2>4. CASE owner.op \in {"goto", "velocity", "sine"}
    <3>1. /\ call.kind = owner.op /\ call.step = "wait" /\ a \in call.axes
        BY <2>1, <2>4, ExecuteEffect DEF CallOps, Waiting
    <3>2. PositionCancelled /\ SineCancelled
        BY <2>4, <3>1 DEF PositionCancelled, SineCancelled
    <3>3. loops[n].kind # "position"
        BY <2>1, <2>2, <3>2 DEF RuleInd, Fences, IsCurrent
    <3>4. QED
        BY <2>1, <2>2, <3>1, <3>2, <3>3 DEF RuleInd, Fences
  <2>5. CASE owner.op = "stop"
    BY <2>1, <2>2, <2>5 DEF RuleInd, Fences, StopTaken
  <2>6. QED
    BY <2>1, <2>3, <2>4, <2>5, ExecuteEffect DEF TaskOK, CallOps
<1>11. OwnerRules'
    BY ExecuteEffect, NoneFields DEF OwnerRules, LoopOps
<1>12. QED
    BY <1>2, <1>3, <1>4, <1>5, <1>7, <1>8, <1>9, <1>10, <1>11 DEF RuleInd

\* The owner drops the write of a velocity: nothing is written.
LEMMA RefuseTaskRules == ASSUME RuleInd, RefuseTask PROVE RuleInd'
<1>1. /\ owner.op = "velocity" /\ owner' = NoTask /\ acceptVars' = acceptVars
      /\ UNCHANGED <<loops, positionGen, sineGen, setpoint, cached, mailbox, source, commands,
                     stopsUsed, call, stop, stopped>>
    BY DEF RefuseTask, loopVars, acceptVars
<1>2. \A n : (Launched(n)' <=> Launched(n)) /\ (IsCurrent(n)' <=> IsCurrent(n))
    BY <1>1 DEF Launched, IsCurrent
<1>3. Types' /\ CallOK' /\ StopOK'
    BY <1>1, NoneFields DEF RuleInd, Types, CallOK, StopOK
<1>4. LoopsOK' /\ Exclusive' /\ CurrentRules'
    BY <1>1, <1>2 DEF RuleInd, LoopsOK, Exclusive, CurrentRules
<1>5. TasksOK'
    BY <1>1, <1>2 DEF RuleInd, TasksOK, TaskOK, Waiting
<1>6. InOrder'
    BY <1>1, <1>2 DEF RuleInd, InOrder, Numbered
<1>7. Fences'
  <2>1. StopTaken' => StopTaken
    <3>1. Waiting("stop") => Pending("stop", call.n)' \/ ~Pending("stop", call.n)
        BY <1>1 DEF Pending
    <3>2. QED
        BY <1>1, <3>1, NoneFields DEF StopTaken, Waiting
  <2>2. QED
    BY <1>1, <1>2, <2>1 DEF RuleInd, Fences, PositionCancelled, SineCancelled
<1>8. OwnerRules'
    BY <1>1, NoneFields DEF OwnerRules, LoopOps
<1>9. QED
    BY <1>3, <1>4, <1>5, <1>6, <1>7, <1>8 DEF RuleInd

\* An axis stops at its limit, or nothing happens.
LEMMA LimitRules ==
    ASSUME RuleInd, setpoint' \in [Axes -> Velocities],
           UNCHANGED <<loopVars, cached, mailbox, owner, source, commands, stopsUsed, call, stop, stopped>>
    PROVE  RuleInd'
<1>1. UNCHANGED <<loops, positionGen, sineGen>>
    BY DEF loopVars
<1>2. SameLoops /\ GensGrow
    BY <1>1 DEF SameLoops, GensGrow, RuleInd, Types
<1>3. Types' /\ StopOK' /\ InOrder'
  <2>1. Types'
    BY <1>1 DEF RuleInd, Types
  <2>2. StopOK' /\ InOrder'
    BY <1>1 DEF RuleInd, StopOK, InOrder, Numbered, Launched
  <2>3. QED
    BY <2>1, <2>2
<1>4. QED
    BY <1>2, <1>3, CallGoesOn DEF RuleInd

LEMMA RulesInit == Init => RuleInd
<1> SUFFICES ASSUME Init PROVE RuleInd
    OBVIOUS
<1>1. \A n \in Commands : loops[n] = NoLoop /\ ~Launched(n)
    BY NoneFields DEF Init, Launched
<1>2. \A a \in Axes : source[a].n = 0 /\ stopped[a] = 0
    BY DEF Init, All
<1>3. Types
  <2>1. /\ setpoint \in [Axes -> Velocities] /\ cached \in [Axes -> Velocities]
        /\ positionGen \in Nat /\ sineGen \in [Axes -> Nat]
    BY DEF Init, All, Velocities
  <2>2. loops \in [Commands -> [kind : {"none", "position", "sine"}, axes : SUBSET Axes,
                               gen : Nat, pc : {"off", "run", "stopping", "done"}]]
    BY DEF Init, NoLoop
  <2>3. mailbox \in Seq(Tasks) /\ owner \in Tasks /\ call \in Calls /\ stop \in Calls
    BY NoneFields DEF Init
  <2>4. /\ commands \in 0..MaxCommands /\ stopsUsed \in 0..MaxStops
        /\ source \in [Axes -> [n : 0..MaxCommands, by : {"rest", "held", "loop"}]]
        /\ stopped \in [Axes -> 0..MaxCommands]
    BY ProducersAssumption DEF Init, All
  <2>5. QED
    BY <2>1, <2>2, <2>3, <2>4 DEF Types
<1>4. CallOK /\ StopOK /\ TasksOK
    BY DEF Init, CallOK, StopOK, TasksOK
<1>5. LoopsOK
    BY <1>1, NoneFields DEF LoopsOK
<1>6. InOrder
    BY <1>1, <1>2, NoneFields DEF Init, InOrder, Numbered
<1>7. Fences
    BY <1>1, NoneFields DEF Init, Fences, PositionCancelled, SineCancelled
<1>8. Exclusive /\ CurrentRules /\ OwnerRules
    BY <1>1, NoneFields DEF Init, Exclusive, CurrentRules, OwnerRules, LoopOps
<1>9. QED
    BY <1>3, <1>4, <1>5, <1>6, <1>7, <1>8 DEF RuleInd

LEMMA RulesStep == RuleInd /\ [Next]_vars => RuleInd'
<1> SUFFICES ASSUME RuleInd, [Next]_vars PROVE RuleInd'
    OBVIOUS
<1>1. CASE \E A \in AxisSets : Accept("goto", A) \/ Accept("velocity", A)
    BY <1>1, AcceptRules
<1>2. CASE \E a \in Axes : Accept("sine", {a}) \/ Accept("stopSine", {a})
  <2>1. \A a \in Axes : {a} \in AxisSets
    BY DEF AxisSets
  <2>2. QED
    BY <1>2, <2>1, AcceptRules
<1>3. CASE AcceptStop("stop", Axes)
  <2>1. Axes # {}
    BY ProducersAssumption
  <2>2. QED
    BY <1>3, <2>1, AcceptStopRules
<1>4. CASE \E A \in AxisSets : AcceptStop("velocity", A)
    BY <1>4, AcceptStopRules DEF AxisSets
<1>5. CASE StopStep
    BY <1>5, RequestRules, EnterStopRules DEF StopStep
<1>6. CASE CallStep
  <2>1. CASE Refuse \/ SkipWrite \/ FinishWrite
    <3>1. /\ Return /\ call # NoCall /\ (call.step # "wait" \/ ~Pending(call.kind, call.n))
          /\ UNCHANGED <<loopVars, ownerVars, acceptVars, stop>>
        BY <2>1, NoneFields DEF Refuse, SkipWrite, FinishWrite, Answered
    <3>2. QED
        BY <3>1, ReturnRules
  <2>2. CASE SubmitStop \/ SubmitVelocity \/ SubmitMove \/ SubmitSine \/ SubmitSineStop
    BY <2>2, SubmitEffect, SubmitRules
  <2>3. QED
    BY <1>6, <2>1, <2>2, CancelPositionRules, CancelSineRules, LaunchMoveRules, LaunchSineRules
    DEF CallStep
<1>7. ASSUME NEW n \in Commands, NEW values \in [loops[n].axes -> Velocities],
             PublishPosition(n, values) \/ PublishSine(n, values)
      PROVE  RuleInd'
    BY <1>7, PublishRoundRules
<1>8. ASSUME NEW n \in Commands, LeavePosition(n) \/ LeaveSine(n) \/ EndLoop(n)
      PROVE  RuleInd'
    BY <1>8, LeaveRules, EndRules
<1>9. CASE OwnerStep
    BY <1>9, TakeRules, ExecuteRules, RefuseTaskRules DEF OwnerStep
<1>10. ASSUME NEW a \in Axes, StopAtLimit(a) PROVE RuleInd'
  <2>1. setpoint' \in [Axes -> Velocities]
    BY <1>10 DEF StopAtLimit, RuleInd, Types, Velocities
  <2>2. QED
    BY <1>10, <2>1, LimitRules DEF StopAtLimit, acceptVars
<1>11. CASE UNCHANGED vars
    BY <1>11, LimitRules DEF vars, ownerVars, acceptVars, RuleInd, Types
<1>12. QED
    BY <1>1, <1>2, <1>3, <1>4, <1>5, <1>6, <1>7, <1>8, <1>9, <1>10, <1>11 DEF Next, Exhausted

\* The types of the producers, who may still write what, and which calls and loops were
\* cancelled by whom.
LEMMA RulesHold == Spec => []RuleInd
<1>1. QED
    BY RulesInit, RulesStep, PTL DEF Spec
-----------------------------------------------------------------------------
(* Only the newest command is obeyed *)

LEMMA TypesOfRules == RuleInd => TypeOK
<1> SUFFICES ASSUME RuleInd PROVE TypeOK
    OBVIOUS
<1>1. Types
    BY DEF RuleInd
<1>2. \A i \in DOMAIN mailbox : mailbox[i] \in Tasks
    BY <1>1 DEF Types
<1>3. \A n \in Commands : Running(n) => Launched(n)
    BY NoneFields DEF RuleInd, LoopsOK, Running
<1>4. \A m, n \in Commands :
          m # n /\ Running(m) /\ Running(n) /\ IsCurrent(m) /\ IsCurrent(n)
              => loops[m].axes \cap loops[n].axes = {}
    BY <1>3 DEF RuleInd, Exclusive
<1>5. QED
    BY <1>1, <1>2, <1>4 DEF Types, TypeOK

LEMMA OnlyOwnerWrites == [Next]_vars => source' = source \/ ExecuteTask
<1> SUFFICES ASSUME [Next]_vars, ~ExecuteTask PROVE source' = source
    OBVIOUS
<1>1. CASE UNCHANGED vars
    BY <1>1 DEF vars, ownerVars
<1>2. CASE StopStep
    BY <1>2 DEF StopStep, RequestPositionStop, RequestSineStop, EnterStop, ownerVars
<1>3. CASE CallStep
  <2>1. CASE SubmitStop \/ SubmitVelocity \/ SubmitMove \/ SubmitSine \/ SubmitSineStop
    BY <2>1 DEF SubmitStop, SubmitVelocity, SubmitMove, SubmitSine, SubmitSineStop, Submit
  <2>2. QED
    BY <1>3, <2>1 DEF CallStep, CancelPosition, CancelSine, Refuse, SkipWrite, FinishWrite,
                      LaunchMove, LaunchSine, ownerVars
<1>4. CASE OwnerStep
    BY <1>4 DEF OwnerStep, TakeTask, RefuseTask
<1>5. ASSUME NEW n \in Commands, NEW values,
             PublishPosition(n, values) \/ PublishSine(n, values)
      PROVE  source' = source
    BY <1>5 DEF PublishPosition, PublishSine, PublishRound
<1>6. ASSUME NEW n \in Commands, LeavePosition(n) \/ LeaveSine(n) \/ EndLoop(n)
      PROVE  source' = source
    BY <1>6 DEF LeavePosition, LeaveSine, LeaveLoop, EndLoop, ownerVars
<1>7. ASSUME NEW kind, NEW A, Accept(kind, A) \/ AcceptStop(kind, A)
      PROVE  source' = source
    BY <1>7 DEF Accept, AcceptStop, ownerVars
<1>8. ASSUME NEW a \in Axes, StopAtLimit(a) PROVE source' = source
    BY <1>8 DEF StopAtLimit
<1>9. QED
    BY <1>1, <1>2, <1>3, <1>4, <1>5, <1>6, <1>7, <1>8 DEF Next, Exhausted

\* Once the write of a command has taken an axis over, no loop and no call of an earlier
\* command writes that axis again, however long their setpoints were queued and whether
\* or not their threads were waited for (_software_position_loop, _sine_velocity_loop and
\* HardwareIOQueue.publish_latest).
THEOREM NewestRules == Spec => NewestCommandRules
<1>1. RuleInd /\ [Next]_vars => [\A a \in Axes : source'[a].n >= source[a].n]_vars
  <2> SUFFICES ASSUME RuleInd, [Next]_vars, NEW a \in Axes PROVE source'[a].n >= source[a].n
    OBVIOUS
  <2>1. source[a].n \in Int
    BY ProducersAssumption DEF RuleInd, Types
  <2>2. CASE source' = source
    BY <2>1, <2>2
  <2>3. CASE ExecuteTask
    <3>1. \/ source'[a] = source[a]
          \/ /\ a \in DOMAIN owner.values /\ owner.op # "stopSine"
             /\ source'[a].n = owner.n
        BY <2>3, ExecuteEffect
    <3>2. owner.n \in Int
        BY <2>3, ExecuteEffect, ProducersAssumption DEF Commands
    <3>3. QED
        BY <2>1, <2>3, <3>1, <3>2, ExecuteEffect
  <2>4. QED
    BY <2>2, <2>3, OnlyOwnerWrites
<1>2. QED
    BY <1>1, RulesHold, PTL DEF Spec, NewestCommandRules
-----------------------------------------------------------------------------
(* A stopped axis stays: the order of the queue *)

\* What was in the queue keeps its order: f[i] is where the task at place i was.
QueueOrder(t, e, f) ==
    /\ e \in DOMAIN mailbox' /\ mailbox'[e] = t
    /\ LastIn(t) => \A i \in DOMAIN mailbox' : i <= e
    /\ f \in [DOMAIN mailbox' \ {e} -> DOMAIN mailbox]
    /\ \A i \in DOMAIN mailbox' \ {e} :
          /\ mailbox'[i] = mailbox[f[i]]
          /\ \A j \in DOMAIN mailbox : j > f[i] /\ mailbox[j].op # "loop" =>
                \E h \in DOMAIN mailbox' : h > i /\ mailbox'[h] = mailbox[j]
    /\ \A i, j \in DOMAIN mailbox' \ {e} : f[i] = f[j] => i = j

LEMMA OrderKept ==
    ASSUME mailbox \in Seq(Tasks), mailbox' \in Seq(Tasks), NEW t, LastIn(t) \/ FirstIn(t)
    PROVE  \E e, f : QueueOrder(t, e, f)
<1>1. /\ DOMAIN mailbox = 1..Len(mailbox) /\ DOMAIN mailbox' = 1..Len(mailbox')
      /\ Len(mailbox) \in Nat /\ Len(mailbox') \in Nat
    OBVIOUS
<1>2. CASE LastIn(t)
  <2>1. PICK p \in 1..Len(mailbox) + 1 :
            /\ p <= Len(mailbox) => mailbox[p].op = "loop"
            /\ Len(mailbox') = IF p <= Len(mailbox) THEN Len(mailbox) ELSE Len(mailbox) + 1
            /\ mailbox'[Len(mailbox')] = t
            /\ \A i \in 1..Len(mailbox') - 1 : mailbox'[i] = mailbox[IF i < p THEN i ELSE i + 1]
    BY <1>2 DEF LastIn
  <2> DEFINE e == Len(mailbox')
             f == [i \in DOMAIN mailbox' \ {e} |-> IF i < p THEN i ELSE i + 1]
  <2>2. e \in DOMAIN mailbox' /\ mailbox'[e] = t /\ \A i \in DOMAIN mailbox' : i <= e
    BY <1>1, <2>1
  <2>3. \A i \in DOMAIN mailbox' \ {e} : i \in 1..Len(mailbox') - 1 /\ f[i] = IF i < p THEN i ELSE i + 1
    BY <1>1, <2>1
  <2>4. \A i \in DOMAIN mailbox' \ {e} : f[i] \in DOMAIN mailbox /\ mailbox'[i] = mailbox[f[i]]
    BY <1>1, <2>1, <2>3
  <2>5. f \in [DOMAIN mailbox' \ {e} -> DOMAIN mailbox]
    BY <2>4
  <2> HIDE DEF f
  <2>6. \A i, j \in DOMAIN mailbox' \ {e} : f[i] = f[j] => i = j
    BY <1>1, <2>1, <2>3
  <2>7. ASSUME NEW i \in DOMAIN mailbox' \ {e}, NEW j \in DOMAIN mailbox, j > f[i], mailbox[j].op # "loop"
        PROVE  \E h \in DOMAIN mailbox' : h > i /\ mailbox'[h] = mailbox[j]
    <3>1. j # p
        BY <1>1, <2>1, <2>7
    <3>2. CASE j < p
      <4>1. j \in 1..Len(mailbox') - 1 /\ j > i
        BY <1>1, <2>1, <2>3, <2>7, <3>2
      <4>2. QED
        BY <1>1, <2>1, <3>2, <4>1
    <3>3. CASE j > p
      <4>1. j - 1 \in 1..Len(mailbox') - 1 /\ j - 1 > i /\ ~(j - 1 < p) /\ (j - 1) + 1 = j
        BY <1>1, <2>1, <2>3, <2>7, <3>3
      <4>2. mailbox'[j - 1] = mailbox[j]
        BY <2>1, <4>1
      <4>3. QED
        BY <1>1, <4>1, <4>2
    <3>4. QED
        BY <1>1, <2>1, <3>1, <3>2, <3>3
  <2>8. QueueOrder(t, e, f)
    BY <2>2, <2>4, <2>5, <2>6, <2>7 DEF QueueOrder
  <2>9. QED
    BY <2>8
<1>3. CASE FirstIn(t) /\ ~LastIn(t)
  <2> DEFINE f == [i \in DOMAIN mailbox' \ {1} |-> i - 1]
  <2>1. Len(mailbox') = Len(mailbox) + 1 /\ mailbox'[1] = t
        /\ \A i \in 2..Len(mailbox) + 1 : mailbox'[i] = mailbox[i - 1]
    BY <1>3 DEF FirstIn
  <2>2. \A i \in DOMAIN mailbox' \ {1} :
            i \in 2..Len(mailbox) + 1 /\ f[i] = i - 1 /\ f[i] \in DOMAIN mailbox
    BY <1>1, <2>1
  <2>3. f \in [DOMAIN mailbox' \ {1} -> DOMAIN mailbox]
    BY <2>2
  <2> HIDE DEF f
  <2>4. \A i \in DOMAIN mailbox' \ {1} : mailbox'[i] = mailbox[f[i]]
    BY <2>1, <2>2
  <2>5. \A i, j \in DOMAIN mailbox' \ {1} : f[i] = f[j] => i = j
    BY <2>2
  <2>6. ASSUME NEW i \in DOMAIN mailbox' \ {1}, NEW j \in DOMAIN mailbox, j > f[i]
        PROVE  \E h \in DOMAIN mailbox' : h > i /\ mailbox'[h] = mailbox[j]
    <3>1. j + 1 \in 2..Len(mailbox) + 1 /\ j + 1 \in DOMAIN mailbox' /\ j + 1 > i /\ (j + 1) - 1 = j
        BY <1>1, <2>1, <2>2, <2>6
    <3>2. mailbox'[j + 1] = mailbox[j]
        BY <2>1, <3>1
    <3>3. QED
        BY <3>1, <3>2
  <2>7. 1 \in DOMAIN mailbox'
    BY <1>1, <2>1
  <2>8. QueueOrder(t, 1, f)
    BY <1>3, <2>1, <2>3, <2>4, <2>5, <2>6, <2>7 DEF QueueOrder
  <2>9. QED
    BY <2>8
<1>4. QED
    BY <1>2, <1>3

\* The queue takes a task: no other one gets lost but a dead round, nor out of order.
LEMMA QueueInd ==
    ASSUME RuleInd, OneCallTask, LoopsOutlive, LastTask, mailbox' \in Seq(Tasks),
           NEW t \in Tasks, LastIn(t) \/ FirstIn(t), TaskOfLoop(t)',
           t.op = "loop" => loops'[t.n].pc # "stopping",
           t.op \in CallOps => owner.op \notin CallOps /\ \A i \in DOMAIN mailbox : mailbox[i].op \notin CallOps,
           UNCHANGED owner, SameLoops,
           \A n \in Commands : \/ loops'[n].pc = loops[n].pc
                               \/ /\ loops[n].pc = "run" /\ loops'[n].pc = "stopping"
                                  /\ t.op = "loopStop" /\ t.n = n /\ LastIn(t)
    PROVE  OneCallTask' /\ LoopsOutlive' /\ LastTask'
<1>1. PICK e, f : QueueOrder(t, e, f)
    BY OrderKept DEF RuleInd, Types
<1>2. /\ e \in DOMAIN mailbox' /\ mailbox'[e] = t
      /\ \A i \in DOMAIN mailbox' \ {e} : f[i] \in DOMAIN mailbox /\ mailbox'[i] = mailbox[f[i]]
      /\ DOMAIN mailbox' \subseteq Int
    BY <1>1 DEF QueueOrder
<1>3. OneCallTask'
    BY <1>1, <1>2 DEF OneCallTask, QueueOrder
<1>4. \A i \in DOMAIN mailbox : mailbox[i].op \in LoopOps => mailbox[i].n \in Commands
    BY DEF RuleInd, TasksOK, TaskOK, LoopOps, CallOps
<1>5. owner.op \in LoopOps => owner.n \in Commands
    BY NoneFields DEF RuleInd, TasksOK, TaskOK, LoopOps, CallOps
<1>6. LoopsOutlive'
  <2>1. ASSUME NEW u, TaskOfLoop(u), u.op \in LoopOps => u.n \in Commands PROVE TaskOfLoop(u)'
    BY <2>1 DEF TaskOfLoop, Running, LoopOps
  <2>2. \A i \in DOMAIN mailbox : \A u : u = mailbox[i] => TaskOfLoop(u)'
    BY <1>4, <2>1 DEF LoopsOutlive
  <2>3. \A u : u = t => TaskOfLoop(u)'
    BY DEF TaskOfLoop, Running
  <2>4. \A i \in DOMAIN mailbox' : \A u : u = mailbox'[i] => TaskOfLoop(u)'
    BY <1>2, <2>2, <2>3
  <2>5. \A u : u = owner => TaskOfLoop(u)'
    BY <1>5, <2>1 DEF LoopsOutlive
  <2>6. QED
    BY <2>4, <2>5 DEF LoopsOutlive, TaskOfLoop, Running
<1>7. LastTask'
  <2>1. ASSUME NEW i \in DOMAIN mailbox', mailbox'[i].op = "loop", loops'[mailbox'[i].n].pc = "stopping"
        PROVE  \E j \in DOMAIN mailbox' : j > i /\ mailbox'[j].op = "loopStop" /\ mailbox'[j].n = mailbox'[i].n
    <3>1. i # e /\ mailbox'[i] = mailbox[f[i]] /\ f[i] \in DOMAIN mailbox /\ mailbox'[i].n \in Commands
        BY <1>2, <1>4, <2>1 DEF LoopOps
    <3>2. CASE loops[mailbox'[i].n].pc = "stopping"
      <4>1. PICK j \in DOMAIN mailbox : j > f[i] /\ mailbox[j].op = "loopStop" /\ mailbox[j].n = mailbox'[i].n
        BY <2>1, <3>1, <3>2 DEF LastTask
      <4>2. PICK h \in DOMAIN mailbox' : h > i /\ mailbox'[h] = mailbox[j]
        BY <1>1, <3>1, <4>1 DEF QueueOrder
      <4>3. QED
        BY <4>1, <4>2
    <3>3. CASE loops[mailbox'[i].n].pc # "stopping"
      <4>1. t.op = "loopStop" /\ t.n = mailbox'[i].n /\ LastIn(t)
        BY <2>1, <3>1, <3>3
      <4>2. i < e
        BY <1>1, <1>2, <3>1, <4>1 DEF QueueOrder
      <4>3. QED
        BY <1>2, <4>1, <4>2
    <3>4. QED
        BY <3>2, <3>3
  <2>2. ASSUME owner.op = "loop", loops'[owner.n].pc = "stopping"
        PROVE  \E j \in DOMAIN mailbox' : mailbox'[j].op = "loopStop" /\ mailbox'[j].n = owner.n
    <3>1. CASE loops[owner.n].pc = "stopping"
      <4>1. PICK j \in DOMAIN mailbox : mailbox[j].op = "loopStop" /\ mailbox[j].n = owner.n
        BY <2>2, <3>1 DEF LastTask
      <4>2. \E h \in DOMAIN mailbox' : mailbox'[h] = mailbox[j]
        BY <4>1, QueueKept DEF RuleInd, Types
      <4>3. QED
        BY <4>1, <4>2
    <3>2. CASE loops[owner.n].pc # "stopping"
        BY <1>2, <1>5, <2>2, <3>2 DEF LoopOps
    <3>3. QED
        BY <3>1, <3>2
  <2>3. QED
    BY <2>1, <2>2 DEF LastTask
<1>8. QED
    BY <1>3, <1>6, <1>7
-----------------------------------------------------------------------------
(* A stopped axis stays: the calls *)

\* The loop that is waited for is the only one that runs.
LEMMA JoinedLoops ==
    ASSUME RuleInd, OneRuns, ~slow, NEW n \in Commands
    PROVE  /\ PositionJoined /\ loops[n].kind = "position" => ~Running(n)
           /\ \A A \in SUBSET Axes : SineJoined(A) /\ loops[n].kind = "sine" /\ loops[n].axes \cap A # {}
                 => ~Running(n)
<1>1. CASE loops[n].kind = "position" /\ Running(n)
  <2>1. loops[n].axes # {} /\ loops[n].axes \subseteq Axes /\ Launched(n)
    BY <1>1 DEF RuleInd, LoopsOK, Types, Launched
  <2>2. \A m \in Commands : m > n => loops[m].kind # "position"
    BY <1>1, <2>1 DEF OneRuns, Commands
  <2>3. Latest(n, "position", Axes)
    BY <1>1, <2>1, <2>2 DEF Latest
  <2>4. QED
    BY <1>1, <2>3 DEF PositionJoined
<1>2. ASSUME NEW A \in SUBSET Axes, loops[n].kind = "sine", Running(n), loops[n].axes \cap A # {}
      PROVE  ~SineJoined(A)
  <2>1. PICK a \in Axes : loops[n].axes = {a}
    BY <1>2 DEF RuleInd, LoopsOK
  <2>2. a \in A /\ Launched(n)
    BY <1>2, <2>1 DEF Launched
  <2>3. \A m \in Commands : m > n => loops[m].kind # "sine" \/ loops[m].axes \cap {a} = {}
    BY <1>2, <2>1, <2>2 DEF OneRuns, Commands
  <2>4. Latest(n, "sine", {a})
    BY <1>2, <2>1, <2>3 DEF Latest
  <2>5. QED
    BY <1>2, <2>2, <2>4 DEF SineJoined
<1>3. QED
    BY <1>1, <1>2

\* A step that writes nothing and hands nothing over, of a call that does not wait.
LEMMA QuietStop ==
    ASSUME RuleInd, StopInd, GensGrow,
           UNCHANGED <<loops, mailbox, owner, setpoint, cached, source, slow, stopped>>,
           call'.step # "wait" \/ UNCHANGED call,
           ~slow => Joins'
    PROVE  StopInd'
<1>1. SameLoops
    BY DEF SameLoops
<1>2. \A n \in Commands : Launched(n) /\ IsCurrent(n)' => IsCurrent(n)
    BY <1>1, Outdated DEF RuleInd
<1>3. CacheOK' /\ OneCallTask' /\ LoopsOutlive' /\ LastTask'
    BY DEF StopInd, CacheOK, OneCallTask, LoopsOutlive, TaskOfLoop, LastTask, Running
<1>4. StopFence'
    BY <1>2, NoneFields DEF StopInd, StopFence, RuleInd, LoopsOK
<1>5. ~slow => OneRuns' /\ OwnerFence' /\ StoppedAxisStays'
    BY DEF StopInd, OneRuns, OwnerFence, StoppedAxisStays, Launched, Running
<1>6. ~slow => Halted'
    BY DEF StopInd, Halted, Waiting, Pending
<1>7. QED
    BY <1>3, <1>4, <1>5, <1>6 DEF StopInd

LEMMA AcceptStopped ==
    ASSUME RuleInd, StopInd, NEW kind \in {"goto", "velocity", "sine", "stopSine"}, NEW A,
           Accept(kind, A)
    PROVE  StopInd'
<1>1. /\ UNCHANGED <<loops, positionGen, sineGen, setpoint, cached, mailbox, owner, source, slow, stopped>>
      /\ call'.kind = kind /\ call'.step = (IF kind \in {"goto", "stopSine"} THEN "sine" ELSE "position")
    BY DEF Accept, loopVars, ownerVars
<1>2. GensGrow
    BY <1>1 DEF GensGrow, RuleInd, Types
<1>3. Joins'
    BY <1>1 DEF Joins, PositionAwaited, SineAwaited, Waiting
<1>4. QED
    BY <1>1, <1>2, <1>3, QuietStop

LEMMA StopStepStopped ==
    ASSUME RuleInd, StopInd,
           StopStep \/ \E kind, A : AcceptStop(kind, A)
    PROVE  StopInd'
<1>1. CASE RequestPositionStop \/ RequestSineStop \/ \E kind, A : AcceptStop(kind, A)
  <2>1. UNCHANGED <<loops, setpoint, cached, mailbox, owner, source, slow, stopped, call>>
    BY <1>1 DEF RequestPositionStop, RequestSineStop, AcceptStop, loopVars, ownerVars, acceptVars
  <2>2. GensGrow
    BY <1>1 DEF GensGrow, RuleInd, Types, RequestPositionStop, RequestSineStop, AcceptStop, loopVars
  <2>3. ~slow => Joins'
    BY <2>1 DEF StopInd, Joins, PositionAwaited, SineAwaited, Waiting, Running
  <2>4. QED
    BY <2>1, <2>2, <2>3, QuietStop
<1>2. CASE EnterStop
  <2>1. /\ UNCHANGED <<loops, positionGen, sineGen, setpoint, cached, mailbox, owner, source, slow, stopped>>
        /\ stop.step = "ready"
    BY <1>2 DEF EnterStop, loopVars, ownerVars, acceptVars
  <2>2. /\ call'.kind = stop.kind /\ call'.step = IF stop.kind = "stop" THEN "write" ELSE "position"
        /\ stop.kind \in {"velocity", "stop"}
    BY <1>2, <2>1, NoneFields DEF EnterStop, RuleInd, StopOK, Types, Calls
  <2>3. GensGrow
    BY <2>1 DEF GensGrow, RuleInd, Types
  <2>4. Joins'
    BY <2>2 DEF Joins, PositionAwaited, SineAwaited, Waiting
  <2>5. QED
    BY <2>1, <2>2, <2>3, <2>4, QuietStop
<1>3. QED
    BY <1>1, <1>2 DEF StopStep

LEMMA CancelStopped ==
    ASSUME RuleInd, StopInd, CancelPosition \/ CancelSine
    PROVE  StopInd'
<1>1. /\ UNCHANGED <<loops, setpoint, cached, mailbox, owner, source, slow, stopped>>
      /\ call'.kind = call.kind /\ call'.axes = call.axes /\ call'.step # "wait"
    BY DEF CancelPosition, CancelSine, Step, ownerVars, acceptVars, RuleInd, Types, Calls
<1>2. GensGrow
  <2>1. positionGen \in Nat /\ sineGen \in [Axes -> Nat]
    BY DEF RuleInd, Types
  <2>2. CASE CancelPosition
    BY <2>1, <2>2 DEF CancelPosition, GensGrow
  <2>3. CASE CancelSine
    BY <2>1, <2>3 DEF CancelSine, GensGrow
  <2>4. QED
    BY <2>2, <2>3
<1>3. call.axes \in SUBSET Axes
    BY DEF RuleInd, Types, Calls
<1>4. ASSUME ~slow PROVE Joins'
  <2>1. OneRuns /\ \A n : Running(n)' <=> Running(n)
    BY <1>1, <1>4 DEF StopInd, Running
  <2>2. CASE CancelPosition
    <3>1. ~PositionAwaited'
        BY <1>1, <2>2 DEF CancelPosition, PositionAwaited, Waiting, RuleInd, Types, Calls
    <3>2. SineAwaited' => call.kind = "goto" /\ SineJoined(call.axes)
        BY <1>1, <2>2 DEF CancelPosition, SineAwaited, Waiting
    <3>3. QED
        BY <1>1, <1>3, <1>4, <2>1, <3>1, <3>2, JoinedLoops DEF Joins
  <2>3. CASE CancelSine
    <3>1. ~SineAwaited'
        BY <1>1, <2>3 DEF CancelSine, Step, SineAwaited, Waiting, RuleInd, Types, Calls
    <3>2. PositionAwaited' => PositionJoined
        BY <1>1, <2>3 DEF CancelSine, PositionAwaited, Waiting
    <3>3. QED
        BY <1>1, <1>4, <2>1, <3>1, <3>2, JoinedLoops DEF Joins
  <2>4. QED
    BY <2>2, <2>3
<1>5. QED
    BY <1>1, <1>2, <1>4, QuietStop

LEMMA SubmitStopped ==
    ASSUME RuleInd, StopInd,
           SubmitStop \/ SubmitVelocity \/ SubmitMove \/ SubmitSine \/ SubmitSineStop
    PROVE  StopInd'
<1>1. /\ call.step = "write" /\ Joined /\ mailbox' \in Seq(Tasks)
      /\ UNCHANGED <<loops, positionGen, sineGen, setpoint, cached, owner, source, slow, stopped>>
    BY SubmitEffect DEF loopVars, acceptVars
<1>2. PICK t \in Tasks : (LastIn(t) \/ FirstIn(t)) /\ t.op = call.kind /\ t.op \in CallOps /\ t.n = call.n
    BY SubmitEffect
<1>3. /\ call'.kind = call.kind /\ call'.axes = call.axes /\ call'.n = call.n /\ call'.step = "wait"
    BY SubmitEffect DEF Step, RuleInd, Types, Calls
<1>4. SameLoops /\ GensGrow
    BY <1>1 DEF SameLoops, GensGrow, RuleInd, Types
<1>5. OneCallTask' /\ LoopsOutlive' /\ LastTask'
  <2>1. owner.op \notin CallOps /\ \A i \in DOMAIN mailbox : mailbox[i].op \notin CallOps
    BY <1>1, OnlyLoopTasks, NoneFields DEF RuleInd, CallOps, LoopOps
  <2>2. TaskOfLoop(t)' /\ t.op # "loop"
    BY <1>2 DEF TaskOfLoop, CallOps
  <2>3. QED
    BY <1>1, <1>2, <1>4, <2>1, <2>2, QueueInd DEF StopInd
<1>6. CacheOK' /\ StopFence'
    BY <1>1 DEF StopInd, CacheOK, StopFence, IsCurrent
<1>7. ASSUME ~slow PROVE OneRuns' /\ OwnerFence' /\ StoppedAxisStays' /\ Joins' /\ Halted'
  <2>1. OneRuns' /\ OwnerFence' /\ StoppedAxisStays'
    BY <1>1, <1>7 DEF StopInd, OneRuns, OwnerFence, StoppedAxisStays, Launched, Running
  <2>2. Halted'
    <3>1. \E i \in DOMAIN mailbox' : mailbox'[i] = t
        BY <1>1, <1>2, QueueKept DEF RuleInd, Types
    <3>2. \A kind : call.kind = kind => Pending(kind, call.n)'
        BY <1>2, <1>3, <3>1 DEF Pending
    <3>3. QED
        BY <1>3, <3>2 DEF Halted, Waiting
  <2>3. Joins'
    <3>1. PositionAwaited' => PositionAwaited \/ PositionJoined
        BY <1>1, <1>3 DEF Joined, PositionAwaited, Waiting
    <3>2. SineAwaited' => SineAwaited \/ SineJoined(call.axes)
        BY <1>1, <1>3 DEF Joined, SineAwaited, Waiting
    <3>3. \A n : Running(n)' <=> Running(n)
        BY <1>1 DEF Running
    <3>4. call.axes \in SUBSET Axes
        BY DEF RuleInd, Types, Calls
    <3>5. QED
        BY <1>1, <1>3, <1>7, <3>1, <3>2, <3>3, <3>4, JoinedLoops DEF StopInd, Joins
  <2>4. QED
    BY <2>1, <2>2, <2>3
<1>8. QED
    BY <1>1, <1>5, <1>6, <1>7 DEF StopInd

\* A call returns; when it has stopped its axes, they stand still and no loop that drives
\* one of them may write any more.
LEMMA ReturnStopped ==
    ASSUME RuleInd, StopInd, call # NoCall, Return,
           UNCHANGED <<loopVars, ownerVars, acceptVars, stop>>,
           Halts => /\ \A n \in Commands : Launched(n) /\ loops[n].axes \cap call.axes # {} => ~IsCurrent(n)
                    /\ ~slow => /\ \A a \in call.axes : setpoint[a] = 0
                                /\ owner.op \in LoopOps => loops[owner.n].axes \cap call.axes = {}
    PROVE  StopInd'
<1>1. /\ call' = NoCall
      /\ stopped' = [a \in Axes |-> IF Halts /\ a \in call.axes THEN call.n ELSE stopped[a]]
      /\ UNCHANGED <<loops, positionGen, sineGen, setpoint, cached, mailbox, owner, source, slow>>
    BY DEF Return, loopVars, ownerVars, acceptVars
<1>2. CacheOK' /\ OneCallTask' /\ LoopsOutlive' /\ LastTask'
    BY <1>1 DEF StopInd, CacheOK, OneCallTask, LoopsOutlive, TaskOfLoop, LastTask, Running
<1>3. \A n \in Commands : loops[n].axes \subseteq Axes /\ (loops[n].axes # {} => Launched(n))
    BY NoneFields DEF RuleInd, Types, LoopsOK
<1>4. StopFence'
  <2>1. SUFFICES ASSUME NEW n \in Commands, NEW a \in loops[n].axes, n <= stopped'[a] PROVE ~IsCurrent(n)
    BY <1>1 DEF StopFence, IsCurrent
  <2>2. CASE Halts /\ a \in call.axes
    BY <1>3, <2>1, <2>2
  <2>3. CASE ~(Halts /\ a \in call.axes)
    BY <1>1, <1>3, <2>1, <2>3 DEF StopInd, StopFence
  <2>4. QED
    BY <2>2, <2>3
<1>5. ASSUME ~slow PROVE OneRuns' /\ Joins' /\ OwnerFence' /\ Halted' /\ StoppedAxisStays'
  <2>1. OneRuns' /\ Joins' /\ Halted'
    BY <1>1, <1>5, NoneFields
    DEF StopInd, OneRuns, Joins, PositionAwaited, SineAwaited, Halted, Waiting, Launched, Running
  <2>2. OwnerFence'
    <3>1. SUFFICES ASSUME owner.op \in LoopOps, NEW a \in loops[owner.n].axes PROVE owner.n > stopped'[a]
        BY <1>1 DEF OwnerFence
    <3>2. owner.n \in Commands /\ a \in Axes
        BY <1>3, <3>1, NoneFields DEF RuleInd, TasksOK, TaskOK, LoopOps, CallOps
    <3>3. ~(Halts /\ a \in call.axes)
        BY <1>5, <3>1
    <3>4. QED
        BY <1>1, <1>5, <3>1, <3>2, <3>3 DEF StopInd, OwnerFence
  <2>3. StoppedAxisStays'
    BY <1>1, <1>5 DEF StopInd, StoppedAxisStays
  <2>4. QED
    BY <2>1, <2>2, <2>3
<1>6. QED
    BY <1>1, <1>2, <1>4, <1>5 DEF StopInd

\* What a call that ends has seen to.
LEMMA ReturnsStopped ==
    ASSUME RuleInd, StopInd, Refuse \/ SkipWrite \/ FinishWrite
    PROVE  StopInd'
<1>1. call # NoCall /\ Return /\ UNCHANGED <<loopVars, ownerVars, acceptVars, stop>>
    BY NoneFields DEF Refuse, SkipWrite, FinishWrite, Answered
<1>2. ASSUME Halts, call.kind = "velocity"
      PROVE  /\ \A n \in Commands : Launched(n) /\ loops[n].axes \cap call.axes # {} => ~IsCurrent(n)
             /\ ~slow => /\ \A a \in call.axes : setpoint[a] = 0
                         /\ owner.op \in LoopOps => loops[owner.n].axes \cap call.axes = {}
  <2>1. call.velocity = 0 /\ call.step \in {"write", "wait"}
    BY <1>2 DEF Halts, Refuse, SkipWrite, FinishWrite, Answered
  <2>2. PositionCancelled /\ SineCancelled
    BY <1>2, <2>1 DEF PositionCancelled, SineCancelled
  <2>3. ASSUME NEW n \in Commands, Launched(n), loops[n].axes \cap call.axes # {} PROVE ~IsCurrent(n)
    <3>1. /\ loops[n].kind = "position" \/ loops[n].kind = "sine"
          /\ loops[n].gen \in Nat /\ positionGen \in Nat
        BY <2>3 DEF RuleInd, Types, Launched
    <3>2. CASE loops[n].kind = "position"
        BY <2>2, <3>1, <3>2 DEF RuleInd, Fences, IsCurrent
    <3>3. CASE loops[n].kind = "sine"
        BY <2>2, <2>3, <3>3 DEF RuleInd, Fences
    <3>4. QED
        BY <3>1, <3>2, <3>3
  <2>4. ASSUME ~slow PROVE \A a \in call.axes : setpoint[a] = 0
    <3>1. call.axes \subseteq Axes
        BY DEF RuleInd, Types, Calls
    <3>2. CASE SkipWrite
        BY <2>1, <3>1, <3>2 DEF SkipWrite, StopInd, CacheOK
    <3>3. CASE FinishWrite
        BY <1>2, <2>1, <2>4, <3>3 DEF FinishWrite, Answered, StopInd, Halted, Waiting
    <3>4. QED
        BY <2>1, <3>2, <3>3 DEF Refuse
  <2>5. ASSUME ~slow, owner.op \in LoopOps PROVE loops[owner.n].axes \cap call.axes = {}
    <3>1. owner.n \in Commands /\ Running(owner.n) /\ Launched(owner.n)
        BY <2>5, NoneFields DEF RuleInd, TasksOK, TaskOK, LoopOps, CallOps, StopInd, LoopsOutlive, TaskOfLoop, Running
    <3>2. loops[owner.n].kind \in {"position", "sine"}
        BY <3>1 DEF RuleInd, Types, Launched
    <3>3. PositionAwaited
        BY <1>2, <2>1 DEF PositionAwaited
    <3>4. SineAwaited \/ SineJoined(call.axes)
        BY <1>2, <2>1 DEF SineAwaited, Waiting, Refuse, SkipWrite, FinishWrite, Answered, Joined
    <3>5. call.axes \in SUBSET Axes /\ OneRuns /\ Joins
        BY <2>5 DEF RuleInd, Types, Calls, StopInd
    <3>6. loops[owner.n].kind # "position"
        BY <3>1, <3>3, <3>5 DEF Joins
    <3>7. QED
        BY <2>5, <3>1, <3>2, <3>4, <3>5, <3>6, JoinedLoops DEF Joins
  <2>6. QED
    BY <2>3, <2>4, <2>5
<1>3. ASSUME Halts, call.kind # "velocity"
      PROVE  /\ \A n \in Commands : Launched(n) /\ loops[n].axes \cap call.axes # {} => ~IsCurrent(n)
             /\ ~slow => /\ \A a \in call.axes : setpoint[a] = 0
                         /\ owner.op \in LoopOps => loops[owner.n].axes \cap call.axes = {}
  <2>1. call.kind = "stop" /\ call.axes = Axes
    BY <1>1, <1>3 DEF Halts, RuleInd, CallOK
  <2>2. FinishWrite
    BY <1>3, <2>1 DEF Halts, Refuse, SkipWrite
  <2>3. Waiting("stop") /\ ~Pending("stop", call.n)
    BY <2>1, <2>2 DEF FinishWrite, Answered, Waiting
  <2>4. \A n \in Commands : Launched(n) => ~IsCurrent(n)
    BY <2>3 DEF RuleInd, Fences, StopTaken
  <2>5. ~slow => owner.op \notin LoopOps /\ \A a \in Axes : setpoint[a] = 0
    BY <2>3 DEF StopInd, Halted
  <2>6. QED
    BY <2>1, <2>4, <2>5
<1>4. QED
    BY <1>1, <1>2, <1>3, ReturnStopped

\* A loop starts when the ones it takes over from have ended.
LEMMA LaunchStopped ==
    ASSUME RuleInd, StopInd, call # NoCall, Return, NEW kind \in {"goto", "sine"}, Waiting(kind),
           NEW l \in LoopSet, loops' = [loops EXCEPT ![call.n] = l],
           l.kind = (IF kind = "goto" THEN "position" ELSE "sine"), l.axes = call.axes, l.pc = "run",
           UNCHANGED <<positionGen, sineGen, ownerVars, acceptVars, stop>>
    PROVE  StopInd'
<1>1. /\ call' = NoCall
      /\ stopped' = [a \in Axes |-> IF Halts /\ a \in call.axes THEN call.n ELSE stopped[a]]
      /\ UNCHANGED <<setpoint, cached, mailbox, owner, source, slow>>
    BY DEF Return, ownerVars, acceptVars
<1>2. call.n \in Commands /\ call.axes \subseteq Axes /\ ~Halts
    BY ProducersAssumption DEF RuleInd, Types, Calls, CallOK, Commands, Halts, Waiting
<1>3. stopped' = stopped
    BY <1>1, <1>2 DEF RuleInd, Types
<1>4. /\ loops'[call.n] = l
      /\ \A n \in Commands \ {call.n} : loops'[n] = loops[n] /\ (IsCurrent(n)' <=> IsCurrent(n))
    BY <1>2 DEF RuleInd, Types, IsCurrent
<1>5. /\ ~Launched(call.n)
      /\ \A n \in Commands : Launched(n) => n < call.n
      /\ \A a \in Axes : stopped[a] \in Int /\ stopped[a] < call.n
  <2>1. call.n # 0 /\ \A n \in Commands : n \in Int
    BY <1>2 DEF Commands
  <2>2. /\ ~Launched(call.n)
        /\ \A n \in Commands : Launched(n) => n <= call.n /\ n # call.n
    BY <1>2, <2>1 DEF RuleInd, InOrder, Numbered
  <2>3. \A a \in Axes : stopped[a] \in Int /\ stopped[a] <= call.n /\ stopped[a] # call.n
    BY <2>1 DEF RuleInd, InOrder, Numbered, Types
  <2>4. QED
    BY <1>2, <2>1, <2>2, <2>3
<1>6. /\ \A i \in DOMAIN mailbox : mailbox[i].op \in LoopOps =>
            mailbox[i].n \in Commands /\ mailbox[i].n # call.n
      /\ owner.op \in LoopOps => owner.n \in Commands /\ owner.n # call.n
    BY <1>5, NoneFields DEF RuleInd, TasksOK, TaskOK, LoopOps, CallOps
<1>7. CacheOK' /\ OneCallTask'
    BY <1>1 DEF StopInd, CacheOK, OneCallTask
<1>8. LoopsOutlive' /\ LastTask'
  <2>1. \A u : TaskOfLoop(u) /\ (u.op \in LoopOps => u.n \in Commands /\ u.n # call.n) => TaskOfLoop(u)'
    BY <1>4 DEF TaskOfLoop, Running, LoopOps
  <2>2. LoopsOutlive'
    BY <1>1, <1>6, <2>1 DEF StopInd, LoopsOutlive
  <2>3. LastTask'
    BY <1>1, <1>4, <1>6 DEF StopInd, LastTask, LoopOps
  <2>4. QED
    BY <2>2, <2>3
<1>9. StopFence'
  <2>1. SUFFICES ASSUME NEW n \in Commands, NEW a \in loops'[n].axes, n <= stopped[a] PROVE ~IsCurrent(n)'
    BY <1>3 DEF StopFence
  <2>2. n # call.n
    <3>1. n = call.n => a \in Axes
        BY <1>2, <1>4, <2>1
    <3>2. n \in Int /\ call.n \in Int
        BY <1>2 DEF Commands
    <3>3. QED
        BY <1>5, <2>1, <3>1, <3>2
  <2>3. QED
    BY <1>4, <2>1, <2>2 DEF StopInd, StopFence
<1>10. ASSUME ~slow PROVE OneRuns' /\ Joins' /\ OwnerFence' /\ Halted' /\ StoppedAxisStays'
  <2>1. Joins' /\ Halted'
    BY <1>1, NoneFields DEF Joins, PositionAwaited, SineAwaited, Halted, Waiting
  <2>2. OwnerFence' /\ StoppedAxisStays'
    BY <1>1, <1>3, <1>4, <1>6, <1>10 DEF StopInd, OwnerFence, StoppedAxisStays
  <2>3. OneRuns'
    <3>1. SUFFICES ASSUME NEW m \in Commands, NEW n \in Commands, m < n, loops'[m].kind # "none",
                          loops'[m].kind = loops'[n].kind,
                          loops'[m].axes \cap loops'[n].axes # {} \/ loops'[m].kind = "position"
                   PROVE  ~(loops'[m].pc \in {"run", "stopping"})
        BY DEF OneRuns, Launched, Running
    <3>2. m # call.n
        BY <1>4, <1>5, <3>1 DEF Launched, Commands
    <3>3. CASE n = call.n
      <4>1. Waiting("goto") => PositionAwaited
        BY DEF PositionAwaited
      <4>2. Waiting("sine") => SineAwaited
        BY DEF SineAwaited
      <4>3. QED
        BY <1>4, <1>10, <3>1, <3>2, <3>3, <4>1, <4>2 DEF StopInd, Joins, Running
    <3>4. CASE n # call.n
        BY <1>4, <1>10, <3>1, <3>2, <3>4 DEF StopInd, OneRuns, Launched, Running
    <3>5. QED
        BY <3>3, <3>4
  <2>4. QED
    BY <2>1, <2>2, <2>3
<1>11. QED
    BY <1>1, <1>7, <1>8, <1>9, <1>10 DEF StopInd

LEMMA LaunchesStopped == ASSUME RuleInd, StopInd, LaunchMove \/ LaunchSine PROVE StopInd'
<1>1. /\ call # NoCall /\ Return /\ UNCHANGED <<positionGen, sineGen, ownerVars, acceptVars, stop>>
      /\ Waiting(call.kind)
    BY NoneFields DEF LaunchMove, LaunchSine, Answered, Waiting
<1>2. CASE LaunchMove
  <2> DEFINE l == [kind |-> "position", axes |-> call.axes, gen |-> call.gen, pc |-> "run"]
  <2>1. call.kind = "goto" /\ (loops' = loops \/ loops' = [loops EXCEPT ![call.n] = l])
    BY <1>2 DEF LaunchMove
  <2>2. l \in LoopSet /\ l.kind = "position" /\ l.axes = call.axes /\ l.pc = "run"
    BY DEF RuleInd, Types, Calls, LoopSet
  <2> HIDE DEF l
  <2>3. CASE loops' = loops
    <3>1. ~Halts
        BY <1>1, <2>1 DEF Halts, RuleInd, CallOK
    <3>2. QED
        BY <1>1, <2>3, <3>1, ReturnStopped DEF loopVars
  <2>4. CASE loops' = [loops EXCEPT ![call.n] = l]
    BY <1>1, <2>1, <2>2, <2>4, LaunchStopped
  <2>5. QED
    BY <2>1, <2>3, <2>4
<1>3. CASE LaunchSine
  <2> DEFINE l == [kind |-> "sine", axes |-> call.axes, pc |-> "run",
                   gen |-> sineGen[CHOOSE a \in call.axes : TRUE]]
  <2>1. call.kind = "sine" /\ loops' = [loops EXCEPT ![call.n] = l]
    BY <1>3 DEF LaunchSine
  <2>2. l \in LoopSet /\ l.kind = "sine" /\ l.axes = call.axes /\ l.pc = "run"
    <3>1. call.axes # {} /\ call.axes \subseteq Axes
        BY <1>1 DEF RuleInd, CallOK, Types, Calls
    <3>2. (CHOOSE a \in call.axes : TRUE) \in Axes
        BY <3>1
    <3>3. QED
        BY <3>1, <3>2 DEF RuleInd, Types, LoopSet
  <2> HIDE DEF l
  <2>3. QED
    BY <1>1, <2>1, <2>2, LaunchStopped
<1>4. QED
    BY <1>2, <1>3
-----------------------------------------------------------------------------
(* A stopped axis stays: the loops *)

\* A loop goes on or leaves: the owner is handed a task of its own.
LEMMA LoopStopped ==
    ASSUME RuleInd, StopInd, SameLoops, mailbox' \in Seq(Tasks),
           NEW t \in Tasks, LastIn(t), t.op \in LoopOps, TaskOfLoop(t)',
           t.op = "loop" => loops'[t.n].pc # "stopping",
           \A n \in Commands : \/ loops'[n].pc = loops[n].pc
                               \/ /\ loops[n].pc = "run" /\ loops'[n].pc = "stopping"
                                  /\ t.op = "loopStop" /\ t.n = n,
           UNCHANGED <<positionGen, sineGen, setpoint, cached, owner, source, acceptVars,
                       call, stop, stopped>>
    PROVE  StopInd'
<1>1. GensGrow /\ slow' = slow
    BY DEF RuleInd, Types, GensGrow, acceptVars
<1>2. OneCallTask' /\ LoopsOutlive' /\ LastTask'
    BY QueueInd DEF StopInd, LoopOps, CallOps
<1>3. \A n \in Commands : /\ Running(n)' <=> Running(n)
                          /\ Launched(n)' <=> Launched(n)
                          /\ IsCurrent(n)' <=> IsCurrent(n)
                          /\ loops'[n].kind = loops[n].kind /\ loops'[n].axes = loops[n].axes
    BY DEF Running, Launched, IsCurrent, SameLoops
<1>4. CacheOK' /\ StopFence'
    BY <1>3 DEF StopInd, CacheOK, StopFence
<1>5. ASSUME ~slow PROVE OneRuns' /\ Joins' /\ OwnerFence' /\ Halted' /\ StoppedAxisStays'
  <2>1. OneRuns' /\ Joins'
    <3>1. (PositionAwaited' <=> PositionAwaited) /\ (SineAwaited' <=> SineAwaited)
        BY DEF PositionAwaited, SineAwaited, Waiting
    <3>2. QED
        BY <1>3, <1>5, <3>1 DEF StopInd, OneRuns, Joins
  <2>2. OwnerFence' /\ StoppedAxisStays'
    <3>1. owner.op \in LoopOps => owner.n \in Commands
        BY NoneFields DEF RuleInd, TasksOK, TaskOK, LoopOps, CallOps
    <3>2. QED
        BY <1>1, <1>3, <1>5, <3>1 DEF StopInd, OwnerFence, StoppedAxisStays
  <2>3. Halted'
    <3>1. \A op \in CallOps : Pending(op, call.n) => Pending(op, call.n)'
      <4>1. \A j \in DOMAIN mailbox : mailbox[j].op # "loop" =>
                \E i \in DOMAIN mailbox' : mailbox'[i] = mailbox[j]
        BY QueueKept DEF RuleInd, Types
      <4>2. QED
        BY <4>1 DEF Pending, CallOps
    <3>2. QED
        BY <1>5, <3>1 DEF StopInd, Halted, Waiting, CallOps
  <2>4. QED
    BY <2>1, <2>2, <2>3
<1>6. QED
    BY <1>1, <1>2, <1>4, <1>5 DEF StopInd

LEMMA RoundStopped ==
    ASSUME RuleInd, StopInd, NEW n \in Commands, NEW values \in [loops[n].axes -> Velocities],
           PublishPosition(n, values) \/ PublishSine(n, values)
    PROVE  StopInd'
<1>1. loops[n].pc = "run" /\ UNCHANGED loops /\ mailbox' \in Seq(Tasks)
    BY PublishRoundRules
<1>2. PICK t \in Tasks : t.op = "loop" /\ t.n = n /\ LastIn(t)
    BY PublishRoundRules
<1>3. UNCHANGED <<positionGen, sineGen, setpoint, cached, owner, source, acceptVars, call, stop, stopped>>
    BY DEF PublishPosition, PublishSine, PublishRound, loopVars
<1>4. SameLoops /\ TaskOfLoop(t)' /\ t.op \in LoopOps
    BY <1>1, <1>2 DEF SameLoops, TaskOfLoop, Running, LoopOps
<1>5. QED
    BY <1>1, <1>2, <1>3, <1>4, LoopStopped

LEMMA LeaveStopped ==
    ASSUME RuleInd, StopInd, NEW n \in Commands, LeavePosition(n) \/ LeaveSine(n)
    PROVE  StopInd'
<1>1. /\ loops[n].pc = "run" /\ loops' = [loops EXCEPT ![n].pc = "stopping"]
      /\ mailbox' \in Seq(Tasks)
    BY LeaveRules
<1>2. PICK t \in Tasks : t.op = "loopStop" /\ t.n = n /\ LastIn(t)
    BY LeaveRules
<1>3. UNCHANGED <<positionGen, sineGen, setpoint, cached, owner, source, acceptVars, call, stop, stopped>>
    BY DEF LeavePosition, LeaveSine, LeaveLoop
<1>4. /\ loops'[n].pc = "stopping" /\ loops'[n].kind = loops[n].kind /\ loops'[n].axes = loops[n].axes
      /\ loops'[n].gen = loops[n].gen
      /\ \A m \in Commands \ {n} : loops'[m] = loops[m]
    BY <1>1 DEF RuleInd, Types
<1>5. Launched(n)
    BY <1>1, NoneFields DEF RuleInd, LoopsOK
<1>6. SameLoops /\ TaskOfLoop(t)' /\ t.op \in LoopOps /\ t.op # "loop"
    BY <1>2, <1>4, <1>5 DEF SameLoops, TaskOfLoop, LoopOps
<1>7. \A m \in Commands : \/ loops'[m].pc = loops[m].pc
                          \/ loops[m].pc = "run" /\ loops'[m].pc = "stopping" /\ t.op = "loopStop" /\ t.n = m
    BY <1>1, <1>2, <1>4
<1>8. QED
    BY <1>1, <1>2, <1>3, <1>6, <1>7, LoopStopped

LEMMA EndStopped == ASSUME RuleInd, StopInd, NEW n \in Commands, EndLoop(n) PROVE StopInd'
<1>1. /\ loops[n].pc = "stopping" /\ ~Pending("loopStop", n)
      /\ UNCHANGED <<positionGen, sineGen, setpoint, cached, mailbox, owner, source, slow,
                     call, stop, stopped>>
    BY DEF EndLoop, ownerVars, acceptVars
<1>2. /\ loops'[n].pc = "done" /\ loops'[n].kind = loops[n].kind /\ loops'[n].axes = loops[n].axes
      /\ loops'[n].gen = loops[n].gen
      /\ \A m \in Commands \ {n} : loops'[m] = loops[m]
    BY DEF EndLoop, RuleInd, Types
<1>3. \A m \in Commands : /\ Running(m)' => Running(m)
                          /\ Launched(m)' <=> Launched(m)
                          /\ IsCurrent(m)' <=> IsCurrent(m)
                          /\ loops'[m].kind = loops[m].kind /\ loops'[m].axes = loops[m].axes
    BY <1>1, <1>2 DEF Running, Launched, IsCurrent
<1>4. /\ \A i \in DOMAIN mailbox : mailbox[i].op \in LoopOps => mailbox[i].n \in Commands \ {n}
      /\ owner.op \in LoopOps => owner.n \in Commands \ {n}
  <2>1. /\ \A i \in DOMAIN mailbox : mailbox[i].op \in LoopOps => mailbox[i].n \in Commands
        /\ owner.op \in LoopOps => owner.n \in Commands
    BY NoneFields DEF RuleInd, TasksOK, TaskOK, LoopOps, CallOps
  <2>2. ASSUME NEW i \in DOMAIN mailbox, mailbox[i].op \in LoopOps PROVE mailbox[i].n # n
    BY <1>1, <2>2 DEF LoopOps, Pending, StopInd, LastTask
  <2>3. ASSUME owner.op \in LoopOps PROVE owner.n # n
    BY <1>1, <2>3 DEF LoopOps, Pending, StopInd, LastTask
  <2>4. QED
    BY <2>1, <2>2, <2>3
<1>5. CacheOK' /\ OneCallTask' /\ StopFence'
    BY <1>1, <1>3 DEF StopInd, CacheOK, OneCallTask, StopFence
<1>6. LoopsOutlive' /\ LastTask'
    BY <1>1, <1>2, <1>4 DEF StopInd, LoopsOutlive, LastTask, TaskOfLoop, Running, LoopOps
<1>7. ASSUME ~slow PROVE OneRuns' /\ Joins' /\ OwnerFence' /\ Halted' /\ StoppedAxisStays'
  <2>1. OneRuns' /\ Joins'
    <3>1. (PositionAwaited' <=> PositionAwaited) /\ (SineAwaited' <=> SineAwaited)
        BY <1>1 DEF PositionAwaited, SineAwaited, Waiting
    <3>2. QED
        BY <1>1, <1>3, <1>7, <3>1 DEF StopInd, OneRuns, Joins
  <2>2. OwnerFence' /\ StoppedAxisStays' /\ Halted'
    BY <1>1, <1>3, <1>4, <1>7 DEF StopInd, OwnerFence, StoppedAxisStays, Halted, Waiting, Pending
  <2>3. QED
    BY <2>1, <2>2
<1>8. QED
    BY <1>1, <1>5, <1>6, <1>7 DEF StopInd
-----------------------------------------------------------------------------
(* A stopped axis stays: the owner *)

LEMMA TakeStopped == ASSUME RuleInd, StopInd, TakeTask PROVE StopInd'
<1>1. slow' = slow /\ SameLoops /\ GensGrow
  <2>1. slow' = slow /\ SameLoops
    BY TakeEffect DEF SameLoops, acceptVars
  <2>2. GensGrow
    BY TakeEffect DEF RuleInd, Types, GensGrow
  <2>3. QED
    BY <2>1, <2>2
<1>2. /\ \A i \in DOMAIN mailbox' : i \in Int /\ i + 1 \in DOMAIN mailbox /\ i + 1 # 1 /\ mailbox'[i] = mailbox[i + 1]
      /\ 1 \in DOMAIN mailbox /\ DOMAIN mailbox \subseteq Int
      /\ \A j \in DOMAIN mailbox : j > 1 => j - 1 \in DOMAIN mailbox' /\ mailbox'[j - 1] = mailbox[j]
  <2>1. \A j \in DOMAIN mailbox : j > 1 => j - 1 \in DOMAIN mailbox' /\ (j - 1) + 1 = j
    BY TakeEffect
  <2>2. QED
    BY <2>1, TakeEffect
<1>3. \A n \in Commands : (Launched(n)' <=> Launched(n)) /\ (IsCurrent(n)' /\ Launched(n) => IsCurrent(n))
    BY <1>1, Outdated DEF RuleInd
<1>4. CacheOK'
    BY TakeEffect DEF StopInd, CacheOK
<1>5. OneCallTask'
  <2>1. \A i, j \in DOMAIN mailbox' : mailbox'[i].op \in CallOps /\ mailbox'[j].op \in CallOps => i = j
    <3>1. SUFFICES ASSUME NEW i \in DOMAIN mailbox', NEW j \in DOMAIN mailbox',
                          mailbox'[i].op \in CallOps, mailbox'[j].op \in CallOps
                   PROVE  i = j
        OBVIOUS
    <3>2. i + 1 = j + 1
        BY <1>2, <3>1 DEF StopInd, OneCallTask
    <3>3. QED
        BY <1>2, <3>2
  <2>2. owner'.op \in CallOps => \A i \in DOMAIN mailbox' : mailbox'[i].op \notin CallOps
    <3>1. owner'.op \in CallOps => mailbox[1].op \in CallOps
        BY TakeEffect, NoneFields DEF CallOps
    <3>2. QED
        BY <1>2, <3>1 DEF StopInd, OneCallTask
  <2>3. QED
    BY <2>1, <2>2 DEF OneCallTask
<1>6. LoopsOutlive'
  <2>1. \A u : TaskOfLoop(u)' <=> TaskOfLoop(u)
    BY TakeEffect DEF TaskOfLoop, Running
  <2>2. \A i \in DOMAIN mailbox' : TaskOfLoop(mailbox'[i])
    BY <1>2 DEF StopInd, LoopsOutlive
  <2>3. TaskOfLoop(owner')
    BY <1>2, TakeEffect, NoneFields DEF StopInd, LoopsOutlive, TaskOfLoop
  <2>4. QED
    BY <2>2, <2>3, TakeEffect DEF LoopsOutlive, TaskOfLoop, Running
<1>7. LastTask'
  <2>1. loops' = loops
    BY TakeEffect
  <2>2. ASSUME NEW i \in DOMAIN mailbox, mailbox[i].op = "loop", loops[mailbox[i].n].pc = "stopping"
        PROVE  \E h \in DOMAIN mailbox' : h > i - 1 /\ mailbox'[h].op = "loopStop" /\ mailbox'[h].n = mailbox[i].n
    <3>1. PICK j \in DOMAIN mailbox : j > i /\ mailbox[j].op = "loopStop" /\ mailbox[j].n = mailbox[i].n
        BY <2>2 DEF StopInd, LastTask
    <3>2. i \in Int /\ j \in Int /\ i >= 1
        BY TakeEffect
    <3>3. j - 1 \in DOMAIN mailbox' /\ mailbox'[j - 1] = mailbox[j] /\ j - 1 > i - 1
        BY <1>2, <3>1, <3>2
    <3>4. QED
        BY <3>1, <3>3
  <2>3. ASSUME NEW i \in DOMAIN mailbox', mailbox'[i].op = "loop", loops[mailbox'[i].n].pc = "stopping"
        PROVE  \E h \in DOMAIN mailbox' : h > i /\ mailbox'[h].op = "loopStop" /\ mailbox'[h].n = mailbox'[i].n
    <3>1. i + 1 \in DOMAIN mailbox /\ mailbox'[i] = mailbox[i + 1] /\ (i + 1) - 1 = i
        BY <1>2
    <3>2. \E h \in DOMAIN mailbox' : h > (i + 1) - 1 /\ mailbox'[h].op = "loopStop" /\ mailbox'[h].n = mailbox[i + 1].n
        BY <2>2, <2>3, <3>1
    <3>3. QED
        BY <3>1, <3>2
  <2>4. ASSUME owner'.op = "loop", loops[owner'.n].pc = "stopping"
        PROVE  \E h \in DOMAIN mailbox' : mailbox'[h].op = "loopStop" /\ mailbox'[h].n = owner'.n
    <3>1. owner' = mailbox[1]
        BY <2>4, TakeEffect, NoneFields
    <3>2. QED
        BY <1>2, <2>2, <2>4, <3>1
  <2>5. QED
    BY <2>1, <2>3, <2>4 DEF LastTask
<1>8. StopFence'
    BY <1>3, TakeEffect, NoneFields DEF StopInd, StopFence, RuleInd, LoopsOK
<1>9. ASSUME ~slow PROVE OneRuns' /\ Joins' /\ OwnerFence' /\ Halted' /\ StoppedAxisStays'
  <2>1. OneRuns' /\ Joins' /\ StoppedAxisStays'
    BY <1>9, TakeEffect
    DEF StopInd, OneRuns, Joins, StoppedAxisStays, PositionAwaited, SineAwaited, Waiting, Launched, Running
  <2>2. OwnerFence'
    <3>1. SUFFICES ASSUME owner'.op \in LoopOps, NEW a \in loops[owner'.n].axes PROVE owner'.n > stopped[a]
        BY TakeEffect DEF OwnerFence
    <3>2. /\ owner' = mailbox[1] /\ IsCurrent(owner'.n) /\ owner'.n \in Commands /\ Launched(owner'.n)
        BY <3>1, TakeEffect, NoneFields DEF LoopOps, TaskOK, CallOps
    <3>3. ~(owner'.n <= stopped[a])
        BY <3>1, <3>2 DEF StopInd, StopFence
    <3>4. owner'.n \in Int /\ stopped[a] \in Int
        BY <3>1, <3>2, ProducersAssumption DEF RuleInd, Types, Commands
    <3>5. QED
        BY <3>3, <3>4
  <2>3. ASSUME NEW op \in {"velocity", "stop"}, Waiting(op), ~Pending(op, call.n)', Pending(op, call.n)
        PROVE  FALSE
    <3>1. PICK i \in DOMAIN mailbox : mailbox[i].op = op /\ mailbox[i].n = call.n
        BY <2>3, TakeEffect, NoneFields DEF Pending
    <3>2. i = 1
        BY <1>2, <2>3, <3>1, TakeEffect DEF Pending
    <3>3. owner' # mailbox[1]
        BY <2>3, <3>1, <3>2, TakeEffect DEF Pending
    <3>4. op = "velocity" /\ mailbox[1].key = "external"
        BY <3>1, <3>2, <3>3, TakeEffect DEF TaskOK, LoopOps
    <3>5. PICK j \in DOMAIN mailbox' : mailbox'[j].key = "external"
        BY <3>1, <3>2, <3>3, <3>4, TakeEffect
    <3>6. j + 1 \in DOMAIN mailbox /\ j + 1 # 1 /\ mailbox[j + 1].key = "external"
        BY <1>2, <3>5
    <3>7. mailbox[j + 1].op \notin CallOps
        BY <1>2, <3>1, <3>2, <3>4, <3>6 DEF StopInd, OneCallTask, CallOps
    <3>8. QED
        BY <3>6, <3>7 DEF RuleInd, TasksOK, TaskOK
  <2>4. Waiting("stop") /\ ~Pending("stop", call.n) => owner'.op \notin LoopOps
    <3>1. SUFFICES ASSUME Waiting("stop"), ~Pending("stop", call.n), owner'.op \in LoopOps PROVE FALSE
        OBVIOUS
    <3>2. owner' = mailbox[1] /\ IsCurrent(mailbox[1].n) /\ mailbox[1].n \in Commands /\ Launched(mailbox[1].n)
        BY <3>1, TakeEffect, NoneFields DEF LoopOps, TaskOK, CallOps
    <3>3. QED
        BY <3>1, <3>2 DEF RuleInd, Fences, StopTaken
  <2>5. Halted'
    BY <1>9, <2>3, <2>4, TakeEffect DEF StopInd, Halted, Waiting
  <2>6. QED
    BY <2>1, <2>2, <2>5
<1>10. QED
    BY <1>1, <1>4, <1>5, <1>6, <1>7, <1>8, <1>9 DEF StopInd

LEMMA ExecuteStopped == ASSUME RuleInd, StopInd, ExecuteTask PROVE StopInd'
<1> DEFINE v == owner.values
           written == {a \in DOMAIN v : owner.op \in {"stop", "goto"} \/ cached[a] # v[a]}
<1>1. /\ setpoint' = [a \in Axes |-> IF a \in written THEN v[a] ELSE setpoint[a]]
      /\ cached' = [a \in Axes |-> IF a \in written /\ owner.op # "goto" THEN v[a] ELSE cached[a]]
      /\ slow' = slow /\ owner' = NoTask
    BY DEF ExecuteTask, acceptVars
<1>2. UNCHANGED <<loops, positionGen, sineGen, mailbox, call, stop, stopped>>
    BY ExecuteEffect
<1>3. CacheOK'
  <2>1. owner.op = "goto" => \A a \in DOMAIN v : v[a] = 0
    BY ExecuteEffect DEF TaskOK, LoopOps
  <2>2. QED
    BY <1>1, <2>1 DEF StopInd, CacheOK
\* An axis that is written, or need not be, turns as the task says.
<1>4. /\ \A a \in Axes : a \in DOMAIN v /\ v[a] = 0 => setpoint'[a] = 0
      /\ \A a \in Axes : a \notin DOMAIN v => setpoint'[a] = setpoint[a]
    BY <1>1 DEF StopInd, CacheOK
<1> HIDE DEF v, written
<1>5. OneCallTask' /\ LoopsOutlive' /\ LastTask'
    BY <1>1, <1>2, NoneFields
    DEF StopInd, OneCallTask, LoopsOutlive, LastTask, TaskOfLoop, CallOps, Running
<1>6. StopFence'
    BY <1>2 DEF StopInd, StopFence, IsCurrent
<1>7. ASSUME ~slow PROVE OneRuns' /\ Joins' /\ OwnerFence' /\ Halted' /\ StoppedAxisStays'
  <2>1. OneRuns' /\ Joins' /\ OwnerFence'
    BY <1>1, <1>2, <1>7, NoneFields
    DEF StopInd, OneRuns, Joins, OwnerFence, LoopOps, PositionAwaited, SineAwaited, Waiting, Launched, Running
  <2>2. ASSUME NEW op \in {"velocity", "stop"}, Waiting(op), ~Pending(op, call.n)'
        PROVE  \/ ~Pending(op, call.n) /\ owner.op \in LoopOps
               \/ owner.op = op /\ v = All(call.axes, call.velocity)
    <3>1. Pending(op, call.n) => owner.op = op /\ owner.n = call.n
        BY <1>2, <2>2 DEF Pending
    <3>2. owner.op \in CallOps => owner.op = op /\ owner.n = call.n
        BY <2>2, ExecuteEffect DEF Waiting
    <3>3. owner.op = op => v = All(call.axes, call.velocity)
        BY <2>2, ExecuteEffect DEF TaskOK, LoopOps, v
    <3>4. QED
        BY <3>1, <3>2, <3>3, ExecuteEffect DEF TaskOK, Pending, CallOps
  <2>3. ASSUME Waiting("velocity"), call.velocity = 0, ~Pending("velocity", call.n)', NEW a \in call.axes
        PROVE  setpoint'[a] = 0
    <3>1. a \in Axes
        BY <2>3 DEF RuleInd, Types, Calls
    <3>2. CASE ~Pending("velocity", call.n) /\ owner.op \in LoopOps
      <4>1. /\ owner.n \in Commands /\ Launched(owner.n) /\ DOMAIN v = loops[owner.n].axes
            /\ Running(owner.n)
        BY <3>2, ExecuteEffect DEF StopInd, LoopsOutlive, TaskOfLoop, Running, LoopOps, v
      <4>2. loops[owner.n].kind \in {"position", "sine"} /\ PositionAwaited /\ SineAwaited
        BY <2>3, <4>1 DEF RuleInd, Types, Launched, PositionAwaited, SineAwaited, Waiting
      <4>3. loops[owner.n].axes \cap call.axes = {}
        BY <1>7, <4>1, <4>2 DEF StopInd, Joins
      <4>4. setpoint[a] = 0
        BY <1>7, <2>3, <3>2 DEF StopInd, Halted
      <4>5. QED
        BY <1>4, <2>3, <3>1, <4>1, <4>3, <4>4
    <3>3. CASE v = All(call.axes, call.velocity)
        BY <1>4, <2>3, <3>1, <3>3 DEF All
    <3>4. QED
        BY <2>2, <2>3, <3>2, <3>3
  <2>4. ASSUME Waiting("stop"), ~Pending("stop", call.n)' PROVE \A a \in Axes : setpoint'[a] = 0
    <3>1. ~(~Pending("stop", call.n) /\ owner.op \in LoopOps)
        BY <1>7, <2>4 DEF StopInd, Halted
    <3>2. v = All(call.axes, call.velocity) /\ call.axes = Axes /\ call.velocity = 0
        BY <2>2, <2>4, <3>1, NoneFields DEF RuleInd, CallOK, Waiting
    <3>3. QED
        BY <1>4, <3>2 DEF All
  <2>5. Halted'
    BY <1>1, <1>2, <2>3, <2>4, NoneFields DEF Halted, Waiting, LoopOps
  <2>6. StoppedAxisStays'
    <3>1. SUFFICES ASSUME NEW a \in Axes, setpoint'[a] # 0 PROVE source'[a].n > stopped[a]
        BY <1>2 DEF StoppedAxisStays
    <3>2. CASE a \in DOMAIN v /\ owner.op # "stopSine"
      <4>1. source'[a].n = owner.n /\ owner.n \in Int /\ stopped[a] \in Int
        BY <3>2, ExecuteEffect, ProducersAssumption DEF v, Commands, RuleInd, Types
      <4>2. CASE owner.op \in LoopOps
        BY <1>7, <3>2, <4>1, <4>2, ExecuteEffect DEF StopInd, OwnerFence, v
      <4>3. CASE owner.op \in CallOps
        <5>1. owner.n = call.n /\ owner.n # 0
            BY <4>3, ExecuteEffect DEF Commands
        <5>2. stopped[a] <= call.n /\ stopped[a] # call.n
            BY <5>1 DEF RuleInd, InOrder, Numbered
        <5>3. QED
            BY <4>1, <5>1, <5>2
      <4>4. QED
        BY <4>2, <4>3, ExecuteEffect DEF TaskOK
    <3>3. CASE a \in DOMAIN v /\ owner.op = "stopSine"
        BY <1>4, <3>1, <3>3, ExecuteEffect DEF TaskOK, LoopOps, v
    <3>4. CASE a \notin DOMAIN v
      <4>1. source'[a] = source[a] /\ setpoint[a] # 0
        BY <1>4, <3>1, <3>4, ExecuteEffect DEF v
      <4>2. QED
        BY <1>7, <4>1 DEF StopInd, StoppedAxisStays
    <3>5. QED
        BY <3>2, <3>3, <3>4
  <2>7. QED
    BY <2>1, <2>5, <2>6
<1>8. QED
    BY <1>1, <1>3, <1>5, <1>6, <1>7 DEF StopInd

LEMMA RefuseTaskStopped == ASSUME RuleInd, StopInd, RefuseTask PROVE StopInd'
<1>1. /\ owner.op = "velocity" /\ owner' = NoTask
      /\ \E a \in DOMAIN owner.values : owner.values[a] # 0
      /\ UNCHANGED <<loops, positionGen, sineGen, setpoint, cached, mailbox, source, slow, call,
                     stop, stopped>>
    BY DEF RefuseTask, loopVars, acceptVars
<1>2. call.kind = "velocity" /\ call.velocity # 0
  <2>1. TaskOK(owner)
    BY <1>1, NoneFields DEF RuleInd, TasksOK
  <2>2. QED
    BY <1>1, <2>1 DEF TaskOK, LoopOps, Waiting, All
<1>3. CacheOK' /\ OneCallTask' /\ LoopsOutlive' /\ LastTask' /\ StopFence'
    BY <1>1, NoneFields
    DEF StopInd, CacheOK, OneCallTask, LoopsOutlive, LastTask, TaskOfLoop, CallOps, Running,
        StopFence, IsCurrent
<1>4. ASSUME ~slow PROVE OneRuns' /\ Joins' /\ OwnerFence' /\ Halted' /\ StoppedAxisStays'
  <2>1. OneRuns' /\ Joins' /\ OwnerFence'
    BY <1>1, <1>4, NoneFields
    DEF StopInd, OneRuns, Joins, OwnerFence, LoopOps, PositionAwaited, SineAwaited, Waiting,
        Launched, Running
  <2>2. Halted' /\ StoppedAxisStays'
    BY <1>1, <1>2, <1>4 DEF StopInd, Halted, StoppedAxisStays, Waiting
  <2>3. QED
    BY <2>1, <2>2
<1>5. QED
    BY <1>1, <1>3, <1>4 DEF StopInd

LEMMA LimitStopped ==
    ASSUME RuleInd, StopInd, \A a \in Axes : setpoint'[a] = setpoint[a] \/ setpoint'[a] = 0,
           UNCHANGED <<loops, positionGen, sineGen, cached, mailbox, owner, source, slow, call, stop, stopped>>
    PROVE  StopInd'
<1>1. CacheOK' /\ OneCallTask' /\ LoopsOutlive' /\ LastTask' /\ StopFence'
    BY DEF StopInd, CacheOK, OneCallTask, LoopsOutlive, LastTask, TaskOfLoop, Running, StopFence, IsCurrent
<1>2. call.axes \subseteq Axes
    BY DEF RuleInd, Types, Calls
<1>3. ASSUME ~slow PROVE OneRuns' /\ Joins' /\ OwnerFence'
    BY <1>3
    DEF StopInd, OneRuns, Joins, OwnerFence, PositionAwaited, SineAwaited, Waiting, Launched, Running
<1>4. ASSUME ~slow PROVE Halted' /\ StoppedAxisStays'
  <2>1. Halted'
    BY <1>2, <1>4 DEF StopInd, Halted, Waiting, Pending
  <2>2. StoppedAxisStays'
    BY <1>4 DEF StopInd, StoppedAxisStays
  <2>3. QED
    BY <2>1, <2>2
<1>5. QED
    BY <1>1, <1>3, <1>4 DEF StopInd

LEMMA StopInit == Init => StopInd
<1> SUFFICES ASSUME Init PROVE StopInd
    OBVIOUS
<1>1. \A n \in Commands : loops[n] = NoLoop /\ ~Launched(n) /\ ~Running(n)
    BY NoneFields DEF Init, Launched, Running
<1>2. \A a \in Axes : setpoint[a] = 0
    BY DEF Init, All
<1>3. CacheOK /\ StoppedAxisStays
    BY <1>2 DEF CacheOK, StoppedAxisStays
<1>4. OneCallTask /\ LoopsOutlive /\ LastTask
    BY NoneFields DEF Init, OneCallTask, LoopsOutlive, LastTask, TaskOfLoop, CallOps
<1>5. StopFence /\ OneRuns /\ Joins
    BY <1>1, NoneFields DEF StopFence, OneRuns, Joins
<1>6. OwnerFence /\ Halted
    BY NoneFields DEF Init, OwnerFence, Halted, LoopOps, Waiting
<1>7. QED
    BY <1>3, <1>4, <1>5, <1>6 DEF StopInd

LEMMA StopStays == RuleInd /\ StopInd /\ [Next]_vars => StopInd'
<1> SUFFICES ASSUME RuleInd, StopInd, [Next]_vars PROVE StopInd'
    OBVIOUS
<1>1. CASE \E A \in AxisSets : Accept("goto", A) \/ Accept("velocity", A)
    BY <1>1, AcceptStopped
<1>2. CASE \E a \in Axes : Accept("sine", {a}) \/ Accept("stopSine", {a})
    BY <1>2, AcceptStopped
<1>3. CASE AcceptStop("stop", Axes) \/ StopStep \/ \E A \in AxisSets : AcceptStop("velocity", A)
    BY <1>3, StopStepStopped
<1>4. CASE CallStep
    BY <1>4, CancelStopped, SubmitStopped, ReturnsStopped, LaunchesStopped DEF CallStep
<1>5. ASSUME NEW n \in Commands, NEW values \in [loops[n].axes -> Velocities],
             PublishPosition(n, values) \/ PublishSine(n, values)
      PROVE  StopInd'
    BY <1>5, RoundStopped
<1>6. ASSUME NEW n \in Commands, LeavePosition(n) \/ LeaveSine(n) \/ EndLoop(n)
      PROVE  StopInd'
    BY <1>6, LeaveStopped, EndStopped
<1>7. CASE OwnerStep
    BY <1>7, TakeStopped, ExecuteStopped, RefuseTaskStopped DEF OwnerStep
<1>8. ASSUME NEW a \in Axes, StopAtLimit(a) PROVE StopInd'
  <2>1. UNCHANGED <<loops, positionGen, sineGen, cached, mailbox, owner, source, slow, call, stop, stopped>>
    BY <1>8 DEF StopAtLimit, loopVars, acceptVars
  <2>2. \A b \in Axes : setpoint'[b] = setpoint[b] \/ setpoint'[b] = 0
    BY <1>8 DEF StopAtLimit, RuleInd, Types
  <2>3. QED
    BY <2>1, <2>2, LimitStopped
<1>9. CASE UNCHANGED vars
    BY <1>9, LimitStopped DEF vars, loopVars, ownerVars, acceptVars
<1>10. QED
    BY <1>1, <1>2, <1>3, <1>4, <1>5, <1>6, <1>7, <1>8, <1>9 DEF Next, Exhausted

\* Two loops that may still write share no axis.  And if every loop ends while its canceller
\* waits for it, an axis whose stop was acknowledged stands still until a later command
\* moves it: every older loop was cancelled before the zero was handed to the owner, has
\* no task left in its queue, and is dropped by the generation that the owner compares
\* (set_velocities, stop_motors, _software_position_loop and _sine_velocity_loop).
THEOREM StoppedAxesStay == Spec => []ProducersInv
<1>1. Init => RuleInd /\ StopInd
    BY RulesInit, StopInit
<1>2. RuleInd /\ StopInd /\ [Next]_vars => (RuleInd /\ StopInd)'
    BY RulesStep, StopStays
<1>3. RuleInd /\ StopInd => ProducersInv
    BY TypesOfRules DEF StopInd, ProducersInv, StoppedAxisStays
<1>4. QED
    BY <1>1, <1>2, <1>3, PTL DEF Spec
=============================================================================
