------------------------- MODULE DashboardProofs ----------------------------
(***************************************************************************)
(* Proofs about the motion controls and the status feed of the dashboard   *)
(* pages, for any axes, velocities and number of requests, and any number  *)
(* of sockets, samples, restarts and outages.                              *)
(*                                                                         *)
(* The argument for the Escape emergency: it has one request pending at a  *)
(* time, so the answer that ends it is the answer to its own Disable.      *)
(* Where no Enable is under way when it begins and none is clicked later,  *)
(* that Disable leaves every axis disabled and at rest when it is served,  *)
(* and nothing that is still on its way, given up by the page or not, can  *)
(* change that: a move and a jog need an axis that is enabled.             *)
(*                                                                         *)
(* The feed needs three arguments that share little: only the newest       *)
(* socket may be live; without a fetch pending, what waits to be rendered  *)
(* is newer than what is shown; and the ids of the logged drive events     *)
(* only ever grow.                                                         *)
(***************************************************************************)
EXTENDS MotorPages, FeedPages, FiniteSetTheorems, SequenceTheorems, TLAPS


CommandSet == [kind : Kinds \cup {"escape-stop", "escape-disable"}, axes : SUBSET Axes,
               id : Nat, result : {"sent", "ok", "failed"}, armed : SUBSET Axes]

CommandTypeOK ==
    /\ commands \cup strays \subseteq CommandSet
    /\ clicks \in Nat
    /\ enabled \subseteq Axes
    /\ escape \in {"idle", "stop", "disable"}
    /\ secured \in {"no", "pending", "yes"}

\* OneEmergency, without counting.
SoleEmergency ==
    /\ EscapeRequests = {} <=> escape = "idle"
    /\ \A c \in EscapeRequests : c.kind = EscapeRequest[escape] /\ c.axes = Axes
    /\ \A c, d \in EscapeRequests : c = d

\* What no command or jog that is still on its way can change.
Secured ==
    /\ secured # "no" => \A c \in commands \cup strays : c.kind # "enable"
    /\ secured = "pending" =>
          \A c \in EscapeRequests : c.kind = "escape-disable" /\ c.result = "ok" => AtRest
    /\ EscapeSecuresTheMount

SecuringInv == CommandTypeOK /\ SoleEmergency /\ Secured

\* The copies of the handlers on the other pages are steps of the desktop's.
LEMMA PageStep == MotorPagesNext => MotorNext
<1>1. MobileAxisJog \/ MobileJogRequest \/ MobilePad => JogPanel
    BY DEF MobileAxisJog, MobileJogRequest, MobilePad, ClassicAxisJog, ClassicJogRequest,
           ClassicPad, AxisJog, AxisHold, AxisStop, Pad, JogPanel
<1>2. MobileMotorCommand => CommandPanel
    BY MotorPanelAssumption
    DEF MobileMotorCommand, ClassicMotorCommand, MotorCommand, CommandEnds, CommandPanel
<1>3. MobileAxisCommand \/ MobileSineCommand => CommandPanel
    BY DEF MobileAxisCommand, MobileSineCommand, ClassicAxisCommand, ClassicSineCommand,
           AxisCommand, SineCommand, CommandPanel, Kinds
<1>4. MobileEmergency \/ MobileEscape => EscapeKey
    BY DEF MobileEmergency, MobileEscape, ClassicEmergency, ClassicEscape, EscapeGoesOn,
           EscapeKey
<1>5. MobileLeave \/ MobileVisibility => JogPanel
    BY DEF MobileLeave, MobileVisibility, ClassicLeave, ClassicVisibility, JogPanel
<1>6. MobileArmed => MotorServer
    BY DEF MobileArmed, ClassicArmed, MotorServer
<1>7. QED
    BY <1>1, <1>2, <1>3, <1>4, <1>5, <1>6 DEF MotorPagesNext, MobileMotor, MotorNext

\* The classic and the mobile page add no behaviour to the desktop's.
LEMMA PagesAddNothing == MotorPagesSpec => MotorSpec
<1>1. [MotorPagesNext]_vars => [MotorNext]_vars
    BY PageStep
<1>2. QED
    BY <1>1, PTL DEF MotorPagesSpec, MotorSpec

-----------------------------------------------------------------------------
(* The Escape emergency *)

LEMMA SecuringInit == MotorInit => SecuringInv
    BY DEF MotorInit, SecuringInv, CommandTypeOK, SoleEmergency, Secured, EscapeRequests,
           EscapeSecuresTheMount

\* A step that leaves the requests of an Escape alone, and neither begins nor ends one.
LEMMA QuietStep ==
    ASSUME SecuringInv, EscapeRequests' = EscapeRequests, escape' = escape,
           CommandTypeOK', secured' = secured \/ secured' = "no",
           secured' # "no" => \A c \in commands' \cup strays' : c.kind # "enable",
           AtRest => AtRest'
    PROVE  SecuringInv'
    BY DEF SecuringInv, SoleEmergency, Secured, EscapeSecuresTheMount

\* The page's own steps: no step of the server is needed to keep the invariant.
LEMMA JogStep == SecuringInv /\ JogPanel => SecuringInv'
<1> SUFFICES ASSUME SecuringInv, JogPanel PROVE SecuringInv'
    OBVIOUS
<1>1. UNCHANGED <<commands, strays, clicks, enabled, escape, secured, motion>>
  <2>1. CASE \E a \in Axes, v \in Speeds : PressJog(a, v)
    BY <2>1 DEF PressJog, serverVars
  <2>2. CASE \E v \in PadVectors : PressPad(v)
    BY <2>2 DEF PressPad, serverVars
  <2>3. CASE \E h \in holds : Heartbeat(h)
    BY <2>3 DEF Heartbeat, serverVars
  <2>4. CASE \E H \in {holds} \cup {{h} : h \in holds} : Release(H)
    BY <2>4 DEF Release, serverVars
  <2>5. CASE \E A \in {Axes} \cup {{a} : a \in Axes} : PressStop(A)
    BY <2>5 DEF PressStop, serverVars
  <2>6. CASE Hide \/ Show
    BY <2>6 DEF Hide, Show, serverVars, historyVars
  <2>7. QED
    BY <2>1, <2>2, <2>3, <2>4, <2>5, <2>6 DEF JogPanel
<1>2. QED
    BY <1>1, QuietStep DEF SecuringInv, CommandTypeOK, Secured, EscapeRequests, AtRest

LEMMA ClickStep == SecuringInv /\ CommandPanel => SecuringInv'
<1> SUFFICES ASSUME SecuringInv, CommandPanel PROVE SecuringInv'
    OBVIOUS
<1> USE DEF SecuringInv, CommandTypeOK, Secured
<1>1. ASSUME NEW kind \in Kinds, NEW A \in SUBSET Axes, Click(kind, A)
      PROVE  SecuringInv'
  <2>1. Command(kind, A) \in CommandSet /\ Command(kind, A).kind = kind
    BY DEF Command, CommandSet
  <2>2. EscapeRequests' = EscapeRequests
    BY <1>1, <2>1 DEF Click, EscapeRequests, Kinds
  <2>3. UNCHANGED <<enabled, motion, escape, strays>>
    BY <1>1 DEF Click, serverVars
  <2>4. CommandTypeOK'
    BY <1>1, <2>1, <2>3 DEF Click
  <2>5. secured' # "no" => \A c \in commands' \cup strays' : c.kind # "enable"
    BY <1>1, <2>1, <2>3 DEF Click
  <2>6. QED
    BY <1>1, <2>2, <2>3, <2>4, <2>5, QuietStep DEF Click, AtRest
<1>2. CASE ClickOffset
  <2>1. Command("move", Axes) \in CommandSet /\ Command("move", Axes).kind = "move"
    BY DEF Command, CommandSet, Kinds
  <2>2. EscapeRequests' = EscapeRequests
    BY <1>2, <2>1 DEF ClickOffset, EscapeRequests
  <2>3. UNCHANGED <<enabled, motion, escape, secured, strays>>
    BY <1>2 DEF ClickOffset, serverVars, historyVars
  <2>4. CommandTypeOK'
    BY <1>2, <2>1, <2>3 DEF ClickOffset
  <2>5. secured' # "no" => \A c \in commands' \cup strays' : c.kind # "enable"
    BY <1>2, <2>1, <2>3 DEF ClickOffset
  <2>6. QED
    BY <2>2, <2>3, <2>4, <2>5, QuietStep DEF AtRest
<1>3. ASSUME NEW c \in commands, Settle(c) PROVE SecuringInv'
  <2>1. EscapeRequests' = EscapeRequests
    BY <1>3 DEF Settle, EscapeRequests, Kinds
  <2>2. UNCHANGED <<enabled, motion, escape, secured, clicks, strays>> /\ commands' \subseteq commands
    BY <1>3 DEF Settle, serverVars, historyVars
  <2>3. QED
    BY <2>1, <2>2, QuietStep DEF AtRest
<1>4. QED
    BY <1>1, <1>2, <1>3 DEF CommandPanel

LEMMA EscapeStep == SecuringInv /\ EscapeKey => SecuringInv'
<1> SUFFICES ASSUME SecuringInv, EscapeKey PROVE SecuringInv'
    OBVIOUS
<1> USE DEF SecuringInv, CommandTypeOK, Secured
<1>1. CASE Escape
  <2>1. Command("escape-stop", Axes) \in CommandSet
        /\ Command("escape-stop", Axes).kind = "escape-stop"
        /\ Command("escape-stop", Axes).axes = Axes
    BY DEF Command, CommandSet
  <2>2. UNCHANGED <<enabled, motion, strays>> /\ escape = "idle" /\ escape' = "stop"
        /\ secured' = Securing
        /\ commands' = commands \cup {Command("escape-stop", Axes)} /\ clicks' = clicks + 1
    BY <1>1 DEF Escape, serverVars
  <2>3. EscapeRequests' = {Command("escape-stop", Axes)}
    BY <2>1, <2>2 DEF SoleEmergency, EscapeRequests
  <2>4. SoleEmergency'
    BY <2>1, <2>2, <2>3 DEF SoleEmergency, EscapeRequest
  <2>5. CommandTypeOK'
    BY <2>1, <2>2 DEF Securing
  <2>6. secured' # "no" => \A c \in commands' \cup strays' : c.kind # "enable"
    BY <2>1, <2>2 DEF Securing
  <2>7. Secured'
    BY <2>1, <2>2, <2>3, <2>6 DEF Securing, EscapeSecuresTheMount
  <2>8. QED
    BY <2>4, <2>5, <2>7
<1>2. ASSUME NEW c \in commands, EscapeDisable(c) PROVE SecuringInv'
  <2> DEFINE d == [c EXCEPT !.kind = "escape-disable", !.result = "sent", !.armed = {}]
  <2>1. d \in CommandSet /\ d.kind = "escape-disable" /\ d.axes = c.axes /\ d.result = "sent"
    BY DEF CommandSet
  <2>2. UNCHANGED <<enabled, motion, secured, clicks, strays>> /\ escape' = "disable"
        /\ c.kind = "escape-stop" /\ commands' = (commands \ {c}) \cup {d}
    BY <1>2 DEF EscapeDisable, serverVars, historyVars
  <2>3. EscapeRequests = {c} /\ c.axes = Axes
    BY <2>2 DEF SoleEmergency, EscapeRequests
  <2>4. EscapeRequests' = {d}
    BY <2>1, <2>2, <2>3 DEF EscapeRequests
  <2> HIDE DEF d
  <2>5. SoleEmergency'
    BY <2>1, <2>2, <2>3, <2>4 DEF SoleEmergency, EscapeRequest
  <2>6. CommandTypeOK'
    BY <2>1, <2>2
  <2>7. Secured'
    BY <2>1, <2>2, <2>4 DEF EscapeSecuresTheMount, AtRest
  <2>8. QED
    BY <2>5, <2>6, <2>7
<1>3. ASSUME NEW c \in commands, EscapeDone(c) PROVE SecuringInv'
  <2>1. UNCHANGED <<enabled, motion, clicks, strays>> /\ escape' = "idle"
        /\ c.kind = "escape-disable" /\ commands' = commands \ {c}
        /\ secured' = IF secured = "pending" /\ c.result = "ok" /\ c.armed = {} THEN "yes" ELSE "no"
    BY <1>3 DEF EscapeDone, serverVars
  <2>2. EscapeRequests = {c}
    BY <2>1 DEF SoleEmergency, EscapeRequests
  <2>3. EscapeRequests' = {}
    BY <2>1, <2>2 DEF EscapeRequests
  <2>4. SoleEmergency' /\ CommandTypeOK'
    BY <2>1, <2>3 DEF SoleEmergency
  <2>5. secured' = "yes" => AtRest'
    BY <2>1, <2>2 DEF AtRest
  <2>6. Secured'
    BY <2>1, <2>3, <2>5 DEF EscapeSecuresTheMount
  <2>7. QED
    BY <2>4, <2>6
<1>4. QED
    BY <1>1, <1>2, <1>3 DEF EscapeKey

\* An answer, or its failure, takes the place of its request.
LEMMA AnswerStep ==
    ASSUME SecuringInv, NEW c \in commands, NEW d \in CommandSet,
           d.kind = c.kind, d.axes = c.axes,
           commands' = (commands \ {c}) \cup {d}, strays' \subseteq strays \cup {c},
           UNCHANGED <<escape, secured, clicks>>, enabled' \subseteq Axes,
           d.kind = "escape-disable" /\ d.result = "ok" => AtRest',
           secured # "no" /\ AtRest => AtRest'
    PROVE  SecuringInv'
<1> USE DEF SecuringInv, CommandTypeOK
<1>1. CommandTypeOK'
    OBVIOUS
<1>2. EscapeRequests' = IF c \in EscapeRequests THEN (EscapeRequests \ {c}) \cup {d}
                        ELSE EscapeRequests
    BY DEF EscapeRequests
<1>3. SoleEmergency'
    BY <1>2 DEF SoleEmergency, EscapeRequest
<1>4. \A x \in EscapeRequests' : x = d \/ x \in EscapeRequests
    BY <1>2
<1>5. Secured'
    BY <1>4 DEF Secured, EscapeSecuresTheMount
<1>6. QED
    BY <1>1, <1>3, <1>5

\* A command, given up by the page or not: Disable of every axis leaves the mount at
\* rest, and only an Enable ends that.
LEMMA CommandedRests ==
    ASSUME NEW c \in CommandSet, Commanded(c)
    PROVE  /\ c.kind = "escape-disable" /\ c.axes = Axes /\ enabled \subseteq Axes => AtRest'
           /\ c.kind # "enable" /\ AtRest => AtRest'
<1>1. ASSUME c.kind = "escape-disable", c.axes = Axes, enabled \subseteq Axes PROVE AtRest'
  <2>1. enabled' = {}
    BY <1>1 DEF Commanded, EnabledAfter
  <2>2. motion' = Zeros(Axes)
    BY <1>1 DEF Commanded, Allowed, Zeros
  <2>3. QED
    BY <2>1, <2>2 DEF AtRest, Zeros
<1>2. ASSUME c.kind # "enable", AtRest PROVE AtRest'
  <2>1. enabled' = {}
    BY <1>2 DEF Commanded, EnabledAfter, AtRest
  <2>2. motion' = Zeros(Axes)
    BY <1>2 DEF Commanded, Allowed, Zeros, AtRest
  <2>3. QED
    BY <2>1, <2>2 DEF AtRest, Zeros
<1>3. QED
    BY <1>1, <1>2

LEMMA ServerStep == SecuringInv /\ MotorServer => SecuringInv'
<1> SUFFICES ASSUME SecuringInv, MotorServer PROVE SecuringInv'
    OBVIOUS
<1> USE DEF SecuringInv, CommandTypeOK, Secured
<1>1. ASSUME NEW r \in jogWire, ServeJog(r) PROVE SecuringInv'
  <2>1. UNCHANGED <<commands, strays, clicks, enabled, escape, secured>>
    BY <1>1 DEF ServeJog, pageVars, historyVars
  <2>2. AtRest => AtRest'
    BY <1>1, <2>1 DEF ServeJog, AtRest, Zeros
  <2>3. QED
    BY <2>1, <2>2, QuietStep DEF EscapeRequests
<1>2. ASSUME NEW r \in jogWire, SettleJog(r) PROVE SecuringInv'
  <2>1. UNCHANGED <<commands, strays, clicks, enabled, motion, escape, secured>>
    BY <1>2 DEF SettleJog, pageVars, serverVars, historyVars
  <2>2. QED
    BY <2>1, QuietStep DEF EscapeRequests, AtRest
<1>3. ASSUME NEW a \in Axes, Expire(a) PROVE SecuringInv'
  <2>1. UNCHANGED <<commands, strays, clicks, enabled, escape, secured>>
    BY <1>3 DEF Expire, pageVars, historyVars
  <2>2. ~AtRest
    BY <1>3 DEF Expire, AtRest, Zeros
  <2>3. QED
    BY <2>1, <2>2, QuietStep DEF EscapeRequests
<1>4. ASSUME NEW c \in commands, Serve(c) PROVE SecuringInv'
  <2> DEFINE d == [c EXCEPT !.result = IF Allowed(c) THEN "ok" ELSE "failed",
                            !.armed = EnabledAfter(c)]
  <2>1. Commanded(c) /\ EnabledAfter(c) \subseteq Axes
    BY <1>4 DEF Serve, EnabledAfter, CommandSet
  <2>2. d \in CommandSet /\ d.kind = c.kind /\ d.axes = c.axes
    BY <2>1 DEF CommandSet
  <2>3. commands' = (commands \ {c}) \cup {d} /\ enabled' = EnabledAfter(c)
        /\ UNCHANGED <<escape, secured, clicks, strays>>
    BY <1>4 DEF Serve, Commanded, pageVars, historyVars
  <2>4. c.kind = "escape-disable" => AtRest'
    <3>1. c.kind = "escape-disable" => c.axes = Axes
        BY DEF SoleEmergency, EscapeRequests
    <3>2. QED
        BY <2>1, <3>1, CommandedRests
  <2>5. secured # "no" /\ AtRest => AtRest'
    BY <2>1, CommandedRests
  <2> HIDE DEF d
  <2>6. QED
    BY <2>1, <2>2, <2>3, <2>4, <2>5, AnswerStep
<1>5. ASSUME NEW c \in commands, Fail(c) PROVE SecuringInv'
  <2> DEFINE d == [c EXCEPT !.result = "failed"]
  <2>1. d \in CommandSet /\ d.kind = c.kind /\ d.axes = c.axes /\ d.result = "failed"
    BY DEF CommandSet
  <2>2. commands' = (commands \ {c}) \cup {d} /\ strays' \subseteq strays \cup {c}
        /\ UNCHANGED <<escape, secured, clicks, enabled, motion>>
    BY <1>5 DEF Fail, pageVars, historyVars
  <2> HIDE DEF d
  <2>3. QED
    BY <2>1, <2>2, AnswerStep DEF AtRest
<1>6. ASSUME NEW c \in strays, ServeStray(c) PROVE SecuringInv'
  <2>1. Commanded(c) /\ EnabledAfter(c) \subseteq Axes
    BY <1>6 DEF ServeStray, EnabledAfter, CommandSet
  <2>2. UNCHANGED <<commands, clicks, escape, secured>> /\ strays' = strays \ {c}
        /\ enabled' = EnabledAfter(c)
    BY <1>6, <2>1 DEF ServeStray, Commanded, pageVars, historyVars
  <2>3. secured # "no" /\ AtRest => AtRest'
    BY <2>1, CommandedRests
  <2>4. CommandTypeOK' /\ SoleEmergency'
    BY <2>1, <2>2 DEF SoleEmergency, EscapeRequests
  <2>5. Secured'
    BY <2>2, <2>3 DEF EscapeRequests, EscapeSecuresTheMount
  <2>6. QED
    BY <2>4, <2>5
<1>7. CASE RenderArmed
  <2>1. UNCHANGED <<commands, strays, clicks, enabled, motion, escape, secured>>
    BY <1>7 DEF RenderArmed, serverVars, historyVars
  <2>2. QED
    BY <2>1, QuietStep DEF EscapeRequests, AtRest
<1>8. QED
    BY <1>1, <1>2, <1>3, <1>4, <1>5, <1>6, <1>7 DEF MotorServer

LEMMA SecuringStep == SecuringInv /\ [MotorPagesNext]_vars => SecuringInv'
<1> SUFFICES ASSUME SecuringInv, [MotorPagesNext]_vars PROVE SecuringInv'
    OBVIOUS
<1>1. CASE MotorPagesNext
    BY <1>1, PageStep, JogStep, ClickStep, EscapeStep, ServerStep DEF MotorNext
<1>2. CASE UNCHANGED vars
  <2>1. UNCHANGED <<commands, strays, clicks, enabled, motion, escape, secured>>
    BY <1>2 DEF vars, pageVars, serverVars, historyVars
  <2>2. QED
    BY <2>1, QuietStep DEF SecuringInv, CommandTypeOK, Secured, EscapeRequests, AtRest
<1>3. QED
    BY <1>1, <1>2

\* The strengthening of the two properties below: what the emergency sequence has been
\* told so far is what the mount has done (emergencyStopAndDisable).
THEOREM SecuringHolds == MotorPagesSpec => []SecuringInv
<1>1. QED
    BY SecuringInit, SecuringStep, PTL DEF MotorPagesSpec

\* An Escape that reports success leaves every axis disabled and at rest, and what
\* is still travelling cannot change that (emergencyStopAndDisable).
THEOREM EscapeSecures == MotorPagesSpec => []EscapeSecuresTheMount
<1>1. SecuringInv => EscapeSecuresTheMount
    BY DEF SecuringInv, Secured
<1>2. QED
    BY <1>1, SecuringHolds, PTL

\* One emergency sequence at a time, and escape names its request
\* (emergencyStopInFlight).
THEOREM OneEmergencyAtATime == MotorPagesSpec => []OneEmergency
<1>1. SecuringInv => OneEmergency
  <2> SUFFICES ASSUME SecuringInv PROVE OneEmergency
    OBVIOUS
  <2>1. CASE escape = "idle"
    BY <2>1, FS_EmptySet DEF SecuringInv, SoleEmergency, OneEmergency
  <2>2. CASE escape # "idle"
    <3>1. PICK c \in EscapeRequests : TRUE
        BY <2>2 DEF SecuringInv, SoleEmergency
    <3>2. EscapeRequests = {c}
        BY <3>1 DEF SecuringInv, SoleEmergency
    <3>3. Cardinality(EscapeRequests) = 1
        BY <3>2, FS_Singleton
    <3>4. QED
        BY <2>2, <3>3 DEF SecuringInv, SoleEmergency, OneEmergency
  <2>3. QED
    BY <2>1, <2>2
<1>2. QED
    BY <1>1, SecuringHolds, PTL

-----------------------------------------------------------------------------
(* The requests of the page *)

\* The library's sequence of a finite set is one of its elements.
LEMMA SetToSeqOf ==
    ASSUME NEW S, IsFiniteSet(S) PROVE SetToSeq(S) \in Seq(S)
<1>1. Cardinality(S) \in Nat /\ ExistsBijection(1..Cardinality(S), S)
    BY FS_CardinalityType
<1>2. \E f \in [1..Cardinality(S) -> S] : IsInjective(f)
    BY <1>1 DEF ExistsBijection, Bijection, Injection
<1>3. SetToSeq(S) \in [1..Cardinality(S) -> S]
    BY <1>2 DEF SetToSeq
<1>4. QED
    BY <1>1, <1>3

\* A hold is of one axis form, or of a pad that gives every axis a velocity.
HoldsOK ==
    /\ IsFiniteSet(holds)
    /\ \A h \in holds :
          \/ h.kind = "axis" /\ \E a \in Axes : DOMAIN h.velocity = {a}
          \/ h.kind = "pad" /\ DOMAIN h.velocity = Axes

\* OneJogPerAxis, without counting.
SoleJog == \A a \in Axes : \A g, h \in AxisHolds(a) : g = h

WireOK ==
    /\ sequence \in Nat
    /\ \A r \in jogWire :
          /\ r = [seq |-> r.seq, velocity |-> r.velocity, owner |-> r.owner, served |-> r.served]
          /\ r.seq \in 1..sequence

PanelTypeOK ==
    /\ armed \subseteq Axes /\ escaped \subseteq Axes
    /\ {busyFlag, stopFailed, hidden} \subseteq BOOLEAN
    /\ \A a \in Axes : lastSeq[a] \in 0..sequence

HoldInv == HoldsOK /\ SoleJog /\ WireOK /\ PanelTypeOK /\ ReleaseIsTheLastWord

\* Issue numbers its requests from the next one on: each is the release of a hold of H,
\* or the velocity v, which the guards let pass.
Driven(v) == IF Passes(v) THEN DOMAIN v ELSE {}
Released(H) == UNION {DOMAIN h.velocity : h \in H}

LEMMA IssueEffect ==
    ASSUME sequence \in Nat, NEW H, IsFiniteSet(H), NEW v, NEW owner, Issue(H, v, owner)
    PROVE  /\ sequence' \in Nat /\ sequence' >= sequence
           /\ \A r \in jogWire' \ jogWire :
                 /\ r = [seq |-> r.seq, velocity |-> r.velocity, owner |-> r.owner,
                         served |-> r.served]
                 /\ r.seq \in 1..sequence'
                 /\ \/ r.velocity = v
                    \/ \E h \in H : r.velocity = Zeros(DOMAIN h.velocity)
           /\ newest' = [a \in Axes |-> IF a \in Driven(v) THEN v[a]
                                        ELSE IF a \in Released(H) THEN 0 ELSE newest[a]]
           /\ escaped' = escaped \ (Driven(v) \cup Released(H))
<1> DEFINE order == SetToSeq(H)
           R == [i \in DOMAIN order |-> Zeros(DOMAIN order[i].velocity)]
           last == IF Passes(v) THEN <<v>> ELSE <<>>
           sent == Releases(H) \o last
           Zs == {Zeros(DOMAIN h.velocity) : h \in H}
<1>1. order \in Seq(H)
    BY SetToSeqOf
<1>2. Releases(H) = R
    BY DEF Releases
<1>3. \A i \in DOMAIN order : order[i] \in H
    BY <1>1
<1>4. DOMAIN order = 1..Len(order) /\ Len(order) \in Nat
    BY <1>1
<1>5. R \in [1..Len(order) -> Zs]
    BY <1>3, <1>4
<1>6. R \in Seq(Zs)
    BY <1>4, <1>5
<1> HIDE DEF order, R
<1>7. sent \in Seq(Zs \cup {v})
  <2> HIDE DEF Zs
  <2>1. Releases(H) \in Seq(Zs \cup {v})
    BY <1>2, <1>6
  <2>2. last \in Seq(Zs \cup {v})
    OBVIOUS
  <2> HIDE DEF last
  <2>3. QED
    BY <2>1, <2>2
<1> HIDE DEF sent, last
<1>8. Len(sent) \in Nat /\ DOMAIN sent = 1..Len(sent) /\ \A i \in DOMAIN sent : sent[i] \in Zs \cup {v}
    BY <1>7
<1>9. /\ sequence' = sequence + Len(sent)
      /\ jogWire' = jogWire \cup
              {[seq |-> sequence + i, velocity |-> sent[i], owner |-> owner, served |-> FALSE] :
                  i \in DOMAIN sent}
      /\ newest' = [a \in Axes |-> IF a \in Driven(v) THEN v[a]
                                        ELSE IF a \in Released(H) THEN 0 ELSE newest[a]]
      /\ escaped' = escaped \ (Driven(v) \cup Released(H))
    BY DEF Issue, Driven, Released, sent, last
<1>10. sequence' \in Nat /\ sequence' >= sequence
    BY <1>8, <1>9
<1>11. ASSUME NEW r \in jogWire' \ jogWire
       PROVE  /\ r = [seq |-> r.seq, velocity |-> r.velocity, owner |-> r.owner,
                         served |-> r.served]
              /\ r.seq \in 1..sequence'
              /\ r.velocity \in Zs \cup {v}
  <2>1. PICK i \in DOMAIN sent :
            r = [seq |-> sequence + i, velocity |-> sent[i], owner |-> owner, served |-> FALSE]
    BY <1>9, <1>11
  <2>2. i \in 1..Len(sent) /\ sent[i] \in Zs \cup {v}
    BY <1>8
  <2>3. sequence + i \in 1..(sequence + Len(sent))
    BY <1>8, <2>2
  <2>4. QED
    BY <1>9, <2>1, <2>2, <2>3
<1>12. QED
    BY <1>9, <1>10, <1>11

-----------------------------------------------------------------------------
\* What OnlyHeldAxesAreDriven asks of a step.
DrivesOnlyHeld ==
    \A a \in Axes : \A r \in jogWire' \ jogWire :
        r.seq <= sequence \/ a \notin DOMAIN r.velocity \/ r.velocity[a] = 0 \/ Held(a)'

LEMMA IssueKeeps ==
    ASSUME HoldInv, NEW H, IsFiniteSet(H), NEW v, NEW owner, Issue(H, v, owner),
           \A a \in DOMAIN v : a \in Axes => v[a] = 0 \/ Held(a)',
           lastSeq' = lastSeq, armed' = armed,
           {busyFlag', stopFailed', hidden'} \subseteq BOOLEAN
    PROVE  WireOK' /\ PanelTypeOK' /\ DrivesOnlyHeld
<1> USE IssueEffect DEF HoldInv, WireOK
<1>1. WireOK'
    OBVIOUS
<1>2. PanelTypeOK'
    BY DEF PanelTypeOK
<1>3. ASSUME NEW a \in Axes, NEW r \in jogWire' \ jogWire
      PROVE  a \notin DOMAIN r.velocity \/ r.velocity[a] = 0 \/ Held(a)'
  <2>1. CASE r.velocity = v
    BY <2>1
  <2>2. ASSUME NEW h \in H, r.velocity = Zeros(DOMAIN h.velocity)
        PROVE  a \notin DOMAIN r.velocity \/ r.velocity[a] = 0
    <3> DEFINE D == DOMAIN h.velocity
    <3>1. DOMAIN Zeros(D) = D /\ (a \in D => Zeros(D)[a] = 0)
        BY DEF Zeros
    <3>2. QED
        BY <2>2, <3>1
  <2>3. r.velocity = v \/ \E h \in H : r.velocity = Zeros(DOMAIN h.velocity)
    OBVIOUS
  <2>4. QED
    BY <2>1, <2>2, <2>3
<1>4. QED
    BY <1>1, <1>2, <1>3 DEF DrivesOnlyHeld

\* Holds that come and go: a set of them, and at most one that is new.
LEMMA FewerHolds ==
    ASSUME HoldInv, NEW H \in SUBSET holds, holds' = holds \ H
    PROVE  HoldsOK' /\ SoleJog'
    BY FS_Difference DEF HoldInv, HoldsOK, SoleJog, AxisHolds

LEMMA HoldFields ==
    ASSUME NEW kind, NEW v
    PROVE  Hold(kind, v).kind = kind /\ Hold(kind, v).velocity = v
    BY DEF Hold

LEMMA PressJogStep ==
    ASSUME HoldInv, NEW a \in Axes, NEW v \in Speeds, PressJog(a, v)
    PROVE  HoldInv' /\ DrivesOnlyHeld
<1> DEFINE w == [x \in {a} |-> v]
           g == Hold("axis", w)
<1>1. /\ holds' = (holds \ AxisHolds(a)) \cup {g}
      /\ Issue({}, w, None)
      /\ UNCHANGED <<armed, busyFlag, stopFailed, hidden, lastSeq>>
    BY DEF PressJog, serverVars
<1>2. g.kind = "axis" /\ g.velocity = w /\ DOMAIN w = {a} /\ w[a] = v
    BY HoldFields
<1>3. v # 0
    BY MotorPanelAssumption
<1> HIDE DEF g, w
<1>4. HoldsOK'
  <2>1. IsFiniteSet(holds \ AxisHolds(a))
    BY FS_Difference DEF HoldInv, HoldsOK
  <2>2. IsFiniteSet(holds')
    BY <1>1, <2>1, FS_AddElement
  <2>3. QED
    BY <1>1, <1>2, <2>2 DEF HoldInv, HoldsOK
<1>5. SoleJog'
    BY <1>1, <1>2 DEF HoldInv, HoldsOK, SoleJog, AxisHolds
<1>6. Held(a)'
    BY <1>1, <1>2, <1>3 DEF Held
<1>7. WireOK' /\ PanelTypeOK' /\ DrivesOnlyHeld
  <2>1. \A b \in DOMAIN w : b \in Axes => w[b] = 0 \/ Held(b)'
    BY <1>2, <1>6
  <2>2. {busyFlag', stopFailed', hidden'} \subseteq BOOLEAN
    BY <1>1 DEF HoldInv, PanelTypeOK
  <2>3. QED
    BY <1>1, <2>1, <2>2, IssueKeeps, FS_EmptySet
<1>8. ReleaseIsTheLastWord'
  <2>1. \A b \in Axes \ {a} : Held(b) => Held(b)'
    BY <1>1, <1>2 DEF HoldInv, HoldsOK, Held, AxisHolds
  <2>2. \A b \in Axes \ {a} : newest'[b] = newest[b] /\ (b \in escaped <=> b \in escaped')
    BY <1>1, <1>2, IssueEffect, FS_EmptySet DEF HoldInv, WireOK, Driven, Released
  <2>3. QED
    BY <1>6, <2>1, <2>2 DEF HoldInv, ReleaseIsTheLastWord
<1>9. QED
    BY <1>4, <1>5, <1>7, <1>8 DEF HoldInv

LEMMA PressPadStep ==
    ASSUME HoldInv, NEW v \in PadVectors, PressPad(v)
    PROVE  HoldInv' /\ DrivesOnlyHeld
<1> DEFINE g == Hold("pad", v)
<1>1. /\ holds' = (holds \ PadHolds) \cup {g}
      /\ Issue(PadHolds, v, None)
      /\ UNCHANGED <<armed, busyFlag, stopFailed, hidden, lastSeq>>
    BY DEF PressPad, serverVars
<1>2. g.kind = "pad" /\ g.velocity = v /\ DOMAIN v = Axes
    BY HoldFields, MotorPanelAssumption
<1> HIDE DEF g
<1>3. IsFiniteSet(PadHolds)
    BY FS_Subset DEF HoldInv, HoldsOK, PadHolds
<1>4. HoldsOK'
  <2>1. IsFiniteSet(holds \ PadHolds)
    BY FS_Difference DEF HoldInv, HoldsOK
  <2>2. IsFiniteSet(holds')
    BY <1>1, <2>1, FS_AddElement
  <2>3. QED
    BY <1>1, <1>2, <2>2 DEF HoldInv, HoldsOK
<1>5. SoleJog'
    BY <1>1, <1>2 DEF HoldInv, SoleJog, AxisHolds
<1>6. \A a \in Axes : v[a] = 0 \/ Held(a)'
    BY <1>1, <1>2 DEF Held
<1>7. WireOK' /\ PanelTypeOK' /\ DrivesOnlyHeld
  <2>1. {busyFlag', stopFailed', hidden'} \subseteq BOOLEAN
    BY <1>1 DEF HoldInv, PanelTypeOK
  <2>2. QED
    BY <1>1, <1>2, <1>3, <1>6, <2>1, IssueKeeps
<1>8. ReleaseIsTheLastWord'
  <2> SUFFICES ASSUME NEW a \in Axes, ~Held(a)'
               PROVE  newest'[a] = 0 \/ a \in escaped'
    BY DEF ReleaseIsTheLastWord
  <2>1. v[a] = 0
    BY <1>6
  <2>2. /\ newest'[a] = IF a \in Driven(v) THEN v[a]
                        ELSE IF a \in Released(PadHolds) THEN 0 ELSE newest[a]
        /\ a \notin Driven(v) \cup Released(PadHolds) => (a \in escaped <=> a \in escaped')
    BY <1>1, <1>3, IssueEffect DEF HoldInv, WireOK
  <2>3. CASE a \in Driven(v) \cup Released(PadHolds)
    BY <2>1, <2>2, <2>3
  <2>4. CASE a \notin Driven(v) \cup Released(PadHolds)
    <3>1. \A h \in PadHolds : a \notin DOMAIN h.velocity
        BY <2>4 DEF Released
    <3>2. ~Held(a)
        BY <1>1, <3>1 DEF Held
    <3>3. QED
        BY <2>2, <2>4, <3>2 DEF HoldInv, ReleaseIsTheLastWord
  <2>5. QED
    BY <2>3, <2>4
<1>9. QED
    BY <1>4, <1>5, <1>7, <1>8 DEF HoldInv

\* A heartbeat, or a velocity of zero: requests that change no hold.
LEMMA RepeatStep ==
    ASSUME HoldInv, NEW v, NEW owner, Issue({}, v, owner),
           \A a \in DOMAIN v : a \in Axes => v[a] = 0 \/ Held(a),
           UNCHANGED <<armed, holds, busyFlag, stopFailed, hidden, lastSeq>>
    PROVE  HoldInv' /\ DrivesOnlyHeld
<1>1. \A a : Held(a)' <=> Held(a)
    BY DEF Held
<1>2. WireOK' /\ PanelTypeOK' /\ DrivesOnlyHeld
  <2>1. {busyFlag', stopFailed', hidden'} \subseteq BOOLEAN
    BY DEF HoldInv, PanelTypeOK
  <2>2. QED
    BY <1>1, <2>1, IssueKeeps, FS_EmptySet
<1>3. HoldsOK' /\ SoleJog'
    BY DEF HoldInv, HoldsOK, SoleJog, AxisHolds
<1>4. ReleaseIsTheLastWord'
  <2>1. \A a \in Axes : newest'[a] = (IF a \in Driven(v) THEN v[a] ELSE newest[a])
                        /\ (a \notin Driven(v) => (a \in escaped <=> a \in escaped'))
    BY IssueEffect, FS_EmptySet DEF HoldInv, WireOK, Released
  <2>2. Driven(v) \subseteq DOMAIN v
    BY DEF Driven
  <2>3. QED
    BY <1>1, <2>1, <2>2 DEF HoldInv, ReleaseIsTheLastWord
<1>5. QED
    BY <1>2, <1>3, <1>4 DEF HoldInv

LEMMA ReleaseStep ==
    ASSUME HoldInv, NEW H \in SUBSET holds, holds' = holds \ H, Issue(H, NoVelocity, None),
           UNCHANGED <<armed, busyFlag, stopFailed, lastSeq>>, hidden' \in BOOLEAN
    PROVE  HoldInv' /\ DrivesOnlyHeld
<1>1. IsFiniteSet(H)
    BY FS_Subset DEF HoldInv, HoldsOK
<1>2. HoldsOK' /\ SoleJog'
    BY FewerHolds
<1>3. DOMAIN NoVelocity = {} /\ Driven(NoVelocity) = {}
    BY DEF NoVelocity, Driven, Passes
<1>4. WireOK' /\ PanelTypeOK' /\ DrivesOnlyHeld
  <2>1. {busyFlag', stopFailed', hidden'} \subseteq BOOLEAN
    BY DEF HoldInv, PanelTypeOK
  <2>2. QED
    BY <1>1, <1>3, <2>1, IssueKeeps
<1>5. ReleaseIsTheLastWord'
  <2> SUFFICES ASSUME NEW a \in Axes, ~Held(a)', a \notin Released(H)
               PROVE  newest'[a] = 0 \/ a \in escaped'
    BY <1>1, <1>3, IssueEffect DEF HoldInv, WireOK, ReleaseIsTheLastWord
  <2>1. newest'[a] = newest[a] /\ (a \in escaped <=> a \in escaped')
    BY <1>1, <1>3, IssueEffect DEF HoldInv, WireOK
  <2>2. ~Held(a)
    BY DEF Held, Released
  <2>3. QED
    BY <2>1, <2>2 DEF HoldInv, ReleaseIsTheLastWord
<1>6. QED
    BY <1>2, <1>4, <1>5 DEF HoldInv

\* The buttons of the jogs: every request they send is for an axis that is held.
LEMMA JogHoldStep == HoldInv /\ JogPanel => HoldInv' /\ DrivesOnlyHeld
<1> SUFFICES ASSUME HoldInv, JogPanel PROVE HoldInv' /\ DrivesOnlyHeld
    OBVIOUS
<1>1. CASE \E a \in Axes, v \in Speeds : PressJog(a, v)
    BY <1>1, PressJogStep
<1>2. CASE \E v \in PadVectors : PressPad(v)
    BY <1>2, PressPadStep
<1>3. ASSUME NEW h \in holds, Heartbeat(h) PROVE HoldInv' /\ DrivesOnlyHeld
    BY <1>3, RepeatStep DEF Heartbeat, Held, serverVars
<1>4. ASSUME NEW H \in SUBSET holds, Release(H) PROVE HoldInv' /\ DrivesOnlyHeld
    BY <1>4, ReleaseStep DEF Release, serverVars, HoldInv, PanelTypeOK
<1>5. ASSUME NEW A \in SUBSET Axes, PressStop(A) PROVE HoldInv' /\ DrivesOnlyHeld
  <2>1. Issue({}, Zeros(A), None)
        /\ UNCHANGED <<armed, holds, busyFlag, stopFailed, hidden, lastSeq>>
    BY <1>5 DEF PressStop, serverVars
  <2>2. \A a \in DOMAIN Zeros(A) : a \in Axes => Zeros(A)[a] = 0 \/ Held(a)
    BY DEF Zeros
  <2>3. QED
    BY <2>1, <2>2, RepeatStep
<1>6. CASE Hide
  <2>1. holds' = holds \ holds /\ hidden' = TRUE /\ Issue(holds, NoVelocity, None)
        /\ UNCHANGED <<armed, busyFlag, stopFailed, lastSeq>>
    BY <1>6 DEF Hide, serverVars
  <2>2. QED
    BY <2>1, ReleaseStep
<1>7. CASE Show
  <2>1. hidden' = FALSE
        /\ UNCHANGED <<armed, holds, sequence, busyFlag, stopFailed, jogWire, lastSeq, newest, escaped>>
    BY <1>7 DEF Show, serverVars, historyVars
  <2>2. QED
    BY <2>1 DEF HoldInv, HoldsOK, SoleJog, AxisHolds, WireOK, PanelTypeOK, ReleaseIsTheLastWord,
                Held, DrivesOnlyHeld
<1>8. QED
    BY <1>1, <1>2, <1>3, <1>4, <1>5, <1>6, <1>7 DEF JogPanel

-----------------------------------------------------------------------------
\* A step of commands, which neither the holds nor their requests take part in.
LEMMA QuietHolds ==
    ASSUME HoldInv, UNCHANGED <<holds, sequence, jogWire, lastSeq, newest, escaped>>,
           armed' \subseteq Axes, {busyFlag', stopFailed', hidden'} \subseteq BOOLEAN
    PROVE  HoldInv' /\ DrivesOnlyHeld
    BY DEF HoldInv, HoldsOK, SoleJog, AxisHolds, WireOK, PanelTypeOK, ReleaseIsTheLastWord,
           Held, DrivesOnlyHeld

LEMMA CommandHoldStep == HoldInv /\ SecuringInv /\ CommandPanel => HoldInv' /\ DrivesOnlyHeld
<1> SUFFICES ASSUME HoldInv, SecuringInv, CommandPanel PROVE HoldInv' /\ DrivesOnlyHeld
    OBVIOUS
<1>1. UNCHANGED <<holds, sequence, jogWire, lastSeq, newest, escaped, stopFailed, hidden>>
    BY DEF CommandPanel, Click, ClickOffset, Settle, serverVars, historyVars
<1>2. busyFlag' \in BOOLEAN
    BY DEF CommandPanel, Click, ClickOffset, Settle
<1>3. armed' \subseteq Axes
  <2>1. \A c \in commands : c.armed \subseteq Axes
    BY DEF SecuringInv, CommandTypeOK, CommandSet
  <2>2. armed' = armed \/ \E c \in commands : armed' = c.armed
    BY DEF CommandPanel, Click, ClickOffset, Settle
  <2>3. QED
    BY <2>1, <2>2 DEF HoldInv, PanelTypeOK
<1>4. QED
    BY <1>1, <1>2, <1>3, QuietHolds DEF HoldInv, PanelTypeOK

LEMMA EscapeHoldStep == HoldInv /\ SecuringInv /\ EscapeKey => HoldInv' /\ DrivesOnlyHeld
<1> SUFFICES ASSUME HoldInv, SecuringInv, EscapeKey PROVE HoldInv' /\ DrivesOnlyHeld
    OBVIOUS
<1>1. CASE Escape
  <2>1. /\ holds' = {} /\ escaped' = Axes /\ busyFlag' = TRUE /\ stopFailed' = FALSE
        /\ UNCHANGED <<armed, sequence, jogWire, lastSeq, newest, hidden>>
    BY <1>1 DEF Escape, serverVars
  <2>2. HoldsOK' /\ SoleJog'
    BY <2>1, FS_EmptySet DEF HoldsOK, SoleJog, AxisHolds
  <2>3. QED
    BY <2>1, <2>2 DEF HoldInv, WireOK, PanelTypeOK, ReleaseIsTheLastWord, DrivesOnlyHeld
<1>2. CASE \E c \in commands : EscapeDisable(c) \/ EscapeDone(c)
  <2>1. UNCHANGED <<holds, sequence, jogWire, lastSeq, newest, escaped, hidden>>
        /\ busyFlag' \in {busyFlag, FALSE}
    BY <1>2 DEF EscapeDisable, EscapeDone, serverVars, historyVars
  <2>2. stopFailed' \in BOOLEAN
    BY <1>2 DEF EscapeDisable, EscapeDone, HoldInv, PanelTypeOK
  <2>3. \A c \in commands : c.armed \subseteq Axes
    BY DEF SecuringInv, CommandTypeOK, CommandSet
  <2>4. armed' = armed \/ \E c \in commands : armed' = c.armed
    BY <1>2 DEF EscapeDisable, EscapeDone
  <2>5. QED
    BY <2>1, <2>2, <2>3, <2>4, QuietHolds DEF HoldInv, PanelTypeOK
<1>3. QED
    BY <1>1, <1>2 DEF EscapeKey

\* The server answers requests; it makes none.
LEMMA AnsweredWire ==
    ASSUME HoldInv, UNCHANGED <<holds, sequence, newest, escaped, armed, busyFlag, stopFailed, hidden>>,
           \A a \in Axes : lastSeq'[a] \in 0..sequence,
           \A r \in jogWire' \ jogWire :
              /\ r = [seq |-> r.seq, velocity |-> r.velocity, owner |-> r.owner, served |-> r.served]
              /\ r.seq \in 1..sequence
    PROVE  HoldInv' /\ DrivesOnlyHeld
    BY DEF HoldInv, HoldsOK, SoleJog, AxisHolds, WireOK, PanelTypeOK, ReleaseIsTheLastWord,
           Held, DrivesOnlyHeld

LEMMA ServerHoldStep == HoldInv /\ SecuringInv /\ MotorServer => HoldInv' /\ DrivesOnlyHeld
<1> SUFFICES ASSUME HoldInv, SecuringInv, MotorServer PROVE HoldInv' /\ DrivesOnlyHeld
    OBVIOUS
<1>1. ASSUME NEW r \in jogWire, ServeJog(r) PROVE HoldInv' /\ DrivesOnlyHeld
  <2> DEFINE s == [r EXCEPT !.served = TRUE]
  <2>1. r = [seq |-> r.seq, velocity |-> r.velocity, owner |-> r.owner, served |-> r.served]
        /\ r.seq \in 1..sequence
    BY DEF HoldInv, WireOK
  <2>2. s = [seq |-> r.seq, velocity |-> r.velocity, owner |-> r.owner, served |-> TRUE]
    <3> DEFINE yes == TRUE
               q == [seq |-> r.seq, velocity |-> r.velocity, owner |-> r.owner, served |-> r.served]
    <3> HIDE DEF yes
    <3>1. [q EXCEPT !.served = yes]
             = [seq |-> r.seq, velocity |-> r.velocity, owner |-> r.owner, served |-> yes]
        OBVIOUS
    <3>2. r = q
        BY <2>1
    <3> HIDE DEF q
    <3>3. [r EXCEPT !.served = yes]
             = [seq |-> r.seq, velocity |-> r.velocity, owner |-> r.owner, served |-> yes]
        BY <3>1, <3>2
    <3>4. QED
        BY <3>3 DEF yes
  <2>3. jogWire' \subseteq jogWire \cup {s}
        /\ UNCHANGED <<holds, sequence, newest, escaped, armed, busyFlag, stopFailed, hidden>>
    BY <1>1 DEF ServeJog, pageVars, historyVars
  <2>4. \A a \in Axes : lastSeq'[a] \in {r.seq, lastSeq[a]}
    BY <1>1 DEF ServeJog
  <2>5. \A a \in Axes : lastSeq'[a] \in 0..sequence
    BY <2>1, <2>4 DEF HoldInv, PanelTypeOK, WireOK
  <2> HIDE DEF s
  <2>6. \A q \in jogWire' \ jogWire : q = s
    BY <2>3
  <2>7. s.seq = r.seq /\ s.velocity = r.velocity /\ s.owner = r.owner /\ s.served = TRUE
    BY <2>2
  <2>8. QED
    BY <2>1, <2>2, <2>3, <2>5, <2>6, <2>7, AnsweredWire
<1>2. ASSUME NEW r \in jogWire, SettleJog(r) PROVE HoldInv' /\ DrivesOnlyHeld
  <2> DEFINE s == [r EXCEPT !.owner = None]
  <2>1. r = [seq |-> r.seq, velocity |-> r.velocity, owner |-> r.owner, served |-> r.served]
        /\ r.seq \in 1..sequence
    BY DEF HoldInv, WireOK
  <2>2. s = [seq |-> r.seq, velocity |-> r.velocity, owner |-> None, served |-> r.served]
    <3> DEFINE nobody == None
               q == [seq |-> r.seq, velocity |-> r.velocity, owner |-> r.owner, served |-> r.served]
    <3> HIDE DEF nobody
    <3>1. [q EXCEPT !.owner = nobody]
             = [seq |-> r.seq, velocity |-> r.velocity, owner |-> nobody, served |-> r.served]
        OBVIOUS
    <3>2. r = q
        BY <2>1
    <3> HIDE DEF q
    <3>3. [r EXCEPT !.owner = nobody]
             = [seq |-> r.seq, velocity |-> r.velocity, owner |-> nobody, served |-> r.served]
        BY <3>1, <3>2
    <3>4. QED
        BY <3>3 DEF nobody
  <2>3. jogWire' \subseteq jogWire \cup {s} /\ UNCHANGED <<pageVars, serverVars, historyVars>>
    BY <1>2 DEF SettleJog
  <2> HIDE DEF s
  <2>4. \A q \in jogWire' \ jogWire : q = s
    BY <2>3
  <2>5. s.seq = r.seq /\ s.velocity = r.velocity /\ s.owner = None /\ s.served = r.served
    BY <2>2
  <2>6. UNCHANGED <<holds, sequence, newest, escaped, armed, busyFlag, stopFailed, hidden>>
        /\ \A a \in Axes : lastSeq'[a] \in 0..sequence
    BY <2>3 DEF pageVars, serverVars, historyVars, HoldInv, PanelTypeOK
  <2>7. QED
    BY <2>1, <2>2, <2>4, <2>5, <2>6, AnsweredWire
<1>3. ASSUME NEW a \in Axes, Expire(a) PROVE HoldInv' /\ DrivesOnlyHeld
    BY <1>3, QuietHolds DEF Expire, pageVars, historyVars, HoldInv, PanelTypeOK
<1>4. ASSUME NEW c, Serve(c) \/ Fail(c) \/ ServeStray(c) PROVE HoldInv' /\ DrivesOnlyHeld
  <2>1. UNCHANGED <<pageVars, historyVars, jogWire, lastSeq>>
    BY <1>4 DEF Serve, Fail, ServeStray
  <2>2. QED
    BY <2>1, QuietHolds DEF pageVars, historyVars, HoldInv, PanelTypeOK
<1>5. CASE RenderArmed
  <2>1. enabled \subseteq Axes
    BY DEF SecuringInv, CommandTypeOK
  <2>2. QED
    BY <1>5, <2>1, QuietHolds DEF RenderArmed, serverVars, historyVars, HoldInv, PanelTypeOK
<1>6. QED
    BY <1>1, <1>2, <1>3, <1>4, <1>5 DEF MotorServer

LEMMA HoldStep ==
    HoldInv /\ SecuringInv /\ [MotorPagesNext]_vars => HoldInv' /\ DrivesOnlyHeld
<1> SUFFICES ASSUME HoldInv, SecuringInv, [MotorPagesNext]_vars PROVE HoldInv' /\ DrivesOnlyHeld
    OBVIOUS
<1>1. CASE MotorPagesNext
    BY <1>1, PageStep, JogHoldStep, CommandHoldStep, EscapeHoldStep, ServerHoldStep DEF MotorNext
<1>2. CASE UNCHANGED vars
    BY <1>2, QuietHolds DEF vars, pageVars, serverVars, historyVars, HoldInv, PanelTypeOK
<1>3. QED
    BY <1>1, <1>2

LEMMA HoldInit == MotorInit => HoldInv
<1> SUFFICES ASSUME MotorInit PROVE HoldInv
    OBVIOUS
<1>1. HoldsOK /\ SoleJog /\ WireOK
    BY FS_EmptySet DEF MotorInit, HoldsOK, SoleJog, AxisHolds, WireOK
<1>2. PanelTypeOK /\ ReleaseIsTheLastWord
  <2>1. PanelTypeOK
    <3>1. \A a \in Axes : lastSeq[a] \in 0..sequence
        BY DEF MotorInit, Zeros
    <3>2. {busyFlag, stopFailed, hidden} \subseteq BOOLEAN
        BY DEF MotorInit
    <3>3. QED
        BY <3>1, <3>2 DEF MotorInit, PanelTypeOK
  <2>2. ReleaseIsTheLastWord
    BY DEF MotorInit, ReleaseIsTheLastWord, Zeros
  <2>3. QED
    BY <2>1, <2>2
<1>3. QED
    BY <1>1, <1>2 DEF HoldInv

LEMMA HoldsKept == MotorPagesSpec => [](HoldInv /\ SecuringInv)
<1>1. QED
    BY HoldInit, SecuringInit, HoldStep, SecuringStep, PTL DEF MotorPagesSpec

\* What a page remembers of its buttons agrees with what it has sent: one jog of an
\* axis form, one emergency, and a zero velocity or an Escape after every hold
\* (startAxisJog, startDirectionJog and their stop closures).
THEOREM ButtonsAndRequestsAgree == MotorPagesSpec => []MotorInv
<1>1. HoldInv => OneJogPerAxis
  <2> SUFFICES ASSUME HoldInv, NEW a \in Axes PROVE Cardinality(AxisHolds(a)) <= 1
    BY DEF OneJogPerAxis
  <2>1. CASE AxisHolds(a) = {}
    BY <2>1, FS_EmptySet
  <2>2. CASE \E h \in AxisHolds(a) : TRUE
    <3>1. \E h : AxisHolds(a) = {h}
        BY <2>2 DEF HoldInv, SoleJog
    <3>2. QED
        BY <3>1, FS_Singleton
  <2>3. QED
    BY <2>1, <2>2
<1>2. HoldInv /\ SecuringInv => MotorTypeOK
  <2> SUFFICES ASSUME HoldInv, SecuringInv PROVE MotorTypeOK
    OBVIOUS
  <2>1. \A h \in holds : h.kind \in {"axis", "pad"} /\ DOMAIN h.velocity \subseteq Axes
    BY DEF HoldInv, HoldsOK
  <2>2. QED
    BY <2>1 DEF HoldInv, WireOK, PanelTypeOK, SecuringInv, CommandTypeOK, MotorTypeOK
<1>3. HoldInv /\ SecuringInv /\ OneEmergency => MotorInv
    BY <1>1, <1>2 DEF MotorInv, HoldInv
<1>4. QED
    BY <1>3, HoldsKept, OneEmergencyAtATime, PTL

\* Only a button that is held sends a velocity: no request that a step adds comes from
\* a hold that was released, emergency-stopped or hidden (the interval callbacks of startAxisJog and
\* startDirectionJog).
THEOREM OnlyHeldButtonsDrive == MotorPagesSpec => OnlyHeldAxesAreDriven
<1>1. HoldInv /\ SecuringInv /\ [MotorPagesNext]_vars =>
         [\A a \in Axes : \A r \in jogWire' \ jogWire :
             r.seq <= sequence \/ a \notin DOMAIN r.velocity \/ r.velocity[a] = 0 \/ Held(a)']_vars
    BY HoldStep DEF DrivesOnlyHeld
<1>2. QED
    BY <1>1, HoldsKept, PTL DEF MotorPagesSpec, OnlyHeldAxesAreDriven

-----------------------------------------------------------------------------
(* The status feed *)


\* The copies of the feed on the other pages are steps of the desktop's.
LEMMA FeedPageStep == FeedPagesNext => FeedNext
<1>1. Connection \/ PageUse \/ Streamed \/ Shows \/ Suspend(TRUE) => FeedNext
    BY DEF Connection, PageUse, Streamed, Shows, FeedNext, PageEvents, Timers, Arrivals
<1>2. MobileFeed => Connection \/ PageUse \/ Streamed \/ Shows \/ Suspend(TRUE)
    BY DEF MobileFeed, MobileStream, MobileMessage, MobilePoll, MobileUse, MobileHide,
           MobileRender, MobileDriveEvents, MobileRestarted, MobileAxis, MobileArmedLog,
           ClassicStream, ClassicMessage, ClassicPoll, ClassicUse, ClassicHide,
           ClassicRender, ClassicDriveEvents, ClassicRestarted, ClassicAxis,
           ClassicArmedLog, Shows
<1>3. QED
    BY <1>1, <1>2 DEF FeedPagesNext

\* The steps named for the two pages are the desktop's by definition: what is proved of
\* the desktop's feed carries over to them.
LEMMA FeedPagesAddNothing == FeedPagesSpec => FeedSpec
<1>1. [FeedPagesNext]_feedVars => [FeedNext]_feedVars
    BY FeedPageStep
<1>2. QED
    BY <1>1, PTL DEF FeedPagesSpec, FeedSpec

-----------------------------------------------------------------------------
(* The sockets *)

SocketStates == {"connecting", "open", "closing", "closed"}

LinkTypeOK ==
    /\ socket \in Seq(SocketStates) /\ socket # <<>>
    /\ {online, suspended, streamFlag, polling, reconnecting, renderTimer, lateClose} \subseteq BOOLEAN

OnlyNewestIsLive == \A i \in DOMAIN socket : Live(socket[i]) => i = Newest

LinkInd ==
    /\ LinkTypeOK /\ OnlyNewestIsLive
    /\ SuspendedIsSilent /\ PollingBesideStreamHasCause /\ PendingWillBeRendered

LEMMA SocketChanges ==
    ASSUME NEW s \in Seq(SocketStates), NEW i \in DOMAIN s, NEW x \in SocketStates
    PROVE  /\ [s EXCEPT ![i] = x] \in Seq(SocketStates)
           /\ [s EXCEPT ![i] = x] # <<>>
           /\ Len([s EXCEPT ![i] = x]) = Len(s)
           /\ DOMAIN [s EXCEPT ![i] = x] = DOMAIN s
           /\ \A j \in DOMAIN s : [s EXCEPT ![i] = x][j] = IF j = i THEN x ELSE s[j]
    OBVIOUS

LEMMA LinkStarts == FeedInit => LinkInd
<1> SUFFICES ASSUME FeedInit PROVE LinkInd
    OBVIOUS
<1>1. socket \in Seq(SocketStates) /\ socket # <<>> /\ Len(socket) = 1 /\ DOMAIN socket = {1}
    BY DEF FeedInit, SocketStates
<1>2. LinkTypeOK
    BY <1>1 DEF FeedInit, LinkTypeOK
<1>3. OnlyNewestIsLive
    BY <1>1 DEF OnlyNewestIsLive, Newest
<1>4. QED
    BY <1>2, <1>3 DEF FeedInit, LinkInd, SuspendedIsSilent, PollingBesideStreamHasCause,
                      PendingWillBeRendered

\* A step that leaves the connection alone.
LEMMA LinkStays ==
    ASSUME LinkInd, UNCHANGED linkVars, renderTimer' \in BOOLEAN, PendingWillBeRendered'
    PROVE  LinkInd'
    BY DEF LinkInd, LinkTypeOK, OnlyNewestIsLive, SuspendedIsSilent,
           PollingBesideStreamHasCause, Live, Newest, StreamOpen, linkVars
\* A step in which one socket changes and none becomes live that was not.
LEMMA SocketStep ==
    ASSUME LinkInd, NEW i \in DOMAIN socket, NEW x \in SocketStates,
           socket' = [socket EXCEPT ![i] = x], Live(x) => Live(socket[i]),
           UNCHANGED <<pending, renderTimer>>,
           {online', suspended', streamFlag', polling', reconnecting', lateClose'} \subseteq BOOLEAN,
           suspended' => ~polling' /\ ~reconnecting' /\ ~Live(socket'[Newest]),
           polling' /\ socket'[Newest] = "open" => lateClose'
    PROVE  LinkInd'
<1>1. /\ socket' \in Seq(SocketStates) /\ socket' # <<>> /\ Newest' = Newest
      /\ DOMAIN socket' = DOMAIN socket
      /\ \A j \in DOMAIN socket : socket'[j] = IF j = i THEN x ELSE socket[j]
    BY SocketChanges DEF LinkInd, LinkTypeOK, Newest
<1>2. LinkTypeOK'
    BY <1>1 DEF LinkInd, LinkTypeOK
<1>3. OnlyNewestIsLive'
    BY <1>1 DEF LinkInd, OnlyNewestIsLive
<1>4. SuspendedIsSilent' /\ PollingBesideStreamHasCause'
    BY <1>1 DEF SuspendedIsSilent, PollingBesideStreamHasCause, StreamOpen
<1>5. QED
    BY <1>2, <1>3, <1>4 DEF LinkInd, PendingWillBeRendered

\* connectStatusStream: a socket is created only when the newest one is not live.
LEMMA ConnectStep ==
    ASSUME LinkInd, NEW active \in BOOLEAN, Connect(active), UNCHANGED <<pending, renderTimer>>,
           suspended' \in BOOLEAN, reconnecting' \in BOOLEAN,
           UNCHANGED <<online, streamFlag, polling, lateClose>>,
           suspended' => suspended /\ ~active /\ ~reconnecting'
    PROVE  LinkInd'
<1>1. CASE socket' = socket
    BY <1>1 DEF LinkInd, LinkTypeOK, OnlyNewestIsLive, SuspendedIsSilent,
                PollingBesideStreamHasCause, PendingWillBeRendered, Live, Newest, StreamOpen
<1>2. CASE socket' = Append(socket, "connecting") /\ active /\ ~Live(socket[Newest])
  <2>1. /\ socket' \in Seq(SocketStates) /\ socket' # <<>> /\ Newest' = Newest + 1
        /\ socket'[Newest + 1] = "connecting"
        /\ \A j \in DOMAIN socket' : j = Newest + 1 \/ (j \in DOMAIN socket /\ socket'[j] = socket[j])
    BY <1>2 DEF LinkInd, LinkTypeOK, SocketStates, Newest
  <2>2. OnlyNewestIsLive'
    BY <1>2, <2>1 DEF LinkInd, OnlyNewestIsLive, Live
  <2>3. QED
    BY <1>2, <2>1, <2>2 DEF LinkInd, LinkTypeOK, SuspendedIsSilent,
                            PollingBesideStreamHasCause, PendingWillBeRendered, StreamOpen
<1>3. QED
    BY <1>1, <1>2 DEF Connect

LEMMA LinkStep == LinkInd /\ [FeedNext]_feedVars => LinkInd'
<1> SUFFICES ASSUME LinkInd, [FeedNext]_feedVars PROVE LinkInd'
    OBVIOUS
<1> USE DEF LinkInd, LinkTypeOK
<1>0. Newest \in DOMAIN socket /\ \A i \in DOMAIN socket : socket[i] \in SocketStates
    BY DEF Newest
<1>1. ASSUME NEW i \in DOMAIN socket, OpenEvent(i) PROVE LinkInd'
  <2>1. Live(socket[i]) /\ i = Newest /\ ~suspended
    BY <1>1 DEF OpenEvent, Live, OnlyNewestIsLive, SuspendedIsSilent
  <2>2. /\ socket' = [socket EXCEPT ![i] = "open"] /\ UNCHANGED <<pending, renderTimer>>
        /\ streamFlag' = TRUE /\ polling' = FALSE /\ lateClose' = FALSE
        /\ UNCHANGED <<online, suspended, reconnecting>>
    BY <1>1 DEF OpenEvent
  <2>3. QED
    BY <2>1, <2>2, SocketStep DEF SocketStates
<1>2. ASSUME NEW i \in DOMAIN socket, CloseEvent(i) PROVE LinkInd'
  <2>1. /\ socket' = [socket EXCEPT ![i] = "closed"] /\ UNCHANGED <<pending, renderTimer>>
        /\ streamFlag' = FALSE /\ UNCHANGED <<online, suspended>>
        /\ polling' = (polling \/ (online /\ ~suspended))
        /\ reconnecting' = (reconnecting \/ (online /\ ~suspended))
        /\ lateClose' = (lateClose \/ (i # Newest /\ StreamOpen))
    BY <1>2 DEF CloseEvent, StartPolling, ScheduleReconnect
  <2>2. "closed" \in SocketStates /\ ~Live("closed")
    BY DEF SocketStates, Live
  <2>3. socket'[Newest] = IF i = Newest THEN "closed" ELSE socket[Newest]
    BY <1>0, <2>1, <2>2, SocketChanges
  <2>4. suspended' => ~polling' /\ ~reconnecting' /\ ~Live(socket'[Newest])
    BY <2>1, <2>2, <2>3 DEF SuspendedIsSilent
  <2>5. polling' /\ socket'[Newest] = "open" => lateClose'
    BY <2>1, <2>3 DEF StreamOpen
  <2>6. QED
    BY <2>1, <2>2, <2>4, <2>5, SocketStep
<1>3. ASSUME NEW i \in DOMAIN socket, ErrorEvent(i) PROVE LinkInd'
  <2>1. /\ socket' = [socket EXCEPT ![Newest] = "closing"]
        /\ UNCHANGED <<pending, renderTimer, online, suspended, streamFlag, polling, reconnecting,
                       lateClose>>
    BY <1>3 DEF ErrorEvent
  <2>2. "closing" \in SocketStates /\ ~Live("closing")
    BY DEF SocketStates, Live
  <2>3. socket'[Newest] = "closing"
    BY <1>0, <2>1, <2>2, SocketChanges
  <2>4. QED
    BY <1>0, <2>1, <2>2, <2>3, SocketStep DEF SuspendedIsSilent
<1>4. ASSUME NEW link \in BOOLEAN, Suspend(link) PROVE LinkInd'
  <2> DEFINE x == IF Live(socket[Newest]) THEN "closing" ELSE socket[Newest]
  <2>1. /\ socket' = [socket EXCEPT ![Newest] = x]
        /\ UNCHANGED <<pending, renderTimer, streamFlag, lateClose>>
        /\ online' = link /\ suspended' = TRUE /\ polling' = FALSE /\ reconnecting' = FALSE
    BY <1>4 DEF Suspend
  <2>2. x \in SocketStates /\ ~Live(x)
    BY <1>0 DEF SocketStates, Live
  <2> HIDE DEF x
  <2>3. socket'[Newest] = x
    BY <1>0, <2>1, <2>2, SocketChanges
  <2>4. QED
    BY <1>0, <2>1, <2>2, <2>3, SocketStep
<1>5. CASE BackOnline
  <2>1. online' = TRUE /\ UNCHANGED <<suspended, socket, streamFlag, polling, reconnecting, lateClose,
                                     pending, renderTimer>>
    BY <1>5 DEF BackOnline
  <2>2. QED
    BY <2>1 DEF OnlyNewestIsLive, SuspendedIsSilent, PollingBesideStreamHasCause,
                PendingWillBeRendered, Live, Newest, StreamOpen
<1>6. CASE PointerDown
    BY <1>6, ConnectStep DEF PointerDown
<1>7. CASE ReconnectFires
  <2>1. (~suspended) \in BOOLEAN
    OBVIOUS
  <2>2. ~suspended
    BY <1>7 DEF ReconnectFires, SuspendedIsSilent
  <2>3. QED
    BY <1>7, <2>1, <2>2, ConnectStep DEF ReconnectFires
<1>8. CASE PollFires \/ ServeStatus \/ PollAnswer \/ SendMessage
  <2>1. UNCHANGED linkVars /\ UNCHANGED <<pending, renderTimer>>
    BY <1>8 DEF PollFires, ServeStatus, PollAnswer, SendMessage
  <2>2. QED
    BY <2>1, LinkStays DEF PendingWillBeRendered
<1>9. CASE RenderFires
  <2>1. UNCHANGED linkVars /\ pending' = Nothing /\ renderTimer' = FALSE
    BY <1>9 DEF RenderFires
  <2>2. QED
    BY <2>1, LinkStays DEF PendingWillBeRendered, Nothing
<1>10. CASE Message
  <2>1. UNCHANGED linkVars /\ (renderTimer' = TRUE \/ UNCHANGED <<pending, renderTimer>>)
    BY <1>10 DEF Message, Handle
  <2>2. QED
    BY <2>1, LinkStays DEF PendingWillBeRendered
<1>11. CASE Sample \/ Restart
  <2>1. UNCHANGED linkVars /\ UNCHANGED <<pending, renderTimer>>
    BY <1>11 DEF Sample, Restart
  <2>2. QED
    BY <2>1, LinkStays DEF PendingWillBeRendered
<1>12. CASE UNCHANGED feedVars
    BY <1>12, LinkStays DEF feedVars, PendingWillBeRendered
<1>13. QED
    BY <1>1, <1>2, <1>3, <1>4, <1>5, <1>6, <1>7, <1>8, <1>9, <1>10, <1>11, <1>12
    DEF FeedNext, SocketEvents, PageEvents, Timers, Arrivals, StatusServer
-----------------------------------------------------------------------------
(* The statuses *)

StatusSet == [boot : Nat, seq : Nat, time : Nat, events : Nat,
              axis : AxisStates \cup {"idle", "sent"}]

ServerOK ==
    /\ server \in StatusSet /\ server.axis \in AxisStates
    /\ server.boot \in 1..MaxBoots /\ server.time \in 1..MaxSamples
    /\ server.seq <= server.time /\ server.events < server.time

\* A status that the server has produced, or that the page makes up without it.
Known(d) == d \in StatusSet /\ d.time <= server.time /\ d.events <= MaxSamples

PageKnows ==
    /\ Known(latest) /\ Known(pending) /\ Known(fetched)
    /\ pending.axis \in AxisStates
    /\ fetched \notin {Idle, Sent} => fetched.axis \in AxisStates
    /\ \A d \in wire : Known(d) /\ d.axis \in AxisStates /\ d.time # 0 /\ d.seq <= MaxSamples
    /\ streamSeq \in 0..MaxSamples /\ lastEvent \in 0..MaxSamples
    /\ told \in 0..MaxSamples
    /\ axisShown \in AxisStates /\ shownFrom \in {"none", "stream", "poll"}

\* Each source by itself moves on: behind what came from the stream are only newer
\* messages, and behind what came from an answer only newer answers.
SourcesMoveOn ==
    /\ shownFrom = "none" => latest.time = 0
    /\ shownFrom = "stream" =>
          /\ pending # Nothing => latest.time <= pending.time
          /\ \A d \in wire : latest.time <= d.time
    /\ shownFrom = "poll" /\ fetched \notin {Idle, Sent} => latest.time <= fetched.time
    /\ pending # Nothing => \A d \in wire : pending.time <= d.time

StatusInd == ServerOK /\ PageKnows /\ SourcesMoveOn

\* The new events of a status, in order.
LEMMA NewEventsInterval ==
    ASSUME NEW d \in StatusSet, lastEvent \in Nat
    PROVE  /\ NewEvents(d) = (lastEvent + 1)..d.events
           /\ IsFiniteSet(NewEvents(d))
           /\ Cardinality(NewEvents(d)) =
                 IF d.events > lastEvent THEN d.events - lastEvent ELSE 0
<1>1. d.events \in Nat
    BY DEF StatusSet
<1>2. NewEvents(d) = (lastEvent + 1)..d.events
    BY <1>1 DEF NewEvents
<1>3. IsFiniteSet((lastEvent + 1)..d.events)
      /\ Cardinality((lastEvent + 1)..d.events) =
            IF lastEvent + 1 > d.events THEN 0 ELSE d.events - (lastEvent + 1) + 1
  <2>1. lastEvent + 1 \in Int /\ d.events \in Int
    BY <1>1
  <2>2. QED
    BY <2>1, FS_Interval, Zenon
<1>4. QED
    BY <1>1, <1>2, <1>3

LEMMA MaxOfInterval == ASSUME NEW a \in Int, NEW b \in Int, a <= b PROVE Max(a..b) = b
    BY DEF Max

LEMMA Rendered ==
    ASSUME NEW d \in StatusSet, d.axis \in AxisStates, lastEvent \in Nat,
           axisShown \in AxisStates, Render(d)
    PROVE  /\ latest' = d /\ axisShown' \in AxisStates
           /\ lastEvent' = IF d.events > lastEvent THEN d.events ELSE lastEvent
<1>1. d.events \in Nat
    BY DEF StatusSet
<1>2. NewEvents(d) = (lastEvent + 1)..d.events
    BY NewEventsInterval
<1>3. CASE d.events > lastEvent
  <2>1. NewEvents(d) # {} /\ Max(NewEvents(d)) = d.events
    BY <1>1, <1>2, <1>3, MaxOfInterval
  <2>2. QED
    BY <1>3, <2>1 DEF Render, ShownState, AxisStates
<1>4. CASE ~(d.events > lastEvent)
  <2>1. NewEvents(d) = {}
    BY <1>1, <1>2, <1>4
  <2>2. QED
    BY <1>4, <2>1 DEF Render, ShownState, AxisStates
<1>5. QED
    BY <1>3, <1>4

LEMMA SpecialStatuses ==
    /\ {Nothing, Idle, Sent} \subseteq StatusSet
    /\ Nothing.axis = "missing" /\ Idle.axis = "idle" /\ Sent.axis = "sent"
    /\ \A d \in {Nothing, Idle, Sent} : d.boot = 0 /\ d.time = 0 /\ d.events = 0
    BY DEF Nothing, Idle, Sent, StatusSet, AxisStates
LEMMA StatusStarts == FeedInit => StatusInd
<1> SUFFICES ASSUME FeedInit PROVE StatusInd
    OBVIOUS
<1>1. server = [boot |-> 1, seq |-> 1, time |-> 1, events |-> 0, axis |-> "disarmed"]
    BY DEF FeedInit
<1>2. server \in StatusSet /\ server.axis \in AxisStates /\ server.boot = 1 /\ server.time = 1
      /\ server.seq = 1 /\ server.events = 0
    BY <1>1 DEF StatusSet, AxisStates
<1>3. ServerOK
    BY <1>2, StatusFeedAssumption DEF ServerOK
<1>4. \A d \in {Nothing, Idle, Sent} : Known(d)
    BY <1>2, SpecialStatuses, StatusFeedAssumption DEF Known
<1>5. streamSeq \in 0..MaxSamples /\ lastEvent \in 0..MaxSamples
  <2>1. streamSeq = 0 /\ lastEvent = 0 /\ MaxSamples \in Nat
    BY StatusFeedAssumption DEF FeedInit
  <2>2. QED
    BY <2>1
<1>6. PageKnows
    BY <1>4, <1>5, SpecialStatuses DEF FeedInit, PageKnows, AxisStates
<1>7. SourcesMoveOn
    BY SpecialStatuses DEF FeedInit, SourcesMoveOn
<1>8. QED
    BY <1>3, <1>6, <1>7 DEF StatusInd

\* A step of the server: its time goes on, and what the page knows stays known.
LEMMA ServerMovesOn ==
    ASSUME StatusInd, ServerOK', server.time <= server'.time,
           UNCHANGED <<wire, fetched, shownFrom, streamSeq, pending, renderTimer, renderVars>>,
           told' \in 0..MaxSamples
    PROVE  StatusInd'
<1>1. \A d : Known(d) => Known(d)'
    BY DEF Known, StatusInd, ServerOK, StatusSet
<1>2. PageKnows'
    BY <1>1 DEF StatusInd, PageKnows, renderVars
<1>3. SourcesMoveOn'
    BY DEF StatusInd, SourcesMoveOn, renderVars
<1>4. QED
    BY <1>2, <1>3 DEF StatusInd

\* A step that leaves the statuses alone, or sends a fetch, or ends a stream.
LEMMA FetchStarts ==
    ASSUME StatusInd, UNCHANGED <<shownFrom, streamSeq, pending, renderVars, server>>,
           fetched' \in {fetched, Sent},
           UNCHANGED <<wire, told>> \/ (wire' = {} /\ told' = 0)
    PROVE  StatusInd'
<1>1. \A d : Known(d)' <=> Known(d)
    BY DEF Known
<1>2. Known(Sent)
    BY SpecialStatuses, StatusFeedAssumption DEF StatusInd, ServerOK, Known
<1>3. PageKnows'
    BY <1>1, <1>2, StatusFeedAssumption DEF StatusInd, PageKnows, renderVars, wireVars
<1>4. SourcesMoveOn'
    BY DEF StatusInd, SourcesMoveOn, renderVars, wireVars
<1>5. QED
    BY <1>3, <1>4 DEF StatusInd, ServerOK

LEMMA StatusStep == StatusInd /\ [FeedNext]_feedVars => StatusInd'
<1> SUFFICES ASSUME StatusInd, [FeedNext]_feedVars PROVE StatusInd'
    OBVIOUS
<1>1. ASSUME NEW i \in DOMAIN socket, OpenEvent(i) \/ ErrorEvent(i) PROVE StatusInd'
    BY <1>1, FetchStarts DEF OpenEvent, ErrorEvent, DropUnheard, wireVars
<1>2. ASSUME NEW i \in DOMAIN socket, CloseEvent(i) PROVE StatusInd'
    BY <1>2, FetchStarts DEF CloseEvent, Refresh, DropUnheard, wireVars
<1>3. CASE PageEvents \/ ReconnectFires
    BY <1>3, FetchStarts DEF PageEvents, Suspend, BackOnline, PointerDown, ReconnectFires,
                             DropUnheard, wireVars
<1>4. CASE PollFires
    BY <1>4, FetchStarts DEF PollFires, Refresh, wireVars
<1>5. CASE ServeStatus
  <2>1. fetched' = server /\ fetched # Idle
        /\ UNCHANGED <<wireVars, shownFrom, streamSeq, pending, renderVars, server>>
    BY <1>5, SpecialStatuses DEF ServeStatus
  <2>2. \A d : Known(d)' <=> Known(d)
    BY <2>1 DEF Known
  <2>3. Known(server) /\ server.axis \in AxisStates
    BY StatusFeedAssumption DEF StatusInd, ServerOK, Known, StatusSet
  <2>4. PageKnows'
    BY <2>1, <2>2, <2>3 DEF StatusInd, PageKnows, renderVars, wireVars
  <2>5. SourcesMoveOn'
    BY <2>1 DEF StatusInd, SourcesMoveOn, PageKnows, Known, renderVars, wireVars
  <2>6. QED
    BY <2>1, <2>4, <2>5 DEF StatusInd, ServerOK
<1>6. CASE PollAnswer
  <2> DEFINE d == IF fetched = Sent THEN [Nothing EXCEPT !.time = server.time] ELSE fetched
  <2>1. fetched # Idle /\ fetched' = Idle /\ Render(d)
        /\ shownFrom' = "poll" /\ UNCHANGED <<wireVars, streamSeq, pending, server>>
    BY <1>6 DEF PollAnswer
  <2>2. Known(d) /\ d.axis \in AxisStates
    <3>1. [Nothing EXCEPT !.time = server.time].time = server.time
          /\ [Nothing EXCEPT !.time = server.time].events = 0
          /\ [Nothing EXCEPT !.time = server.time].axis = "missing"
          /\ [Nothing EXCEPT !.time = server.time] \in StatusSet
        BY DEF Nothing, StatusInd, ServerOK, StatusSet, AxisStates
    <3>2. CASE fetched = Sent
        BY <3>1, <3>2, StatusFeedAssumption DEF Known, AxisStates, StatusInd, ServerOK, StatusSet
    <3>3. CASE fetched # Sent
        BY <2>1, <3>3 DEF StatusInd, PageKnows
    <3>4. QED
        BY <3>2, <3>3
  <2> HIDE DEF d
  <2>3. latest' = d /\ axisShown' \in AxisStates
        /\ lastEvent' = IF d.events > lastEvent THEN d.events ELSE lastEvent
    BY <2>1, <2>2, Rendered DEF StatusInd, PageKnows, Known
  <2>4. \A e : Known(e)' <=> Known(e)
    BY <2>1 DEF Known
  <2>5. Known(Idle)
    BY SpecialStatuses, StatusFeedAssumption DEF StatusInd, ServerOK, Known
  <2>6. lastEvent' \in 0..MaxSamples
    BY <2>2, <2>3, StatusFeedAssumption DEF StatusInd, PageKnows, Known, StatusSet
  <2>7. SourcesMoveOn'
    BY <2>1 DEF StatusInd, SourcesMoveOn, wireVars
  <2>8. PageKnows'
    BY <2>1, <2>2, <2>3, <2>4, <2>5, <2>6 DEF StatusInd, PageKnows, wireVars
  <2>9. QED
    BY <2>1, <2>7, <2>8 DEF StatusInd, ServerOK
<1>7. CASE Message
  <2>1. PICK d \in wire : (\A e \in wire : d.time <= e.time) /\ Handle(d)
    BY <1>7 DEF Message
  <2>2. /\ wire' = wire \ {d}
        /\ UNCHANGED <<told, fetched, shownFrom, latest, axisShown, lastEvent, server>>
        /\ \/ streamSeq' = streamSeq /\ pending' = pending
           \/ streamSeq' = d.seq /\ pending' = d
    BY <2>1 DEF Handle
  <2>3. \A e : Known(e)' <=> Known(e)
    BY <2>2 DEF Known
  <2>4. Known(d) /\ d.axis \in AxisStates /\ d.seq \in 0..MaxSamples
    BY StatusFeedAssumption DEF StatusInd, PageKnows, Known, StatusSet
  <2>5. PageKnows'
    BY <2>2, <2>3, <2>4 DEF StatusInd, PageKnows
  <2>6. SourcesMoveOn'
    BY <2>1, <2>2 DEF StatusInd, SourcesMoveOn
  <2>7. QED
    BY <2>2, <2>5, <2>6 DEF StatusInd, ServerOK
<1>13. CASE SendMessage
  <2>1. wire' = wire \cup {server} /\ told' = server.seq
        /\ UNCHANGED <<fetched, shownFrom, streamSeq, pending, renderVars, server>>
    BY <1>13 DEF SendMessage
  <2>2. \A e : Known(e)' <=> Known(e)
    BY <2>1 DEF Known
  <2>3. Known(server) /\ server.axis \in AxisStates /\ server.time # 0
        /\ server.seq <= MaxSamples /\ server.seq \in 0..MaxSamples
    BY StatusFeedAssumption DEF StatusInd, ServerOK, Known, StatusSet
  <2>4. PageKnows'
    BY <2>1, <2>2, <2>3 DEF StatusInd, PageKnows, renderVars
  <2>5. SourcesMoveOn'
    BY <2>1 DEF StatusInd, SourcesMoveOn, PageKnows, Known, renderVars
  <2>6. QED
    BY <2>1, <2>4, <2>5 DEF StatusInd, ServerOK
<1>8. CASE RenderFires
  <2>1. pending' = Nothing /\ UNCHANGED <<wireVars, fetched, streamSeq, server>>
        /\ IF pending = Nothing THEN UNCHANGED <<renderVars, shownFrom>>
           ELSE Render(pending) /\ shownFrom' = "stream"
    BY <1>8 DEF RenderFires
  <2>2. \A d : Known(d)' <=> Known(d)
    BY <2>1 DEF Known
  <2>3. Known(Nothing) /\ Nothing.axis \in AxisStates
    BY SpecialStatuses, StatusFeedAssumption DEF StatusInd, ServerOK, Known, AxisStates
  <2>4. ServerOK'
    BY <2>1 DEF StatusInd, ServerOK
  <2>5. CASE pending = Nothing
    <3>1. PageKnows' /\ SourcesMoveOn'
        BY <2>1, <2>2, <2>5 DEF StatusInd, PageKnows, SourcesMoveOn, renderVars, wireVars
    <3>2. QED
        BY <2>4, <3>1 DEF StatusInd
  <2>6. CASE pending # Nothing
    <3>1. latest' = pending /\ axisShown' \in AxisStates
          /\ lastEvent' = IF pending.events > lastEvent THEN pending.events ELSE lastEvent
        BY <2>1, <2>6, Rendered DEF StatusInd, PageKnows, Known
    <3>2. lastEvent' \in 0..MaxSamples
        BY <3>1, StatusFeedAssumption DEF StatusInd, PageKnows, Known, StatusSet
    <3>3. PageKnows'
        BY <2>1, <2>2, <2>3, <2>6, <3>1, <3>2 DEF StatusInd, PageKnows, wireVars
    <3>4. SourcesMoveOn'
        BY <2>1, <2>6, <3>1 DEF StatusInd, SourcesMoveOn, wireVars
    <3>5. QED
        BY <2>4, <3>3, <3>4 DEF StatusInd
  <2>7. QED
    BY <2>5, <2>6
<1>9. CASE Sample
  <2>1. PICK state \in Reports, fault \in {0, 1} :
            server' = [server EXCEPT !.seq = @ + 1, !.time = @ + 1, !.axis = state, !.events = @ + fault]
    BY <1>9 DEF Sample
  <2>2. server.time < MaxSamples
        /\ UNCHANGED <<wireVars, fetched, shownFrom, streamSeq, pending, renderTimer, renderVars>>
    BY <1>9 DEF Sample
  <2>3. /\ server'.axis = state /\ server'.boot = server.boot
        /\ server'.time = server.time + 1 /\ server'.seq = server.seq + 1
        /\ server'.events = server.events + fault
        /\ server' \in StatusSet
    <3>1. state \in AxisStates /\ fault \in Nat /\ server \in StatusSet
        BY StatusFeedAssumption DEF StatusInd, ServerOK, AxisStates
    <3>2. /\ server.boot \in Nat /\ server.seq + 1 \in Nat /\ server.time + 1 \in Nat
          /\ server.events + fault \in Nat
        BY <3>1 DEF StatusSet
    <3>3. server' = [boot |-> server.boot, seq |-> server.seq + 1, time |-> server.time + 1,
                     events |-> server.events + fault, axis |-> state]
        BY <2>1, <3>1 DEF StatusSet
    <3>4. QED
        BY <3>1, <3>2, <3>3 DEF StatusSet
  <2>4. ServerOK'
    BY <2>2, <2>3, StatusFeedAssumption DEF StatusInd, ServerOK, StatusSet, AxisStates
  <2>5. QED
    BY <2>2, <2>3, <2>4, ServerMovesOn DEF StatusInd, ServerOK, PageKnows, wireVars
<1>10. CASE Restart
  <2>1. server.boot < MaxBoots /\ server.time < MaxSamples
        /\ server' = [boot |-> server.boot + 1, seq |-> 1, time |-> server.time + 1,
                      events |-> 0, axis |-> "disarmed"]
        /\ UNCHANGED <<wire, fetched, shownFrom, streamSeq, pending, renderTimer, renderVars>>
        /\ told' \in {told, MaxSamples}
    BY <1>10 DEF Restart
  <2>2. ServerOK'
    BY <2>1, StatusFeedAssumption DEF StatusInd, ServerOK, StatusSet, AxisStates
  <2>3. QED
    BY <2>1, <2>2, StatusFeedAssumption, ServerMovesOn DEF StatusInd, ServerOK, PageKnows
<1>11. CASE UNCHANGED feedVars
    BY <1>11, FetchStarts DEF feedVars, wireVars
<1>12. QED
    BY <1>1, <1>2, <1>3, <1>4, <1>5, <1>6, <1>7, <1>8, <1>9, <1>10, <1>11, <1>13
    DEF FeedNext, SocketEvents, Timers, Arrivals, StatusServer
-----------------------------------------------------------------------------
(* The log of drive events *)

\* The ids of the log grow, and none is above the last one; until the server restarts,
\* every id up to the last one is there with the first start.
Logged(log, last, first) ==
    /\ log \in Seq(Nat \X Nat)
    /\ \A i, j \in DOMAIN log : i < j => log[i][2] < log[j][2]
    /\ \A i \in DOMAIN log : log[i][2] \in 1..last
    /\ first => \A e \in 1..last : \E i \in DOMAIN log : log[i] = <<1, e>>

FirstBoot(d) == d.events > 0 => d.boot = 1

EventsInd ==
    /\ Logged(driveLog, lastEvent, server.boot = 1)
    /\ latest.events <= lastEvent
    /\ server.boot = 1 => /\ FirstBoot(pending) /\ FirstBoot(fetched)
                          /\ \A d \in wire : FirstBoot(d)

\* How many of the numbers above a are at most e.
LEMMA CountUpTo ==
    ASSUME NEW a \in Nat, NEW b \in Nat, NEW e \in (a + 1)..b
    PROVE  Cardinality({f \in (a + 1)..b : f <= e}) = e - a
<1>1. {f \in (a + 1)..b : f <= e} = (a + 1)..e
    OBVIOUS
<1>2. a + 1 \in Int /\ e \in Int
    OBVIOUS
<1>3. Cardinality((a + 1)..e) = IF a + 1 > e THEN 0 ELSE e - (a + 1) + 1
    BY <1>2, FS_Interval, Zenon
<1>4. Cardinality((a + 1)..e) = e - a
    BY <1>3
<1>5. QED
    BY <1>1, <1>4, Zenon

\* A log to which the next ids are appended.
LEMMA LogGrows ==
    ASSUME NEW log, NEW last \in Nat, NEW first \in BOOLEAN, Logged(log, last, first),
           NEW n \in Nat, NEW boot \in Nat, first => n = 0 \/ boot = 1
    PROVE  Logged(log \o [i \in 1..n |-> <<boot, last + i>>], last + n, first)
<1> DEFINE len == Len(log)
           more == [i \in 1..n |-> <<boot, last + i>>]
           whole == log \o more
<1>1. log \in Seq(Nat \X Nat) /\ len \in Nat /\ DOMAIN log = 1..len
    BY DEF Logged
<1>2. more \in Seq(Nat \X Nat) /\ Len(more) = n /\ \A i \in 1..n : more[i] = <<boot, last + i>>
    OBVIOUS
<1> HIDE DEF more
<1>3. /\ whole \in Seq(Nat \X Nat) /\ Len(whole) = len + n
      /\ \A i \in 1..(len + n) : whole[i] = IF i <= len THEN log[i] ELSE more[i - len]
    BY <1>1, <1>2, ConcatProperties, Zenon
<1> HIDE DEF whole, len
<1>4. DOMAIN whole = 1..(len + n)
    BY <1>1, <1>3
<1>5. \A i \in 1..len : i \in DOMAIN whole /\ whole[i] = log[i] /\ log[i][2] \in 1..last
  <2> TAKE i \in 1..len
  <2>1. i \in 1..(len + n) /\ i <= len /\ i \in DOMAIN log
    BY <1>1
  <2>2. log[i][2] \in 1..last
    BY <2>1 DEF Logged
  <2>3. QED
    BY <1>3, <1>4, <2>1, <2>2
<1>6. \A i \in 1..n : len + i \in DOMAIN whole /\ whole[len + i] = <<boot, last + i>>
  <2> TAKE i \in 1..n
  <2>1. len + i \in 1..(len + n) /\ ~(len + i <= len) /\ (len + i) - len = i
    BY <1>1
  <2>2. QED
    BY <1>2, <1>3, <1>4, <2>1
<1>7. \A i \in DOMAIN whole : i \in 1..len \/ (i - len \in 1..n /\ len + (i - len) = i)
    BY <1>1, <1>4
<1>8. \A i \in DOMAIN whole : i \notin 1..len => whole[i][2] = last + (i - len)
  <2> SUFFICES ASSUME NEW i \in DOMAIN whole, i \notin 1..len
               PROVE  whole[i][2] = last + (i - len)
    OBVIOUS
  <2>1. whole[len + (i - len)] = <<boot, last + (i - len)>> /\ len + (i - len) = i
    BY <1>6, <1>7
  <2>2. QED
    BY <2>1
<1>9. \A i \in DOMAIN whole : whole[i][2] \in 1..(last + n)
  <2> TAKE i \in DOMAIN whole
  <2>1. CASE i \in 1..len
    BY <1>5, <2>1
  <2>2. CASE i \notin 1..len
    BY <1>7, <1>8, <2>2
  <2>3. QED
    BY <2>1, <2>2
<1>10. ASSUME NEW i \in DOMAIN whole, NEW j \in DOMAIN whole, i < j
       PROVE  whole[i][2] < whole[j][2]
  <2>0. i \in Int /\ j \in Int
    BY <1>4
  <2>1. CASE j \in 1..len
    <3>1. i \in 1..len
        BY <1>1, <1>4, <1>10, <2>1
    <3>2. log[i][2] < log[j][2]
        BY <1>1, <1>10, <2>1, <3>1 DEF Logged
    <3>3. QED
        BY <1>5, <2>1, <3>1, <3>2
  <2>2. CASE j \notin 1..len /\ i \in 1..len
    <3>1. whole[j][2] = last + (j - len) /\ j - len \in 1..n /\ whole[i][2] \in 1..last
        BY <1>5, <1>7, <1>8, <2>2
    <3>2. QED
        BY <3>1
  <2>3. CASE j \notin 1..len /\ i \notin 1..len
    <3>1. whole[j][2] = last + (j - len) /\ whole[i][2] = last + (i - len)
        BY <1>8, <2>3
    <3>2. QED
        BY <1>1, <1>10, <2>0, <3>1
  <2>4. CASE j \in 1..len /\ i \notin 1..len
    BY <1>1, <1>4, <1>10, <2>4
  <2>5. QED
    BY <2>1, <2>2, <2>3
<1>11. ASSUME first, NEW e \in 1..(last + n)
       PROVE  \E i \in DOMAIN whole : whole[i] = <<1, e>>
  <2>1. CASE e <= last
    <3>1. PICK i \in DOMAIN log : log[i] = <<1, e>>
        BY <1>11, <2>1 DEF Logged
    <3>2. QED
        BY <1>1, <1>5, <3>1
  <2>2. CASE e > last
    <3>1. e - last \in 1..n /\ boot = 1 /\ last + (e - last) = e
        BY <1>11, <2>2
    <3>2. len + (e - last) \in DOMAIN whole
          /\ whole[len + (e - last)] = <<boot, last + (e - last)>>
        BY <1>6, <3>1
    <3>3. QED
        BY <3>1, <3>2
  <2>3. QED
    BY <2>1, <2>2
<1>12. Logged(whole, last + n, first)
    BY <1>3, <1>9, <1>10, <1>11 DEF Logged
<1>13. QED
    BY <1>12 DEF whole, more
\* The drive events of a status, logged.
LEMMA RenderLogs ==
    ASSUME NEW d \in StatusSet, lastEvent \in Nat, Render(d), NEW first \in BOOLEAN,
           Logged(driveLog, lastEvent, first), first => FirstBoot(d)
    PROVE  Logged(driveLog', lastEvent', first) /\ d.events <= lastEvent'
<1> DEFINE fresh == NewEvents(d)
           n == Cardinality(fresh)
           count(e) == Cardinality({f \in fresh : f <= e})
           nth(i) == CHOOSE e \in fresh : count(e) = i
           ids == [i \in 1..n |-> <<d.boot, nth(i)>>]
<1>1. d.events \in Nat /\ d.boot \in Nat
    BY DEF StatusSet
<1>2. fresh = (lastEvent + 1)..d.events
      /\ n = IF d.events > lastEvent THEN d.events - lastEvent ELSE 0
    BY NewEventsInterval
<1>3. driveLog' = driveLog \o ids
      /\ lastEvent' = IF fresh = {} THEN lastEvent ELSE Max(fresh)
    BY DEF Render
<1> HIDE DEF fresh, n
<1>4. lastEvent' = IF d.events > lastEvent THEN d.events ELSE lastEvent
  <2>1. CASE d.events > lastEvent
    <3>1. lastEvent + 1 \in Int /\ d.events \in Int /\ lastEvent + 1 <= d.events
        BY <1>1, <2>1
    <3>2. Max((lastEvent + 1)..d.events) = d.events
        BY <3>1, MaxOfInterval
    <3>3. fresh # {}
        BY <1>2, <3>1
    <3>4. QED
        BY <1>2, <1>3, <2>1, <3>2, <3>3
  <2>2. CASE ~(d.events > lastEvent)
    <3>1. fresh = {}
        BY <1>1, <1>2, <2>2
    <3>2. QED
        BY <1>3, <2>2, <3>1
  <2>3. QED
    BY <2>1, <2>2
<1>5. ids = [i \in 1..n |-> <<d.boot, lastEvent + i>>]
  <2>1. ASSUME NEW i \in 1..n PROVE nth(i) = lastEvent + i
    <3>1. \A e \in fresh : count(e) = e - lastEvent
        BY <1>1, <1>2, CountUpTo
    <3> HIDE DEF count
    <3>2. lastEvent + i \in fresh
        BY <1>1, <1>2, <2>1
    <3>3. \A e \in fresh : count(e) = i <=> e = lastEvent + i
        BY <1>1, <1>2, <2>1, <3>1
    <3>4. QED
        BY <3>2, <3>3
  <2> HIDE DEF nth
  <2>2. QED
    BY <2>1
<1> HIDE DEF nth
<1> HIDE DEF ids
<1>6. n \in Nat /\ lastEvent' = lastEvent + n /\ d.events <= lastEvent'
    BY <1>1, <1>2, <1>4
<1>7. first => n = 0 \/ d.boot = 1
    BY <1>1, <1>2 DEF FirstBoot
<1>8. Logged(driveLog \o [i \in 1..n |-> <<d.boot, lastEvent + i>>], lastEvent + n, first)
    BY <1>1, <1>6, <1>7, LogGrows
<1>9. QED
    BY <1>3, <1>5, <1>6, <1>8

\* A step that logs nothing.
LEMMA LogStays ==
    ASSUME EventsInd, UNCHANGED <<latest, lastEvent, driveLog>>,
           server'.boot = 1 => /\ server.boot = 1 /\ FirstBoot(pending') /\ FirstBoot(fetched')
                               /\ \A d \in wire' : FirstBoot(d)
    PROVE  EventsInd'
    BY DEF EventsInd, Logged, FirstBoot

\* A step that renders a status.
LEMMA LogRenders ==
    ASSUME StatusInd, EventsInd, NEW d \in StatusSet, server.boot = 1 => FirstBoot(d),
           Render(d), UNCHANGED <<wire, server>>, fetched' \in {fetched, Idle}, pending' \in {pending, Nothing}
    PROVE  EventsInd'
<1>1. Logged(driveLog', lastEvent', server.boot = 1) /\ d.events <= lastEvent'
  <2>1. lastEvent \in Nat /\ (server.boot = 1) \in BOOLEAN
    BY StatusFeedAssumption DEF StatusInd, PageKnows
  <2>2. QED
    BY <2>1, RenderLogs DEF EventsInd
<1>2. FirstBoot(Idle) /\ FirstBoot(Nothing)
    BY DEF FirstBoot, Idle, Nothing
<1>3. latest' = d
    BY DEF Render
<1>4. QED
    BY <1>1, <1>2, <1>3 DEF EventsInd, FirstBoot

LEMMA LogStarts == FeedInit => EventsInd
<1> SUFFICES ASSUME FeedInit PROVE EventsInd
    OBVIOUS
<1>1. driveLog = <<>> /\ lastEvent = 0
    BY DEF FeedInit
<1>2. Logged(driveLog, lastEvent, server.boot = 1)
    BY <1>1 DEF Logged
<1>3. \A d \in {Nothing, Idle} : d.events = 0 /\ FirstBoot(d)
    BY DEF Nothing, Idle, FirstBoot
<1>4. QED
    BY <1>1, <1>2, <1>3 DEF FeedInit, EventsInd

LEMMA LogStep == StatusInd /\ EventsInd /\ [FeedNext]_feedVars => EventsInd'
<1> SUFFICES ASSUME StatusInd, EventsInd, [FeedNext]_feedVars PROVE EventsInd'
    OBVIOUS
<1>0. \A d \in {Nothing, Idle, Sent} : FirstBoot(d)
    BY DEF Nothing, Idle, Sent, FirstBoot
<1>1. ASSUME NEW i \in DOMAIN socket, OpenEvent(i) \/ ErrorEvent(i) PROVE EventsInd'
    BY <1>1, LogStays DEF OpenEvent, ErrorEvent, DropUnheard, wireVars, renderVars, EventsInd
<1>2. ASSUME NEW i \in DOMAIN socket, CloseEvent(i) PROVE EventsInd'
    BY <1>0, <1>2, LogStays DEF CloseEvent, Refresh, DropUnheard, wireVars, renderVars, EventsInd
<1>3. CASE PageEvents \/ ReconnectFires
    BY <1>3, LogStays DEF PageEvents, Suspend, BackOnline, PointerDown, ReconnectFires,
                          DropUnheard, wireVars, renderVars, EventsInd
<1>4. CASE PollFires
    BY <1>0, <1>4, LogStays DEF PollFires, Refresh, wireVars, renderVars, EventsInd
<1>5. CASE ServeStatus
    BY <1>5, LogStays DEF ServeStatus, wireVars, renderVars, EventsInd, FirstBoot
<1>6. CASE PollAnswer
  <2> DEFINE d == IF fetched = Sent THEN [Nothing EXCEPT !.time = server.time] ELSE fetched
  <2>1. fetched' = Idle /\ Render(d) /\ UNCHANGED <<wire, pending, server>>
    BY <1>6 DEF PollAnswer, wireVars
  <2>2. d \in StatusSet /\ (server.boot = 1 => FirstBoot(d))
    <3>1. [Nothing EXCEPT !.time = server.time].events = 0
          /\ [Nothing EXCEPT !.time = server.time] \in StatusSet
        BY DEF Nothing, StatusInd, ServerOK, StatusSet, AxisStates
    <3>2. fetched \in StatusSet /\ (server.boot = 1 => FirstBoot(fetched))
        BY DEF StatusInd, PageKnows, Known, EventsInd
    <3>3. QED
        BY <3>1, <3>2 DEF FirstBoot
  <2> HIDE DEF d
  <2>3. QED
    BY <2>1, <2>2, LogRenders
<1>7. CASE Message
  <2>1. PICK d \in wire : Handle(d)
    BY <1>7 DEF Message
  <2>2. /\ UNCHANGED <<fetched, latest, lastEvent, driveLog, server>>
        /\ wire' = wire \ {d} /\ pending' \in {pending, d}
    BY <2>1 DEF Handle
  <2>3. QED
    BY <2>1, <2>2, LogStays DEF EventsInd
<1>13. CASE SendMessage
    BY <1>13, LogStays DEF SendMessage, renderVars, EventsInd, FirstBoot
<1>8. CASE RenderFires
  <2>1. pending' = Nothing /\ UNCHANGED <<wire, fetched, server>>
        /\ IF pending = Nothing THEN UNCHANGED renderVars ELSE Render(pending)
    BY <1>8 DEF RenderFires, wireVars
  <2>2. CASE pending = Nothing
    BY <1>0, <2>1, <2>2, LogStays DEF renderVars, EventsInd
  <2>3. CASE pending # Nothing
    <3>1. pending \in StatusSet /\ (server.boot = 1 => FirstBoot(pending))
        BY DEF StatusInd, PageKnows, Known, EventsInd
    <3>2. QED
        BY <2>1, <2>3, <3>1, LogRenders
  <2>4. QED
    BY <2>2, <2>3
<1>9. CASE Sample
  <2>1. server'.boot = server.boot
    BY <1>9 DEF Sample, StatusInd, ServerOK, StatusSet
  <2>2. QED
    BY <1>9, <2>1, LogStays DEF Sample, wireVars, renderVars, EventsInd
<1>10. CASE Restart
  <2>1. server'.boot # 1
    BY <1>10 DEF Restart, StatusInd, ServerOK, StatusSet
  <2>2. QED
    BY <1>10, <2>1, LogStays DEF Restart, renderVars
<1>11. CASE UNCHANGED feedVars
    BY <1>11, LogStays DEF feedVars, wireVars, renderVars, EventsInd
<1>12. QED
    BY <1>1, <1>2, <1>3, <1>4, <1>5, <1>6, <1>7, <1>8, <1>9, <1>10, <1>11, <1>13
    DEF FeedNext, SocketEvents, Timers, Arrivals, StatusServer
-----------------------------------------------------------------------------
(* What a reader of the pages may rely on *)

LEMMA FeedReachable == FeedPagesSpec => [](LinkInd /\ StatusInd /\ EventsInd)
<1>1. FeedInit => LinkInd /\ StatusInd /\ EventsInd
    BY LinkStarts, StatusStarts, LogStarts
<1>2. LinkInd /\ StatusInd /\ EventsInd /\ [FeedPagesNext]_feedVars
          => (LinkInd /\ StatusInd /\ EventsInd)'
    BY FeedPageStep, LinkStep, StatusStep, LogStep
<1>3. QED
    BY <1>1, <1>2, PTL DEF FeedPagesSpec

\* One live socket, nothing while the page is suspended, polling beside a stream only
\* after a late close, and the newest message always about to be rendered
\* (connectStatusStream and its listeners).
THEOREM ConnectionHolds == FeedPagesSpec => []FeedInv
<1>1. ASSUME LinkInd, StatusInd PROVE FeedInv
  <2>1. OneLiveSocket
    <3> DEFINE live == {i \in DOMAIN socket : Live(socket[i])}
    <3>1. live \subseteq {Newest}
        BY <1>1 DEF LinkInd, OnlyNewestIsLive
    <3> HIDE DEF live
    <3>2. IsFiniteSet({Newest}) /\ Cardinality({Newest}) = 1
        BY FS_Singleton, Zenon
    <3>3. Cardinality(live) <= Cardinality({Newest})
        BY <3>1, <3>2, FS_Subset, Zenon
    <3>4. Cardinality(live) <= 1
        BY <3>2, <3>3
    <3>5. QED
        BY <3>4 DEF live, OneLiveSocket
  <2>2. \A d \in wire : d.time \in 1..server.time
    BY <1>1 DEF StatusInd, ServerOK, PageKnows, Known, StatusSet
  <2>3. FeedTypeOK
    BY <1>1, <2>2 DEF LinkInd, LinkTypeOK, SocketStates, StatusInd, ServerOK, PageKnows, FeedTypeOK
  <2>4. QED
    BY <1>1, <2>1, <2>3 DEF LinkInd, FeedInv
<1>2. QED
    BY <1>1, FeedReachable, PTL

\* The stream by itself never takes the page back in time, and neither does polling,
\* whatever is in flight, across reconnections and restarts (refreshStatus beside
\* queueStreamStatusRender).
THEOREM PageMovesOn == FeedPagesSpec => GoesBackOnlyAcrossSources
<1> DEFINE crosses == {shownFrom, shownFrom'} = {"stream", "poll"}
<1>1. ASSUME StatusInd, [FeedPagesNext]_feedVars
      PROVE  [latest'.time < latest.time => crosses]_feedVars
  <2>1. CASE UNCHANGED feedVars
    BY <2>1
  <2>2. CASE FeedNext
    <3>0. latest.time \in Nat /\ pending.time \in Nat /\ fetched.time \in Nat
          /\ server.time \in Nat /\ latest.time <= server.time
        BY <1>1 DEF StatusInd, ServerOK, PageKnows, Known, StatusSet
    <3>1. CASE latest' = latest
        BY <3>0, <3>1
    <3>2. CASE PollAnswer
      <4>1. shownFrom' = "poll" /\ fetched # Idle
            /\ latest' = IF fetched = Sent THEN [Nothing EXCEPT !.time = server.time] ELSE fetched
        BY <3>2 DEF PollAnswer, Render
      <4>2. [Nothing EXCEPT !.time = server.time].time = server.time
        BY DEF Nothing
      <4>3. shownFrom # "stream" => latest.time <= latest'.time
        BY <1>1, <3>0, <4>1, <4>2 DEF StatusInd, PageKnows, SourcesMoveOn
      <4>4. latest'.time \in Nat
        BY <3>0, <4>1, <4>2
      <4>5. QED
        BY <3>0, <4>1, <4>3, <4>4
    <3>3. CASE RenderFires /\ latest' # latest
      <4>1. pending # Nothing /\ latest' = pending /\ shownFrom' = "stream"
        BY <3>3 DEF RenderFires, Render, renderVars
      <4>2. shownFrom # "poll" => latest.time <= latest'.time
        BY <1>1, <3>0, <4>1 DEF StatusInd, PageKnows, SourcesMoveOn
      <4>3. QED
        BY <3>0, <4>1, <4>2
    <3>4. latest' = latest \/ PollAnswer \/ RenderFires
        BY <2>2 DEF FeedNext, SocketEvents, PageEvents, Timers, Arrivals, StatusServer,
                    OpenEvent, CloseEvent, ErrorEvent, Suspend, BackOnline, PointerDown,
                    ReconnectFires, PollFires, ServeStatus, SendMessage, Message, Handle,
                    Sample, Restart, renderVars
    <3>5. QED
        BY <3>1, <3>2, <3>3, <3>4
  <2>3. QED
    BY <1>1, <2>1, <2>2, FeedPageStep
<1>2. QED
    BY <1>1, FeedReachable, PTL DEF FeedPagesSpec, GoesBackOnlyAcrossSources

\* A drive event is logged once, and until the server restarts none that a shown
\* status carries is missing (renderDriveErrorEvents).
THEOREM DriveEventsAreLogged == FeedPagesSpec => []DriveLogInv
<1>1. ASSUME StatusInd, EventsInd PROVE DriveLogInv
  <2>1. EventsLoggedOnce
    <3> SUFFICES ASSUME NEW i \in DOMAIN driveLog, NEW j \in DOMAIN driveLog,
                        driveLog[i] = driveLog[j], i # j
                 PROVE  FALSE
        BY DEF EventsLoggedOnce
    <3>1. i \in Nat /\ j \in Nat /\ driveLog[i][2] \in Int
        BY <1>1 DEF EventsInd, Logged
    <3>2. i < j \/ j < i
        BY <3>1
    <3>3. driveLog[i][2] < driveLog[j][2] \/ driveLog[j][2] < driveLog[i][2]
        BY <1>1, <3>2 DEF EventsInd, Logged
    <3>4. QED
        BY <3>1, <3>3
  <2>2. FirstBootEventsLogged
    <3> SUFFICES ASSUME server.boot = 1, NEW e \in 1..latest.events
                 PROVE  <<1, e>> \in Range(driveLog)
        BY DEF FirstBootEventsLogged
    <3>1. latest.events \in Nat /\ lastEvent \in Nat
        BY <1>1, StatusFeedAssumption DEF StatusInd, PageKnows, Known, StatusSet
    <3>2. e \in 1..lastEvent
        BY <1>1, <3>1 DEF EventsInd
    <3>3. PICK i \in DOMAIN driveLog : driveLog[i] = <<1, e>>
        BY <1>1, <3>2 DEF EventsInd, Logged
    <3>4. QED
        BY <3>3 DEF Range
  <2>3. QED
    BY <2>1, <2>2 DEF DriveLogInv
<1>2. QED
    BY <1>1, FeedReachable, PTL
=============================================================================
