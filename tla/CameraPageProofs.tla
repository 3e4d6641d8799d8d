-------------------------- MODULE CameraPageProofs --------------------------
(***************************************************************************)
(* Proofs about the camera page: the types, the one cycle of its stream,   *)
(* the pictures of one pair, and the order of its jog commands, for any    *)
(* number of sessions, frames, restarts of the server and commands.        *)
(***************************************************************************)
EXTENDS CameraPage, TLAPS

\* No cycle is of a later session; a pair that was served has frames of both cameras;
\* while a cycle of the session decodes, the images show its pair, and what is ready is
\* still decoding or was displayed by it.
CyclesOK ==
    /\ \A c \in pool.fresh : pool.seq[c] # 0
    /\ \A cy \in cycles :
          /\ cy.session <= frameSession
          /\ cy.answer = "pair" => \A c \in Cameras : cy.pair[c].seq # 0
          /\ cy.phase = "decode" => cy.answer = "pair" /\ cy.left # {}
          /\ cy.session = frameSession /\ cy.phase = "decode"
                => shownSource = cy.pair /\ readyCameras \subseteq cy.left \cup cy.displayed

FramesInd == FramesInv /\ CyclesOK

\* The newest command that travels has the velocity of the newest command.
JogInd ==
    /\ JogInv
    /\ \A r \in velocities : r[1] = motionSequence => r[2] = lastVelocity
-----------------------------------------------------------------------------
(* The direction control *)

LEMMA NotDirections == 0 \notin Directions /\ MovedBy \notin Directions
BY CameraJogAssumption

LEMMA JogStarts == JogInit => JogInd
<1> SUFFICES ASSUME JogInit PROVE JogInd
    OBVIOUS
<1>1. JogTypeOK
    <2>1. /\ padEnabled \in BOOLEAN /\ padLeft \in BOOLEAN
          /\ driveEnabled \in BOOLEAN /\ dropped \in BOOLEAN
        BY Zenon DEF JogInit
    <2> QED
        BY <2>1 DEF JogInit, JogTypeOK
<1>2. NewestSaysWhatIsHeld /\ HandledStopHolds
    BY NotDirections DEF JogInit, NewestSaysWhatIsHeld, HandledStopHolds
<1> QED
    BY <1>1, <1>2 DEF JogInit, JogInd, JogInv

\* A command that is sent is newer than what was handled, and says what is held.
LEMMA Sent ==
    ASSUME JogInd, NEW v \in Directions \cup {0}, SendVelocity(v), UNCHANGED handled
    PROVE  /\ motionSequence' \in Nat /\ handled' \in 0..motionSequence'
           /\ handled' # motionSequence'
           /\ velocities' \subseteq (1..motionSequence') \X (Directions \cup {0})
           /\ \A r \in velocities' : r[1] = motionSequence' => r[2] = lastVelocity'
           /\ lastVelocity' = v /\ dropped' = FALSE
<1> USE DEF JogInd, JogInv, JogTypeOK, SendVelocity
<1>1. motionSequence' = motionSequence + 1 /\ motionSequence \in Nat
    OBVIOUS
<1>2. ASSUME NEW r \in velocities'
      PROVE  /\ r \in (1..motionSequence') \X (Directions \cup {0})
             /\ r[1] = motionSequence' => r[2] = v
    <2>1. CASE r = <<motionSequence + 1, v>>
        BY <2>1, <1>1
    <2>2. CASE r \in velocities
        <3>1. r \in (1..motionSequence) \X (Directions \cup {0})
            BY <2>2
        <3> QED
            BY <3>1, <1>1
    <2> QED
        BY <2>1, <2>2
<1> QED
    BY <1>1, <1>2

\* The page's own steps: each that changes what is held sends it.
LEMMA PadStep == JogInd /\ PadSteps => JogInd'
<1> SUFFICES ASSUME JogInd, PadSteps PROVE JogInd'
    OBVIOUS
<1> USE DEF JogInd, JogInv, JogTypeOK, NewestSaysWhatIsHeld,
        HandledStopHolds, padPageVars, padServerVars, padHistory
<1>1. ASSUME NEW v \in Directions, PressDirection(v) PROVE JogInd'
    <2>1. /\ SendVelocity(v) /\ UNCHANGED <<handled, jogMotion, driveEnabled, padMode, offsets>>
          /\ activeJog' = v /\ padEnabled' \in BOOLEAN /\ padLeft' \in BOOLEAN
        BY <1>1, Zenon DEF PressDirection
    <2>2. v \in Directions \cup {0}
        OBVIOUS
    <2>3. /\ motionSequence' \in Nat /\ handled' \in 0..motionSequence'
          /\ handled' # motionSequence'
          /\ velocities' \subseteq (1..motionSequence') \X (Directions \cup {0})
          /\ \A r \in velocities' : r[1] = motionSequence' => r[2] = lastVelocity'
          /\ lastVelocity' = v /\ dropped' = FALSE
        BY <2>1, <2>2, Sent
    <2>4. JogTypeOK'
        BY <2>1, <2>2, <2>3
    <2> QED
        BY <2>1, <2>3, <2>4
<1>2. CASE JogHeartbeat
    <2>1. SendVelocity(activeJog) /\ UNCHANGED handled
        BY <1>2 DEF JogHeartbeat
    <2> QED
        BY <1>2, <2>1, Sent DEF JogHeartbeat
<1>3. ASSUME SendVelocity(0), UNCHANGED <<handled, jogMotion, driveEnabled>>, activeJog' = 0,
             padEnabled' = padEnabled, padLeft' \in BOOLEAN,
             padMode' \in {"jog", "offset"}, offsets' = offsets
      PROVE  JogInd'
    BY <1>3, Sent
<1>4. CASE LiftDirection \/ StopPad \/ ChangeMode \/ LeavePad
    BY <1>4, <1>3 DEF LiftDirection, StopPad, ChangeMode, LeavePad
<1>5. CASE ReturnToPad
    BY <1>5 DEF ReturnToPad
<1>6. CASE PressOffset
    BY <1>6 DEF PressOffset
<1>7. CASE StatusComes
    BY <1>7 DEF StatusComes
<1>8. CASE StatusFails
    BY <1>8 DEF StatusFails
<1> QED
    BY <1>1, <1>2, <1>4, <1>5, <1>6, <1>7, <1>8 DEF PadSteps

\* The server's: a command that is handled last is the newest or is no longer the last.
LEMMA ServerStep == JogInd /\ PadServer => JogInd'
<1> SUFFICES ASSUME JogInd, PadServer PROVE JogInd'
    OBVIOUS
<1> USE NotDirections DEF JogInd, JogInv, JogTypeOK, NewestSaysWhatIsHeld,
        HandledStopHolds, padPageVars, padServerVars, padHistory
<1>1. ASSUME NEW r \in velocities, HandleVelocity(r) PROVE JogInd'
    BY <1>1 DEF HandleVelocity
<1>2. ASSUME NEW r \in velocities, LoseVelocity(r) PROVE JogInd'
    BY <1>2 DEF LoseVelocity
<1>3. CASE HandleOffset
    <2>1. padEnabled' \in BOOLEAN /\ UNCHANGED <<driveEnabled, padLeft, dropped>>
        BY <1>3, Zenon DEF HandleOffset
    <2>2. jogMotion' = MovedBy \/ jogMotion' = jogMotion
        BY <1>3, Zenon DEF HandleOffset
    <2>3. /\ offsets' \in Nat
          /\ UNCHANGED <<activeJog, padMode, motionSequence, velocities, handled, lastVelocity>>
        BY <1>3 DEF HandleOffset
    <2> QED
        BY <2>1, <2>2, <2>3
<1>4. CASE LoseOffset
    BY <1>4 DEF LoseOffset
<1>5. CASE JogExpires
    BY <1>5 DEF JogExpires
<1>6. CASE DrivesChange
    BY <1>6 DEF DrivesChange
<1> QED
    BY <1>1, <1>2, <1>3, <1>4, <1>5, <1>6 DEF PadServer

LEMMA JogStep == JogInd /\ [JogNext]_jogVars => JogInd'
<1>1. JogInd /\ UNCHANGED jogVars => JogInd'
    BY DEF JogInd, JogInv, JogTypeOK, NewestSaysWhatIsHeld, HandledStopHolds,
       jogVars, padPageVars, padServerVars, padHistory
<1> QED
    BY <1>1, PadStep, ServerStep DEF JogNext
-----------------------------------------------------------------------------
(* The pictures *)

LEMMA NoPairType == NoPair \in [Cameras -> Frames] /\ \A c \in Cameras : NoPair[c].seq = 0
BY CameraFramesAssumption DEF NoPair, Frames

LEMMA AskingType ==
    ASSUME NEW s \in 1..MaxStreams
    PROVE  /\ Asking(s) \in Cycles /\ Asking(s).session = s
           /\ Asking(s).phase = "fetch" /\ Asking(s).answer = "none"
BY NoPairType DEF Asking, Cycles

\* A cycle between two requests.
LEMMA TimerType ==
    ASSUME NEW s \in 1..MaxStreams
    PROVE  LET t == [Asking(s) EXCEPT !.phase = "timer"] IN
           t \in Cycles /\ t.session = s /\ t.phase = "timer" /\ t.answer = "none"
BY NoPairType DEF Asking, Cycles

LEMMA BrokenType ==
    ASSUME NEW cy \in Cycles
    PROVE  /\ Broken(cy) \in Cycles /\ Broken(cy).session = cy.session
           /\ Broken(cy).phase = "answered" /\ Broken(cy).answer = "error"
<1> cy.session \in 1..MaxStreams
    BY DEF Cycles
<1> QED
    BY NoPairType DEF Broken, Asking, Cycles

LEMMA FramesStart == FramesInit => FramesInd
<1> SUFFICES ASSUME FramesInit PROVE FramesInd
    OBVIOUS
<1>1. 1 \in 1..MaxStreams /\ 1 \in 1..MaxRestarts /\ 0 \in 0..MaxFrames
    BY CameraFramesAssumption
<1>2. pageHidden \in BOOLEAN /\ streaming \in BOOLEAN /\ everShown \in BOOLEAN
    BY Zenon DEF FramesInit
<1>3. pool \in Pools /\ frames \in pool.count..MaxFrames
    BY <1>1, CameraFramesAssumption DEF FramesInit, Pools
<1>4. FramesTypeOK
    BY <1>1, <1>2, <1>3, NoPairType, AskingType DEF FramesInit, FramesTypeOK
<1>5. OneCycle
    BY <1>1, AskingType DEF FramesInit, OneCycle, Mine
<1>6. ReadyIsShown
    BY DEF FramesInit, ReadyIsShown
<1>7. CyclesOK
    BY <1>1, AskingType DEF FramesInit, CyclesOK
<1> QED
    BY <1>4, <1>5, <1>6, <1>7 DEF FramesInd, FramesInv

\* A session that begins, with a cycle of its own or with none.
LEMMA SessionStep ==
    ASSUME FramesInd, ReleaseStreams, NEW starts \in BOOLEAN, streaming' = starts,
           cycles' = Aborted \cup IF starts THEN {Asking(frameSession + 1)} ELSE {},
           pageHidden' \in BOOLEAN
    PROVE  FramesInd'
<1> USE DEF FramesInd, FramesInv
<1>1. frameSession + 1 \in 1..MaxStreams /\ frameSession' = frameSession + 1
    BY CameraFramesAssumption DEF ReleaseStreams, FramesTypeOK
<1>a. frameSession \in Int /\ \A x \in Cycles : x.session \in Int
    BY DEF FramesTypeOK, Cycles
<1>2. \A x \in Aborted : /\ x \in Cycles /\ x.session <= frameSession
                         /\ x.phase = "answered" /\ x.answer = "error"
    BY BrokenType DEF Aborted, FramesTypeOK, CyclesOK
<1>3. \A x \in cycles' :
          \/ x \in Aborted
          \/ starts /\ x = Asking(frameSession + 1)
    OBVIOUS
<1>4. \A x \in cycles' : x.session = frameSession' <=> x = Asking(frameSession') /\ starts
    <2>1. \A x \in Aborted : x.session < frameSession'
        BY <1>1, <1>a, <1>2
    <2> QED
        BY <1>1, <1>3, <2>1, AskingType
<1>5. FramesTypeOK'
    BY <1>1, <1>2, <1>3, AskingType, NoPairType
       DEF FramesTypeOK, ReleaseStreams, poolVars
<1>6. OneCycle'
    <2>1. \A a, b \in Mine' : a = b
        BY <1>4 DEF Mine
    <2>2. starts <=> Mine' # {}
        BY <1>1, <1>4, AskingType DEF Mine
    <2> QED
        BY <2>1, <2>2 DEF OneCycle, ReleaseStreams
<1>7. ReadyIsShown'
    BY DEF ReadyIsShown, ReleaseStreams
<1>8. CyclesOK'
    <2>1. \A x \in cycles' : /\ x.session <= frameSession'
                             /\ x.phase \in {"answered", "fetch"} /\ x.answer \in {"error", "none"}
        BY <1>1, <1>a, <1>2, <1>3, AskingType
    <2> QED
        BY <2>1 DEF CyclesOK, ReleaseStreams, poolVars
<1> QED
    BY <1>5, <1>6, <1>7, <1>8

\* A step of the session's cycle leaves it the only one.
LEMMA OneReplaced ==
    ASSUME FramesInd, NEW cy \in cycles, Current(cy), NEW new \in Cycles,
           new.session = cy.session, Become(cy, new), UNCHANGED <<frameSession, streaming>>
    PROVE  /\ Mine = {cy} /\ Mine' = {new} /\ streaming /\ cycles' \subseteq Cycles
           /\ \A x \in cycles' : x = new \/ (x \in cycles /\ x.session # frameSession)
<1> USE DEF FramesInd, FramesInv, Current, Become, Mine
<1>1. Mine = {cy} /\ streaming
    BY DEF OneCycle
<1>2. \A x \in cycles' : x = new \/ (x \in cycles /\ x.session # frameSession)
    BY <1>1
<1> QED
    BY <1>1, <1>2 DEF FramesTypeOK

\* Who decodes is known from the only cycle.
LEMMA DecodingIs ==
    ASSUME NEW cy, Mine = {cy}, NEW c
    PROVE  Decoding(c) <=> cy.phase = "decode" /\ c \in cy.left
BY DEF Decoding

LEMMA DecodingWillBe ==
    ASSUME NEW cy, Mine' = {cy}, NEW c
    PROVE  Decoding(c)' <=> cy.phase = "decode" /\ c \in cy.left
BY DEF Decoding

\* A step between decodings, which keeps the pictures or takes them all away.
LEMMA QuietStep ==
    ASSUME FramesInd, NEW cy \in cycles, Current(cy), NEW new \in Cycles,
           new.session = cy.session, Become(cy, new),
           cy.phase # "decode", new.phase # "decode",
           new.answer = "pair" => \A c \in Cameras : new.pair[c].seq # 0,
           UNCHANGED <<sessionVars, pairShown, everShown, poolVars>>,
           NoPictures \/ UNCHANGED imageVars
    PROVE  FramesInd'
<1> USE DEF FramesInd, FramesInv
<1>1. UNCHANGED <<frameSession, streaming, pageHidden, pairShown, everShown, pool, frames>>
    BY DEF sessionVars, poolVars
<1>2. /\ Mine = {cy} /\ Mine' = {new} /\ streaming /\ cycles' \subseteq Cycles
      /\ \A x \in cycles' : x = new \/ (x \in cycles /\ x.session # frameSession)
    BY <1>1, OneReplaced
<1>3. FramesTypeOK'
    <2>1. /\ frameUrls' \in [Cameras -> Frames] /\ shownSource' \in [Cameras -> Frames]
          /\ readyCameras' \subseteq Cameras
        BY NoPairType DEF NoPictures, imageVars, FramesTypeOK
    <2> QED
        BY <1>1, <1>2, <2>1 DEF FramesTypeOK
<1>4. OneCycle'
    BY <1>1, <1>2 DEF OneCycle
<1>5. ReadyIsShown'
    <2>1. CASE NoPictures
        BY <2>1 DEF NoPictures, ReadyIsShown
    <2>2. CASE UNCHANGED imageVars
        <3>1. \A c : ~Decoding(c) /\ ~Decoding(c)'
            BY <1>2, DecodingIs, DecodingWillBe
        <3> QED
            BY <1>1, <2>2, <3>1 DEF ReadyIsShown, imageVars
    <2> QED
        BY <2>1, <2>2
<1>6. CyclesOK'
    BY <1>1, <1>2 DEF CyclesOK, Current
<1> QED
    BY <1>3, <1>4, <1>5, <1>6

\* Both images begin to load.
LEMMA ArrivalStep ==
    ASSUME FramesInd, NEW cy \in cycles, PairArrives(cy)
    PROVE  FramesInd'
<1> USE DEF FramesInd, FramesInv
<1> DEFINE new == [cy EXCEPT !.phase = "decode", !.left = Cameras]
<1>1. UNCHANGED <<frameSession, streaming, pageHidden, pairShown, everShown, pool, frames,
                  frameUrls, readyCameras>>
    BY DEF PairArrives, sessionVars, poolVars
<1>2. /\ cy \in Cycles /\ Current(cy) /\ Become(cy, new) /\ shownSource' = cy.pair
      /\ cy.answer = "pair"
    BY DEF PairArrives, FramesTypeOK
<1>3. /\ new \in Cycles /\ new.session = cy.session /\ new.phase = "decode"
      /\ new.left = Cameras /\ new.pair = cy.pair /\ new.answer = "pair"
    BY <1>2 DEF Cycles
<1>4. /\ Mine' = {new} /\ streaming /\ cycles' \subseteq Cycles
      /\ \A x \in cycles' : x = new \/ (x \in cycles /\ x.session # frameSession)
    BY <1>1, <1>2, <1>3, OneReplaced
<1> HIDE DEF new
<1>5. FramesTypeOK'
    BY <1>1, <1>2, <1>4 DEF FramesTypeOK, Cycles
<1>6. OneCycle'
    BY <1>1, <1>4 DEF OneCycle
<1>7. ReadyIsShown'
    <2>1. \A c \in Cameras : Decoding(c)'
        BY <1>3, <1>4, DecodingWillBe
    <2> QED
        BY <1>1, <2>1 DEF ReadyIsShown, FramesTypeOK
<1>8. CyclesOK'
    <2>1. Cameras # {}
        BY DEF Cameras
    <2> QED
        BY <1>1, <1>2, <1>3, <1>4, <2>1 DEF CyclesOK, FramesTypeOK
<1> QED
    BY <1>5, <1>6, <1>7, <1>8

\* What both outcomes of a decoding have in common.
LEMMA ImageFacts ==
    ASSUME FramesInd, NEW cy \in cycles, NEW c \in Cameras, NEW D \in SUBSET Cameras,
           Current(cy), cy.phase = "decode", c \in cy.left, Settled(cy, c, D),
           UNCHANGED <<sessionVars, shownSource, poolVars>>,
           readyCameras' \subseteq Cameras, frameUrls' \in [Cameras -> Frames],
           readyCameras' \subseteq (cy.left \ {c}) \cup D,
           \A d \in readyCameras' : frameUrls'[d].seq # 0,
           \A d \in readyCameras' : \/ frameUrls'[d] = cy.pair[d]
                                    \/ d \in cy.left /\ d # c
    PROVE  FramesInd'
<1> USE DEF FramesInd, FramesInv
<1> DEFINE after == [cy EXCEPT !.left = cy.left \ {c}, !.displayed = D]
           timer == [Asking(cy.session) EXCEPT !.phase = "timer"]
           kept  == after.left = {} /\ D # {}
<1>1. UNCHANGED <<frameSession, streaming, pageHidden, pool, frames, shownSource>>
    BY DEF sessionVars, poolVars
<1>2. /\ cy \in Cycles /\ cy.session = frameSession /\ cy.answer = "pair"
      /\ shownSource = cy.pair /\ \A d \in Cameras : cy.pair[d].seq # 0
    BY DEF Current, CyclesOK, FramesTypeOK
<1>3. /\ after \in Cycles /\ after.session = cy.session /\ after.phase = "decode"
      /\ after.left = cy.left \ {c} /\ after.displayed = D /\ after.pair = cy.pair
      /\ after.answer = "pair"
    BY <1>2 DEF Cycles
<1>4. /\ timer \in Cycles /\ timer.session = cy.session /\ timer.phase = "timer"
      /\ timer.answer = "none"
    <2>1. cy.session \in 1..MaxStreams
        BY <1>2 DEF Cycles
    <2> QED
        BY <2>1, TimerType
<1>5. /\ IF after.left = {} THEN Become(cy, timer) ELSE Become(cy, after)
      /\ pairShown' = IF kept THEN cy.pair ELSE pairShown
      /\ everShown' = (everShown \/ kept)
    BY DEF Settled, Rests
<1> HIDE DEF after, timer
<1>6. everShown' \in BOOLEAN /\ pairShown' \in [Cameras -> Frames]
    <2>1. everShown' \in BOOLEAN
        BY <1>5, Zenon
    <2> QED
        BY <1>2, <1>5, <2>1 DEF FramesTypeOK, Cycles
<1>7. CASE after.left # {}
    <2>1. /\ Mine = {cy} /\ Mine' = {after} /\ streaming /\ cycles' \subseteq Cycles
          /\ \A x \in cycles' : x = after \/ (x \in cycles /\ x.session # frameSession)
        BY <1>1, <1>3, <1>5, <1>7, OneReplaced
    <2>2. FramesTypeOK'
        BY <1>1, <1>6, <2>1 DEF FramesTypeOK
    <2>3. OneCycle'
        BY <1>1, <2>1 DEF OneCycle
    <2>4. ReadyIsShown'
        <3>1. \A d : Decoding(d)' <=> d \in cy.left \ {c}
            BY <1>3, <2>1, DecodingWillBe
        <3>2. \E d \in Cameras : Decoding(d)'
            BY <1>2, <1>3, <1>7, <3>1 DEF Cycles
        <3> QED
            BY <1>1, <1>2, <3>1, <3>2 DEF ReadyIsShown
    <2>5. CyclesOK'
        BY <1>1, <1>2, <1>3, <1>7, <2>1 DEF CyclesOK
    <2> QED
        BY <2>2, <2>3, <2>4, <2>5
<1>8. CASE after.left = {}
    <2>1. /\ Mine = {cy} /\ Mine' = {timer} /\ streaming /\ cycles' \subseteq Cycles
          /\ \A x \in cycles' : x = timer \/ (x \in cycles /\ x.session # frameSession)
        BY <1>1, <1>4, <1>5, <1>8, OneReplaced
    <2>2. FramesTypeOK'
        BY <1>1, <1>6, <2>1 DEF FramesTypeOK
    <2>3. OneCycle'
        BY <1>1, <2>1 DEF OneCycle
    <2>4. ReadyIsShown'
        <3>1. \A d : ~Decoding(d)'
            BY <1>4, <2>1, DecodingWillBe
        <3>2. cy.left = {c}
            BY <1>3, <1>8
        <3>3. \A d \in readyCameras' : frameUrls'[d] = cy.pair[d] /\ kept
            BY <1>8, <3>2
        <3>4. readyCameras' # {} => pairShown' = cy.pair
            BY <1>5, <3>3
        <3> QED
            BY <1>1, <1>2, <3>3, <3>4 DEF ReadyIsShown
    <2>5. CyclesOK'
        BY <1>1, <1>4, <2>1 DEF CyclesOK
    <2> QED
        BY <2>2, <2>3, <2>4, <2>5
<1> QED
    BY <1>7, <1>8

\* An image loads, or is broken.
LEMMA ImageStep ==
    ASSUME FramesInd, NEW cy \in cycles, NEW c \in Cameras,
           ImageLoads(cy, c) \/ ImageFails(cy, c)
    PROVE  FramesInd'
<1> USE DEF FramesInd, FramesInv
<1>1. Current(cy) /\ cy.phase = "decode" /\ c \in cy.left
    BY DEF ImageLoads, ImageFails
<1>2. /\ cy \in Cycles /\ shownSource = cy.pair /\ readyCameras \subseteq cy.left \cup cy.displayed
      /\ \A d \in Cameras : cy.pair[d].seq # 0
    BY <1>1 DEF Current, CyclesOK, FramesTypeOK
<1>3. cy.pair \in [Cameras -> Frames] /\ cy.displayed \in SUBSET Cameras
    BY <1>2 DEF Cycles
<1>4. /\ frameUrls \in [Cameras -> Frames] /\ readyCameras \subseteq Cameras
    BY DEF FramesTypeOK
<1>5. \A d \in readyCameras : /\ frameUrls[d].seq # 0
                              /\ frameUrls[d] = cy.pair[d] \/ d \in cy.left
    <2>1. \A d : Decoding(d) => d \in cy.left
        BY <1>1 DEF Decoding, Mine, Current, OneCycle
    <2> QED
        BY <1>2, <2>1 DEF ReadyIsShown
<1>6. CASE ImageLoads(cy, c)
    <2>1. /\ Settled(cy, c, cy.displayed \cup {c})
          /\ frameUrls' = [frameUrls EXCEPT ![c] = cy.pair[c]]
          /\ readyCameras' = readyCameras \cup {c}
          /\ UNCHANGED <<sessionVars, shownSource, poolVars>>
        BY <1>6 DEF ImageLoads
    <2>2. frameUrls' \in [Cameras -> Frames]
        BY <1>3, <1>4, <2>1
    <2>3. /\ frameUrls'[c] = cy.pair[c]
          /\ \A d \in Cameras \ {c} : frameUrls'[d] = frameUrls[d]
        BY <1>4, <2>1
    <2>4. \A d \in readyCameras' : /\ frameUrls'[d].seq # 0
                                   /\ frameUrls'[d] = cy.pair[d] \/ (d \in cy.left /\ d # c)
        <3>1. frameUrls'[c].seq # 0
            BY <1>2, <2>3
        <3>2. ASSUME NEW d \in readyCameras, d # c
              PROVE  /\ frameUrls'[d].seq # 0
                     /\ frameUrls'[d] = cy.pair[d] \/ (d \in cy.left /\ d # c)
            <4>1. frameUrls'[d] = frameUrls[d]
                BY <1>4, <2>3, <3>2
            <4> QED
                BY <1>5, <3>2, <4>1
        <3> QED
            BY <2>1, <2>3, <3>1, <3>2
    <2>5. /\ readyCameras' \subseteq (cy.left \ {c}) \cup (cy.displayed \cup {c})
          /\ readyCameras' \subseteq Cameras /\ cy.displayed \cup {c} \in SUBSET Cameras
        BY <1>2, <1>3, <1>4, <2>1
    <2> QED
        BY <1>1, <2>1, <2>2, <2>4, <2>5, ImageFacts
<1>7. CASE ImageFails(cy, c)
    <2>1. /\ Settled(cy, c, cy.displayed) /\ readyCameras' = readyCameras \ {c}
          /\ UNCHANGED <<sessionVars, frameUrls, shownSource, poolVars>>
        BY <1>7 DEF ImageFails
    <2>2. \A d \in readyCameras' : /\ frameUrls'[d].seq # 0
                                   /\ frameUrls'[d] = cy.pair[d] \/ (d \in cy.left /\ d # c)
        BY <1>5, <2>1
    <2>3. /\ readyCameras' \subseteq (cy.left \ {c}) \cup cy.displayed
          /\ readyCameras' \subseteq Cameras /\ frameUrls' \in [Cameras -> Frames]
        BY <1>2, <1>4, <2>1
    <2> QED
        BY <1>1, <1>3, <2>1, <2>2, <2>3, ImageFacts
<1> QED
    BY <1>6, <1>7

\* The continuation of an aborted request.
LEMMA EndStep ==
    ASSUME FramesInd, NEW cy \in cycles, CycleEnds(cy)
    PROVE  FramesInd'
<1> USE DEF FramesInd, FramesInv
<1>1. /\ cycles' = cycles \ {cy} /\ cy.session # frameSession
      /\ UNCHANGED <<frameSession, streaming, pageHidden, pairShown, everShown, pool, frames,
                     frameUrls, shownSource, readyCameras>>
    BY DEF CycleEnds, sessionVars, imageVars, poolVars
<1>2. Mine' = Mine
    BY <1>1 DEF Mine
<1>3. \A c : Decoding(c)' <=> Decoding(c)
    BY <1>2 DEF Decoding
<1>4. FramesTypeOK' /\ CyclesOK'
    BY <1>1 DEF FramesTypeOK, CyclesOK
<1>5. OneCycle' /\ ReadyIsShown'
    BY <1>1, <1>2, <1>3 DEF OneCycle, ReadyIsShown
<1> QED
    BY <1>4, <1>5

LEMMA CycleStepKeeps ==
    ASSUME FramesInd, NEW cy \in cycles, CycleStep(cy)
    PROVE  FramesInd'
<1> USE DEF FramesInd, FramesInv
<1>1. cy \in Cycles /\ cy.session \in 1..MaxStreams /\ cy.pair \in [Cameras -> Frames]
    BY DEF FramesTypeOK, Cycles
<1>2. CASE ServePair(cy)
    <2> DEFINE new == [cy EXCEPT !.phase = "answered", !.answer = "pair", !.pair = Retained]
    <2>1. Retained \in [Cameras -> Frames]
        BY DEF Retained, FramesTypeOK, Pools, Frames
    <2>2. \A c \in Cameras : Retained[c].seq # 0
        BY <1>2 DEF ServePair, Retained, CyclesOK
    <2>3. /\ new \in Cycles /\ new.session = cy.session /\ new.phase = "answered"
          /\ new.pair = Retained
        BY <1>1, <2>1 DEF Cycles
    <2> QED
        BY <1>2, <2>2, <2>3, QuietStep DEF ServePair
<1>3. CASE ServeNothing(cy)
    <2> DEFINE new == [cy EXCEPT !.phase = "answered"]
    <2>1. /\ new \in Cycles /\ new.session = cy.session /\ new.phase = "answered"
          /\ new.pair = cy.pair /\ new.answer = cy.answer
        BY <1>1 DEF Cycles
    <2>2. new.answer = "pair" => \A c \in Cameras : new.pair[c].seq # 0
        BY <2>1 DEF CyclesOK
    <2> QED
        BY <1>3, <2>1, <2>2, QuietStep DEF ServeNothing
<1>4. CASE NothingNew(cy)
    BY <1>1, <1>4, TimerType, QuietStep DEF NothingNew, Rests
<1>5. CASE PairFails(cy)
    BY <1>1, <1>5, TimerType, QuietStep DEF PairFails, Rests
<1>6. CASE CycleFires(cy)
    BY <1>1, <1>6, AskingType, QuietStep DEF CycleFires
<1>7. CASE PairArrives(cy)
    BY <1>7, ArrivalStep
<1>8. CASE CycleEnds(cy)
    BY <1>8, EndStep
<1>9. CASE \E c \in Cameras : ImageLoads(cy, c) \/ ImageFails(cy, c)
    BY <1>9, ImageStep
<1> QED
    BY <1>2, <1>3, <1>4, <1>5, <1>6, <1>7, <1>8, <1>9 DEF CycleStep

\* The pool, which no cycle but one that is asking looks at.
LEMMA PoolStep ==
    ASSUME FramesInd, NEW c \in Cameras, StoreFrame(c) \/ FrameAges(c)
    PROVE  FramesInd'
<1> USE DEF FramesInd, FramesInv
<1>1. UNCHANGED <<frameSession, streaming, pageHidden, cycles, pairShown, everShown,
                  frameUrls, shownSource, readyCameras>>
    BY DEF StoreFrame, FrameAges, sessionVars, imageVars
<1>2. /\ pool' \in Pools /\ frames' \in pool'.count..MaxFrames
      /\ \A d \in pool'.fresh : pool'.seq[d] # 0
    <2>1. /\ pool \in Pools /\ frames \in pool.count..MaxFrames
          /\ \A d \in pool.fresh : pool.seq[d] # 0
        BY DEF FramesTypeOK, CyclesOK
    <2>2. CASE FrameAges(c)
        <3>1. /\ frames' = frames /\ pool'.fresh = pool.fresh \ {c} /\ pool'.count = pool.count
              /\ pool'.seq = pool.seq /\ pool' \in Pools
            BY <2>1, <2>2 DEF FrameAges, Pools
        <3> QED
            BY <2>1, <3>1
    <2>3. CASE StoreFrame(c)
        <3>1. /\ frames' = frames + 1 /\ frames < MaxFrames
              /\ pool' = [pool EXCEPT !.count = pool.count + 1, !.seq[c] = pool.count + 1,
                                      !.fresh = pool.fresh \cup {c}]
            BY <2>3 DEF StoreFrame
        <3>2. /\ MaxFrames \in Nat /\ pool.count \in Nat /\ frames \in Nat
              /\ pool.count + 1 \in 0..MaxFrames /\ pool.count + 1 # 0
            BY <2>1, <3>1, CameraFramesAssumption DEF Pools
        <3>3. /\ pool'.count = pool.count + 1 /\ pool'.fresh = pool.fresh \cup {c}
              /\ pool'.seq = [pool.seq EXCEPT ![c] = pool.count + 1] /\ pool' \in Pools
            BY <2>1, <3>1, <3>2 DEF Pools
        <3>4. pool.seq \in [Cameras -> 0..MaxFrames] /\ pool.fresh \subseteq Cameras
            BY <2>1 DEF Pools
        <3>5. \A d \in pool'.fresh : pool'.seq[d] # 0
            BY <2>1, <3>2, <3>3, <3>4
        <3>6. frames' \in pool'.count..MaxFrames
            BY <2>1, <3>1, <3>2, <3>3
        <3> QED
            BY <3>3, <3>5, <3>6
    <2> QED
        BY <2>2, <2>3
<1>3. Mine' = Mine /\ \A d : Decoding(d)' <=> Decoding(d)
    BY <1>1 DEF Mine, Decoding
<1>4. FramesTypeOK' /\ CyclesOK'
    BY <1>1, <1>2 DEF FramesTypeOK, CyclesOK
<1>5. OneCycle' /\ ReadyIsShown'
    BY <1>1, <1>3 DEF OneCycle, ReadyIsShown
<1> QED
    BY <1>4, <1>5

LEMMA RestartStep == ASSUME FramesInd, ServerRestarts PROVE FramesInd'
<1> USE DEF FramesInd, FramesInv
<1> DEFINE After(cy) == IF cy.phase = "fetch" THEN Broken(cy) ELSE cy
<1>1. /\ cycles' = {After(cy) : cy \in cycles} /\ pool.boot < MaxRestarts
      /\ pool' = [boot |-> pool.boot + 1, count |-> 0, seq |-> [c \in Cameras |-> 0], fresh |-> {}]
      /\ UNCHANGED <<frameSession, streaming, pageHidden, pairShown, everShown, frames,
                     frameUrls, shownSource, readyCameras>>
    BY DEF ServerRestarts, sessionVars, imageVars
<1>2. \A cy \in cycles : /\ After(cy) \in Cycles /\ After(cy).session = cy.session
                         /\ cy.phase = "decode" => After(cy) = cy
                         /\ \/ After(cy) = cy
                            \/ After(cy).phase = "answered" /\ After(cy).answer = "error"
    BY BrokenType DEF FramesTypeOK
<1> HIDE DEF After
<1>3. \A x \in cycles' : \E cy \in cycles : x = After(cy)
    BY <1>1
<1>4. \A x \in cycles' : x \in cycles \/ (x.phase = "answered" /\ x.answer = "error")
    BY <1>2, <1>3
<1>5. \A x \in cycles' : x \in Cycles /\ x.session <= frameSession
    BY <1>2, <1>3 DEF CyclesOK
<1>6. OneCycle'
    <2>1. \A x \in Mine' : \E cy \in Mine : x = After(cy)
        BY <1>1, <1>2, <1>3 DEF Mine
    <2>2. \A cy \in Mine : After(cy) \in Mine'
        BY <1>1, <1>2 DEF Mine
    <2>3. \A a, b \in Mine' : a = b
        BY <2>1 DEF OneCycle
    <2>4. Mine' # {} <=> Mine # {}
        BY <2>1, <2>2
    <2> QED
        BY <1>1, <2>3, <2>4 DEF OneCycle
<1>7. \A d : Decoding(d)' <=> Decoding(d)
    <2>1. \A cy \in Mine : cy.phase = "decode" => cy \in Mine'
        BY <1>1, <1>2 DEF Mine
    <2>2. \A x \in Mine' : x.phase = "decode" => x \in Mine
        BY <1>1, <1>4 DEF Mine
    <2> QED
        BY <2>1, <2>2 DEF Decoding
<1>8. ReadyIsShown'
    BY <1>1, <1>7 DEF ReadyIsShown
<1>9. pool' \in Pools /\ frames' \in pool'.count..MaxFrames /\ pool'.fresh = {}
    <2>1. pool.boot + 1 \in 1..MaxRestarts /\ 0 \in 0..MaxFrames /\ frames \in 0..MaxFrames
        BY <1>1, CameraFramesAssumption DEF FramesTypeOK, Pools
    <2> QED
        BY <1>1, <2>1 DEF Pools
<1>10. FramesTypeOK'
    BY <1>1, <1>5, <1>9 DEF FramesTypeOK
<1>11. CyclesOK'
    BY <1>1, <1>4, <1>5, <1>9 DEF CyclesOK
<1> QED
    BY <1>6, <1>8, <1>10, <1>11

LEMMA FramesStep == FramesInd /\ [FramesNext]_frameVars => FramesInd'
<1> SUFFICES ASSUME FramesInd, [FramesNext]_frameVars PROVE FramesInd'
    OBVIOUS
<1>1. CASE HideCamera
    <2>1. cycles' = Aborted \cup IF FALSE THEN {Asking(frameSession + 1)} ELSE {}
        BY <1>1 DEF HideCamera
    <2>2. streaming' = FALSE /\ ReleaseStreams /\ pageHidden' \in BOOLEAN
        BY <1>1, Zenon DEF HideCamera
    <2> QED
        BY <2>1, <2>2, SessionStep
<1>2. CASE CameraOffline
    <2>1. cycles' = Aborted \cup IF FALSE THEN {Asking(frameSession + 1)} ELSE {}
        BY <1>2 DEF CameraOffline
    <2>2. streaming' = FALSE /\ ReleaseStreams /\ pageHidden' \in BOOLEAN
        BY <1>2 DEF CameraOffline, FramesInd, FramesInv, FramesTypeOK
    <2> QED
        BY <2>1, <2>2, SessionStep
<1>3. CASE StartStreams /\ pageHidden' \in BOOLEAN
    <2>1. /\ streaming' = ~pageHidden' /\ ReleaseStreams /\ pageHidden' \in BOOLEAN
          /\ cycles' = Aborted \cup IF ~pageHidden' THEN {Asking(frameSession + 1)} ELSE {}
        BY <1>3 DEF StartStreams
    <2> QED
        BY <2>1, SessionStep
<1>4. CASE ShowCamera
    <2>1. pageHidden' \in BOOLEAN
        BY <1>4, Zenon DEF ShowCamera
    <2> QED
        BY <1>3, <1>4, <2>1 DEF ShowCamera
<1>5. CASE CameraOnline
    BY <1>3, <1>5 DEF CameraOnline, FramesInd, FramesInv, FramesTypeOK
<1>6. CASE \E cy \in cycles : CycleStep(cy)
    BY <1>6, CycleStepKeeps
<1>7. CASE \E c \in Cameras : StoreFrame(c) \/ FrameAges(c)
    BY <1>7, PoolStep
<1>8. CASE ServerRestarts
    BY <1>8, RestartStep
<1>9. CASE UNCHANGED frameVars
    <2>1. UNCHANGED <<frameSession, streaming, pageHidden, cycles, pairShown, everShown,
                      frameUrls, shownSource, readyCameras, pool, frames>>
        BY <1>9 DEF frameVars, sessionVars, imageVars, poolVars
    <2>2. Mine' = Mine /\ \A d : Decoding(d)' <=> Decoding(d)
        BY <2>1 DEF Mine, Decoding
    <2> QED
        BY <2>1, <2>2 DEF FramesInd, FramesInv, FramesTypeOK, OneCycle, ReadyIsShown, CyclesOK
<1> QED
    BY <1>1, <1>2, <1>4, <1>5, <1>6, <1>7, <1>8, <1>9 DEF FramesNext
-----------------------------------------------------------------------------
\* The stream has one cycle and shows one pair, the newest command says what is held,
\* and no heartbeat jogs the mount after a stop that was handled (camera_monitor.js).
THEOREM CameraIsSound == CameraSpec => []CameraInv
<1> DEFINE Both == FramesInd /\ JogInd
<1>1. CameraInit => Both
    BY FramesStart, JogStarts DEF CameraInit
<1>2. Both /\ [CameraNext]_cameraVars => Both'
    BY FramesStep, JogStep DEF CameraNext, cameraVars
<1>3. Both => CameraInv
    BY DEF FramesInd, JogInd, CameraInv
<1> QED
    BY <1>1, <1>2, <1>3, PTL DEF CameraSpec
=============================================================================
