---------------------------- MODULE CameraFrames ----------------------------
(***************************************************************************)
(* The pictures of the camera page (web/static/desktop/js/                 *)
(* camera_monitor.js): a session of the stream, its cycle of requests for  *)
(* the latest pair, the decoding of the two images, and the retained       *)
(* frames of the server (CameraFramePool, api_camera_latest_pair).         *)
(*                                                                         *)
(* A release of the stream aborts the request of its cycle, whose          *)
(* continuation then runs in the next session, and takes the handlers from *)
(* the images: a cycle that is decoding is never heard of again, nor are   *)
(* the object URLs it has made revoked.                                    *)
(***************************************************************************)
EXTENDS Integers

CONSTANTS MaxStreams,    \* bound: sessions of the page
          MaxFrames,     \* bound: frames stored, all starts of the server together
          MaxRestarts    \* bound: starts of the server

ASSUME CameraFramesAssumption == {MaxStreams, MaxFrames, MaxRestarts} \subseteq Nat \ {0}

VARIABLES
    frameSession,    \* frameSession
    streaming,       \* history: the stream was started and has not been released since
    cycles,          \* runs of runFrameCycle that have not ended
    pairShown,       \* lastPairSequences, and (history) the server's start they are of
    everShown,       \* lastPairDisplayedAt is set
    frameUrls,       \* frameObjectUrls: the frame of each camera's registered URL
    shownSource,     \* the frame of each image's src
    readyCameras,    \* readyCameras
    pageHidden,      \* document.hidden
    pool,            \* server: its start, its count of frames, the number of the frame it
                     \* retains of each camera, and the cameras whose frame is fresh
    frames           \* number of frames stored

imageVars == <<frameUrls, shownSource, readyCameras>>
poolVars == <<pool, frames>>
sessionVars == <<frameSession, streaming, pageHidden>>
frameVars == <<sessionVars, cycles, pairShown, everShown, imageVars, poolVars>>

Cameras == {"thermal", "visible"}
NoPair == [c \in Cameras |-> [boot |-> 0, seq |-> 0]]
Retained == [c \in Cameras |-> [boot |-> pool.boot, seq |-> pool.seq[c]]]

\* A cycle whose request is sent, and one whose request has come to nothing.
Asking(s) == [session |-> s, phase |-> "fetch", pair |-> NoPair, answer |-> "none",
              left |-> {}, displayed |-> {}]
Broken(cy) == [Asking(cy.session) EXCEPT !.phase = "answered", !.answer = "error"]

\* A page that is opened in the background asks for nothing yet.
FramesInit ==
    /\ pageHidden \in BOOLEAN /\ streaming = ~pageHidden
    /\ frameSession = 1
    /\ cycles = IF pageHidden THEN {} ELSE {Asking(1)}
    /\ pairShown = NoPair /\ everShown = FALSE
    /\ frameUrls = NoPair /\ shownSource = NoPair /\ readyCameras = {}
    /\ pool = [boot |-> 1, count |-> 0, seq |-> [c \in Cameras |-> 0], fresh |-> {}]
    /\ frames = 0
-----------------------------------------------------------------------------
(* The session *)

\* releaseFrameStreams: the timer of a cycle is cleared, a request is aborted.
ReleaseStreams ==
    /\ frameSession < MaxStreams
    /\ frameSession' = frameSession + 1
    /\ pairShown' = NoPair /\ everShown' = FALSE
    /\ frameUrls' = NoPair /\ shownSource' = NoPair /\ readyCameras' = {}
    /\ UNCHANGED poolVars

Aborted == {Broken(cy) : cy \in {x \in cycles : x.phase \in {"fetch", "answered"}}}

StartStreams ==
    /\ ReleaseStreams
    /\ streaming' = ~pageHidden'
    /\ cycles' = Aborted \cup IF pageHidden' THEN {} ELSE {Asking(frameSession + 1)}

\* The page is hidden or left.
HideCamera ==
    /\ ~pageHidden /\ pageHidden' = TRUE
    /\ ReleaseStreams
    /\ streaming' = FALSE /\ cycles' = Aborted

ShowCamera == pageHidden /\ pageHidden' = FALSE /\ StartStreams

\* The events of the connection; an offline page that is shown again starts as well.
CameraOffline ==
    /\ ReleaseStreams
    /\ streaming' = FALSE /\ cycles' = Aborted
    /\ UNCHANGED pageHidden

CameraOnline == UNCHANGED pageHidden /\ StartStreams
-----------------------------------------------------------------------------
(* A cycle *)

Current(cy) == cy \in cycles /\ cy.session = frameSession /\ ~pageHidden
Become(cy, new) == cycles' = (cycles \ {cy}) \cup {new}
Rests(cy) == Become(cy, [Asking(cy.session) EXCEPT !.phase = "timer"])

\* api_camera_latest_pair, when its wait is over: with the numbers of the pair on show
\* in the query it waits for both cameras to exceed them.
Numbered == \A c \in Cameras : pairShown[c].seq > 0
Advanced == \A c \in Cameras : pool.seq[c] > pairShown[c].seq

ServePair(cy) ==
    /\ Current(cy) /\ cy.phase = "fetch"
    /\ pool.fresh = Cameras
    /\ Numbered => Advanced
    /\ Become(cy, [cy EXCEPT !.phase = "answered", !.answer = "pair", !.pair = Retained])
    /\ UNCHANGED <<sessionVars, pairShown, everShown, imageVars, poolVars>>

ServeNothing(cy) ==
    /\ Current(cy) /\ cy.phase = "fetch"
    /\ pool.fresh = Cameras
    /\ Numbered /\ ~Advanced
    /\ Become(cy, [cy EXCEPT !.phase = "answered"])
    /\ UNCHANGED <<sessionVars, pairShown, everShown, imageVars, poolVars>>

\* Status 204.
NothingNew(cy) ==
    /\ Current(cy) /\ cy.phase = "answered" /\ cy.answer = "none"
    /\ Rests(cy)
    /\ UNCHANGED <<sessionVars, pairShown, everShown, imageVars, poolVars>>

\* displayCameraBlob up to its await, for both images.
PairArrives(cy) ==
    /\ Current(cy) /\ cy.phase = "answered" /\ cy.answer = "pair"
    /\ Become(cy, [cy EXCEPT !.phase = "decode", !.left = Cameras])
    /\ shownSource' = cy.pair
    /\ UNCHANGED <<sessionVars, pairShown, everShown, frameUrls, readyCameras, poolVars>>

\* markCameraPairUnavailable
NoPictures ==
    /\ frameUrls' = NoPair /\ shownSource' = NoPair /\ readyCameras' = {}

PairFailsForGood(cy) ==                     \* mutant: an error leaves the cycle
    /\ Current(cy) /\ cy.phase \in {"fetch", "answered"}
    /\ cycles' = cycles \ {cy}
    /\ NoPictures \/ (everShown /\ UNCHANGED imageVars)
    /\ UNCHANGED <<sessionVars, pairShown, everShown, poolVars>>

\* An error status, no connection, 3 s over, a pair that is stale or broken: the page
\* keeps its pictures for a while after the last pair it has displayed.
PairFails(cy) ==
    /\ Current(cy) /\ cy.phase \in {"fetch", "answered"}
    /\ Rests(cy)
    /\ NoPictures \/ (everShown /\ UNCHANGED imageVars)
    /\ UNCHANGED <<sessionVars, pairShown, everShown, poolVars>>

\* The aborted request of a session that is over.
CycleRunsOn(cy) ==                          \* mutant: the session is not compared
    /\ cy.session # frameSession
    /\ Become(cy, Asking(frameSession))
    /\ UNCHANGED <<sessionVars, pairShown, everShown, imageVars, poolVars>>

CycleEnds(cy) ==
    /\ cy.session # frameSession
    /\ cycles' = cycles \ {cy}
    /\ UNCHANGED <<sessionVars, pairShown, everShown, imageVars, poolVars>>

\* The other image may still be decoding; when both have settled the numbers of the
\* pair are kept if one of them was displayed.
Settled(cy, c, displayed) ==
    LET after == [cy EXCEPT !.left = @ \ {c}, !.displayed = displayed]
        kept  == after.left = {} /\ displayed # {}
    IN  /\ IF after.left = {} THEN Rests(cy) ELSE Become(cy, after)
        /\ pairShown' = IF kept THEN cy.pair ELSE pairShown
        /\ everShown' = (everShown \/ kept)

ImageLoads(cy, c) ==
    /\ Current(cy) /\ cy.phase = "decode" /\ c \in cy.left
    /\ Settled(cy, c, cy.displayed \cup {c})
    /\ frameUrls' = [frameUrls EXCEPT ![c] = cy.pair[c]]
    /\ readyCameras' = readyCameras \cup {c}
    /\ UNCHANGED <<sessionVars, shownSource, poolVars>>

ImageFails(cy, c) ==
    /\ Current(cy) /\ cy.phase = "decode" /\ c \in cy.left
    /\ Settled(cy, c, cy.displayed)
    /\ readyCameras' = readyCameras \ {c}
    /\ UNCHANGED <<sessionVars, frameUrls, shownSource, poolVars>>

CycleFires(cy) ==
    /\ Current(cy) /\ cy.phase = "timer"
    /\ Become(cy, Asking(cy.session))
    /\ UNCHANGED <<sessionVars, pairShown, everShown, imageVars, poolVars>>
-----------------------------------------------------------------------------
(* The pool of the server *)

\* CameraFramePool.store_locked: one count for all cameras.
StoreFrame(c) ==
    /\ frames < MaxFrames /\ frames' = frames + 1
    /\ pool' = [pool EXCEPT !.count = @ + 1, !.seq[c] = pool.count + 1,
                            !.fresh = @ \cup {c}]
    /\ UNCHANGED <<sessionVars, cycles, pairShown, everShown, imageVars>>

\* verified_camera_frame: a frame of more than 2 s ago is not served.
FrameAges(c) ==
    /\ c \in pool.fresh
    /\ pool' = [pool EXCEPT !.fresh = @ \ {c}]
    /\ UNCHANGED <<frames, sessionVars, cycles, pairShown, everShown, imageVars>>

\* The count starts again, and a request that was waiting is broken off.
ServerRestarts ==
    /\ pool.boot < MaxRestarts
    /\ cycles' = {IF cy.phase = "fetch" THEN Broken(cy) ELSE cy : cy \in cycles}
    /\ pool' = [boot |-> pool.boot + 1, count |-> 0, seq |-> [c \in Cameras |-> 0], fresh |-> {}]
    /\ UNCHANGED <<frames, sessionVars, pairShown, everShown, imageVars>>
-----------------------------------------------------------------------------
CycleStep(cy) ==
    \/ ServePair(cy) \/ ServeNothing(cy)
    \/ NothingNew(cy) \/ PairArrives(cy) \/ PairFails(cy) \/ CycleEnds(cy)
    \/ \E c \in Cameras : ImageLoads(cy, c) \/ ImageFails(cy, c)
    \/ CycleFires(cy)

FramesNext ==
    \/ HideCamera \/ ShowCamera \/ CameraOffline \/ CameraOnline
    \/ \E cy \in cycles : CycleStep(cy)
    \/ \E c \in Cameras : StoreFrame(c) \/ FrameAges(c)
    \/ ServerRestarts

\* A request ends within 3 s, an image loads or does not, and timers fire; a request
\* and a decoding that are tried again and again succeed at some time.
FramesFairness ==
    /\ WF_frameVars(\E cy \in cycles : CycleStep(cy))
    /\ SF_frameVars(\E cy \in cycles : ServePair(cy))
    /\ SF_frameVars(\E cy \in cycles : PairArrives(cy))
    /\ SF_frameVars(\E cy \in cycles : \E c \in Cameras : ImageLoads(cy, c))

FramesSpec == FramesInit /\ [][FramesNext]_frameVars /\ FramesFairness
-----------------------------------------------------------------------------
Frames == [boot : 0..MaxRestarts, seq : 0..MaxFrames]
Cycles == [session : 1..MaxStreams, phase : {"fetch", "answered", "decode", "timer"},
           pair : [Cameras -> Frames], answer : {"none", "pair", "error"},
           left : SUBSET Cameras, displayed : SUBSET Cameras]
Pools == [boot : 1..MaxRestarts, count : 0..MaxFrames, seq : [Cameras -> 0..MaxFrames],
          fresh : SUBSET Cameras]

FramesTypeOK ==
    /\ frameSession \in 1..MaxStreams /\ cycles \subseteq Cycles
    /\ streaming \in BOOLEAN /\ pageHidden \in BOOLEAN /\ everShown \in BOOLEAN
    /\ pairShown \in [Cameras -> Frames] /\ frameUrls \in [Cameras -> Frames]
    /\ shownSource \in [Cameras -> Frames]
    /\ readyCameras \subseteq Cameras
    /\ pool \in Pools /\ frames \in pool.count..MaxFrames

Mine == {cy \in cycles : cy.session = frameSession}
Decoding(c) == \E cy \in Mine : cy.phase = "decode" /\ c \in cy.left

\* A stream has one cycle, and a page whose stream was released has none and shows
\* nothing, whatever was under way (frameSession, releaseFrameStreams).
OneCycle ==
    /\ \A a, b \in Mine : a = b
    /\ streaming <=> Mine # {}
    /\ ~streaming => readyCameras = {} /\ shownSource = NoPair /\ ~everShown

\* The pictures that are marked ready are those of the pair whose numbers the page
\* sends, so it neither skips a pair nor is sent one again, and both are of one pair
\* (displayCameraBlob, loadLatestPair, markCameraPairUnavailable).
ReadyIsShown ==
    \A c \in readyCameras :
        /\ frameUrls[c].seq # 0
        /\ shownSource[c] = frameUrls[c] \/ Decoding(c)
        /\ (\A d \in Cameras : ~Decoding(d)) => frameUrls[c] = pairShown[c]

FramesInv == FramesTypeOK /\ OneCycle /\ ReadyIsShown

\* A pair that is newer than the one on show is shown in the end, unless it grows old
\* or the stream is released.
WaitingPair == streaming /\ pool.fresh = Cameras /\ Advanced
NewPairIsShown == WaitingPair ~> ~WaitingPair
=============================================================================
