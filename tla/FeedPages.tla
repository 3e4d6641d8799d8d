------------------------------ MODULE FeedPages ------------------------------
(***************************************************************************)
(* The status feed on the three dashboard pages.  StatusFeed is written    *)
(* from the desktop's script; the scripts of the classic page              *)
(* (web/static/js/dashboard.js) and of the mobile page                     *)
(* (web/static/mobile/js/dashboard.js) hold copies of it, named here by    *)
(* the steps in which each part of a copy acts.  A step is one of          *)
(* whichever page is open.                                                 *)
(***************************************************************************)
EXTENDS StatusFeed

Connection == SocketEvents \/ ReconnectFires \/ PollFires
PageUse    == Suspend(FALSE) \/ PointerDown
Streamed   == Message \/ RenderFires
Shows      == PollAnswer \/ RenderFires
-----------------------------------------------------------------------------
(* The classic page *)

ClassicStream      == Connection
ClassicMessage     == Streamed
ClassicPoll        == PollAnswer
ClassicUse         == PageUse
ClassicHide        == Suspend(TRUE)
ClassicRender      == Shows /\ latest' # latest
ClassicDriveEvents == Shows /\ lastEvent' # lastEvent
ClassicRestarted   == Shows /\ knownBoot' # knownBoot
ClassicAxis        == Shows /\ samples' # samples
ClassicArmedLog    == Shows /\ axisShown' # axisShown
-----------------------------------------------------------------------------
(* The mobile page: the same text, so its parts are those of the classic page. *)

MobileStream      == ClassicStream
MobileMessage     == ClassicMessage
MobilePoll        == ClassicPoll
MobileUse         == ClassicUse
MobileHide        == ClassicHide
MobileRender      == ClassicRender
MobileDriveEvents == ClassicDriveEvents
MobileRestarted   == ClassicRestarted
MobileAxis        == ClassicAxis
MobileArmedLog    == ClassicArmedLog

MobileFeed ==
    \/ MobileStream \/ MobileMessage \/ MobilePoll \/ MobileUse \/ MobileHide
    \/ MobileRender \/ MobileDriveEvents \/ MobileRestarted \/ MobileAxis \/ MobileArmedLog
-----------------------------------------------------------------------------
FeedPagesNext == FeedNext \/ MobileFeed

FeedPagesSpec == FeedInit /\ [][FeedPagesNext]_feedVars /\ FeedFairness
=============================================================================
