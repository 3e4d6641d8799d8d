------------------------------ MODULE CameraPage ------------------------------
(***************************************************************************)
(* The camera page: its pictures and its direction control.  The two share *)
(* no state but the page's visibility, to which each reacts by itself, so  *)
(* a behaviour is one of either part, chosen at the start, while the other *)
(* rests: the pictures on a hidden page, the pad at disabled drives.       *)
(***************************************************************************)
EXTENDS CameraFrames, CameraJog

VARIABLE part    \* the part that the behaviour is about; never changes

cameraVars == <<part, frameVars, jogVars>>

CameraInit ==
    /\ part \in {"pictures", "pad"}
    /\ FramesInit /\ JogInit
    /\ part = "pictures" => ~driveEnabled
    /\ part = "pad" => pageHidden

CameraNext ==
    \/ part = "pictures" /\ FramesNext /\ UNCHANGED <<part, jogVars>>
    \/ part = "pad" /\ JogNext /\ UNCHANGED <<part, frameVars>>

CameraSpec == CameraInit /\ [][CameraNext]_cameraVars /\ FramesFairness

\* A stream has one cycle and an earlier session none, the pictures are of one pair, the
\* one that the page asks beyond; and the newest command says what is held, and no
\* heartbeat jogs the mount after a stop that was handled.
CameraInv == FramesInv /\ JogInv
=============================================================================
