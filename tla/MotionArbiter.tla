---------------------------- MODULE MotionArbiter ----------------------------
(***************************************************************************)
(* What motion_commands.py promises to the transports, without its queue,  *)
(* locks and counters (class docstring of MotionCommandManager): one       *)
(* controller call runs at a time; accepting a safety stop kills every     *)
(* accepted call that has not started; no call starts while an accepted    *)
(* stop has not returned; a stop returns only after its controller call.   *)
(*                                                                         *)
(* MotionCommands implements this module; JogControl is built on it.       *)
(***************************************************************************)
EXTENDS FiniteSets

CONSTANTS Callers,  \* the threads that submit commands
          Nobody    \* no caller

ASSUME ArbiterAssumption == Nobody \notin Callers

VARIABLES live,   \* callers whose accepted call may still start
          stops,  \* callers whose accepted safety stop has not returned
          ran,    \* the members of stops whose controller call has finished
          busy    \* the caller whose controller call is in progress

arbiterVars == <<live, stops, ran, busy>>

ArbiterInit ==
    /\ live = {}
    /\ stops = {}
    /\ ran = {}
    /\ busy = Nobody

\* An ordinary command is accepted.
Accept(c) ==
    /\ c \notin live \cup stops
    /\ busy # c
    /\ live' = live \cup {c}
    /\ UNCHANGED <<stops, ran, busy>>

\* A safety stop is accepted: nothing accepted earlier may start any more.
AcceptStop(c) ==
    /\ c \notin live \cup stops
    /\ busy # c
    /\ live' = {}
    /\ stops' = stops \cup {c}
    /\ UNCHANGED <<ran, busy>>

\* Mutant: a command does not wait for the stops in progress.
StartDuringStops(c) ==
    /\ c \in live
    /\ busy = Nobody
    /\ busy' = c
    /\ live' = live \ {c}
    /\ UNCHANGED <<stops, ran>>

\* A live command enters the controller.
Start(c) ==
    /\ c \in live
    /\ stops = {}
    /\ busy = Nobody
    /\ busy' = c
    /\ live' = live \ {c}
    /\ UNCHANGED <<stops, ran>>

\* A stop enters the controller.
StartStop(c) ==
    /\ c \in stops \ ran
    /\ busy = Nobody
    /\ busy' = c
    /\ UNCHANGED <<live, stops, ran>>

\* The controller call in progress ends.
Finish ==
    /\ busy # Nobody
    /\ busy' = Nobody
    /\ ran' = IF busy \in stops THEN ran \cup {busy} ELSE ran
    /\ UNCHANGED <<live, stops>>

\* A stop that has run returns to its caller.
Discharge(c) ==
    /\ c \in ran
    /\ stops' = stops \ {c}
    /\ ran' = ran \ {c}
    /\ UNCHANGED <<live, busy>>

ArbiterNext ==
    \/ \E c \in Callers :
          \/ Accept(c)
          \/ AcceptStop(c)
          \/ Start(c)
          \/ StartStop(c)
          \/ Discharge(c)
    \/ Finish

ArbiterSpec == ArbiterInit /\ [][ArbiterNext]_arbiterVars
=============================================================================
