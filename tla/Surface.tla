-------------------------------- MODULE Surface --------------------------------
(***************************************************************************)
(* The surface scanner: which scans are made and recorded (SurfaceScans)   *)
(* and what the checks of one scan conclude (SurfaceChecks).  One of the   *)
(* two works in a behaviour, the other stays as it begins.                 *)
(***************************************************************************)
EXTENDS SurfaceScans

CONSTANTS Worlds, Silences, LookupLimit, VoidLimit, DepthLimit, LookupCap, MxCap   \* see SurfaceChecks

VARIABLES
    checking,   \* the checks of one scan are at work
    world, silent, learned, results

One == INSTANCE SurfaceChecks
one == <<world, silent, learned, results>>

all == <<vars, checking, one>>

SurfaceInit ==
    /\ checking \in BOOLEAN
    /\ Init
    /\ IF checking THEN One!Init ELSE world = 0 /\ silent = 0 /\ learned = 0 /\ results = 0

SurfaceNext ==
    /\ UNCHANGED checking
    /\ \/ ~checking /\ Next /\ UNCHANGED one
       \/ checking /\ One!Next /\ UNCHANGED vars

\* Scans on the timer, and what a goroutine is at; one scan's checks promise no end.
SurfaceSpec ==
    /\ SurfaceInit /\ [][SurfaceNext]_all
    /\ WF_vars(~checking /\ Pass)
    /\ \A w \in Workers : WF_vars(~checking /\ Work(w))

\* What is checked of the checks of a scan.
SilenceDecidesNothing == checking => One!SilenceDecidesNothing
================================================================================
