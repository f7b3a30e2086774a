-------------------------------- MODULE Outbound --------------------------------
(***************************************************************************)
(* What the server sends out of the building, log records (Forwarder) and  *)
(* anchors of the audit chain (Anchoring), which share nothing: anchoring  *)
(* says which of them is at work in a behaviour.                           *)
(***************************************************************************)
EXTENDS Forwarder

CONSTANTS Targets, Publishers, Timer, Limit, MaxSeq, MaxFaults   \* see Anchoring

VARIABLES anchoring, chain, checkpoints, anchors, held, job, verifier, faults, rebuilt

Chain == INSTANCE Anchoring
chained == <<chain, checkpoints, anchors, held, job, verifier, faults, rebuilt>>

all == <<fvars, anchoring, chained>>

OutboundInit == anchoring \in BOOLEAN /\ FInit /\ Chain!Init

OutboundNext ==
    /\ UNCHANGED anchoring
    /\ \/ ~anchoring /\ FNext /\ UNCHANGED chained
       \/ anchoring /\ Chain!Next /\ UNCHANGED fvars

\* The fairness of each part, as it is stated there, while it works.
OutboundFairness ==
    /\ WF_fvars(~anchoring /\ Tell) /\ WF_fvars(~anchoring /\ Work)
    /\ SF_fvars(~anchoring /\ LastFlush) /\ WF_fvars(~anchoring /\ (Stop \/ Closed))
    /\ WF_chained(anchoring /\ Chain!Sign)
    /\ \A p \in Publishers : WF_chained(anchoring /\ Chain!Anchor(p))

OutboundSpec == OutboundInit /\ [][OutboundNext]_all /\ OutboundFairness

\* Anchoring: what is checked of it.
AnchorsAreReal == Chain!AnchorsAreReal
EveryCheckpointAnchored == <>[](anchoring => Chain!AllAnchored)
===============================================================================
