------------------------------- MODULE MCAnchors -------------------------------
EXTENDS Anchoring

CONSTANTS peer, tsa

MCTargets == <<peer, tsa>>
===============================================================================
