------------------------------ MODULE MCOutbound ------------------------------
\* Two destinations, one of which heeds its context, and two targets.
EXTENDS Outbound

CONSTANTS syslog, webhook, peer, tsa

MCDestinations == <<syslog, webhook>>
MCTargets == <<peer, tsa>>

ASSUME Chain!WellFormed
===============================================================================
