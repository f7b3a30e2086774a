------------------------------- MODULE MCDevices -------------------------------
\* The values of the constants are in the configuration.
EXTENDS Devices

CONSTANTS r1, r2, check, vuln, a, b, timer, watcher, beater

ASSUME Store!WellFormed

\* Nothing of Alerts moves while the copies are at work: one state of the host will do.
\* The advisory applies at first and may cease to.
Distinct == IF storing THEN \A k \in Keys : host[k] = "right" ELSE \A v \in Vulns : host[v] = "wrong"
MCInit == DevicesInit /\ Distinct
MCSpec == MCInit /\ [][DevicesNext]_all /\ DevicesFairness
================================================================================
