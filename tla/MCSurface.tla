------------------------------- MODULE MCSurface -------------------------------
\* One asset and one finding; a request and the schedule; the worlds of MCSurfaceWorlds.
EXTENDS Surface, MCSurfaceWorlds

CONSTANTS x, dns, spf, lo, hi, handler, schedule

MCCheckOf == [f \in {spf} |-> dns]

ASSUME One!WellFormed
================================================================================
