------------------------------- MODULE MCDnssec -------------------------------
EXTENDS SurfaceChecks, MCSurfaceWorlds
===============================================================================
