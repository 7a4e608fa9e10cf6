--------------------------- MODULE MCDrmHotplug ---------------------------
(* A small instance of DrmHotplug: both drivers, and the interrupt driver  *)
(* alone.                                                                  *)
EXTENDS DrmHotplug

MCBoth == {"interrupt", "poll"}
MCInterrupt == {"interrupt"}
============================================================================
