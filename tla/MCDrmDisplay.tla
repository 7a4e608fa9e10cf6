---------------------------- MODULE MCDrmDisplay ----------------------------
(* Two clients besides the fbdev emulation.                                 *)
EXTENDS DrmDisplay

MCDrivers == AllDrivers
=============================================================================
