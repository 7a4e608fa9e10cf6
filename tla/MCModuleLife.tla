---------------------------- MODULE MCModuleLife ----------------------------
(* Two of the modules at a time, any two.                              *)
EXTENDS ModuleLife

MCDrivers == AllDrivers
=============================================================================
