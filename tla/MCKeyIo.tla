------------------------------ MODULE MCKeyIo ------------------------------
(* Small instances of KeyIo: all five drivers, or the blocking one alone.   *)
EXTENDS KeyIo

MCAllDrivers == KeyDrivers
MCBlockOnly == {BlockIo}
============================================================================
