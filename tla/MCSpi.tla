------------------------------- MODULE MCSpi -------------------------------
(* Both controllers, a slow and a fast device, a FIFO of two bytes.        *)
EXTENDS Spi, TLC

CONSTANTS c1, c2

MCControllers == {"dummy", "h616"}
MCSpeed == c1 :> 3000 @@ c2 :> 40000000
MCRates == {24000000, 90000001, 300000000}
=============================================================================
