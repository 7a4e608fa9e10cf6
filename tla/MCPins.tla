------------------------------- MODULE MCPins -------------------------------
(* Two processes; the LED's specifier of the device tree, a neighbour in   *)
(* its bank, and the one past the last pin.                                *)
EXTENDS Pins, TLC

(* No register is of both controllers, and the GPIO one never asks the pin *)
(* controller: GPIO lines are used beside "pins", functions with "groups". *)
OneAtATime == variant = "groups" => \A p \in Pins : holder[p] = "nobody"

MCCells == {<<0, 2>>, <<0, 5>>, <<2, 0>>}
Interchangeable == Permutations(Procs)
=============================================================================
