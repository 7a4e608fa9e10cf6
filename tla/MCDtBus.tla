------------------------------ MODULE MCDtBus ------------------------------
(* Device trees for DtBus: those of the two .dts files (the second gives   *)
(* controller and child one name), one with two controllers, one whose     *)
(* second child lacks the property.                                        *)
EXTENDS DtBus

Node(c, d) == [name |-> c, child |-> d]
MCTrees ==
  { <<Node("dummy-demo-ctrl", "dummy-demo-dev")>>,
    <<Node("hotplug-led", "hotplug-led")>>,
    <<Node("ctl0", "hotplug-led"), Node("ctl1", "none")>>,
    <<Node("ctl0", "none"), Node("ctl1", "bare")>> }
============================================================================
