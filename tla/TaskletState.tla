---------------------------- MODULE TaskletState ----------------------------
(***************************************************************************)
(* The state of the tasklet demo, and what has to hold of it at all times. *)
(* TaskletKey says how it changes.                                         *)
(***************************************************************************)
EXTENDS Naturals

VARIABLES
  module,    \* "out" | "in" | the step of async_init or async_exit to come
  key,       \* struct gpio_key: "none" | "live" | "freed"
  gpio,      \* the pin is requested
  installed, \* key_irq is
  sched,     \* TASKLET_STATE_SCHED
  listed,    \* the tasklet is on the softirq's list
  run,       \* TASKLET_STATE_RUN: "no" | "locked" | "handler"
  count,     \* the disable count
  handling,  \* key_irq has set SCHED and not yet listed the tasklet
  open,      \* an application has the device file open
  late,      \* history: SCHED was set since async_exit began, or when it did
  leaked     \* history: an init failed and left the interrupt installed

ExitSteps == {"disable", "unlock_wait", "kill", "kill_wait", "gpio_free",
              "device_destroy", "class_destroy", "unregister_region", "free_irq", "kfree"}

----------------------------------------------------------------------------
(* "Stop the tasklet": once tasklet_disable has returned, the handler is   *)
(* not running and will not run.                                           *)
DisabledMeansStopped ==
  module \in ExitSteps \ {"disable", "unlock_wait"} => run # "handler"

(* After an init that succeeded or failed without leaving its interrupt    *)
(* behind, the key outlives the interrupt; it is freed under a tasklet     *)
(* still on the softirq's list only when a press came while async_exit     *)
(* ran, and without one nothing at all is left.                            *)
FreedKeyIsUnused ==
  /\ (key # "live" /\ ~leaked) => ~installed /\ ~handling /\ (listed \/ run # "no" => late)
  /\ (module = "out" /\ ~late /\ ~leaked) =>
       key = "none" /\ ~gpio /\ ~installed /\ ~listed /\ run = "no"

(* The tasklet was scheduled when it was disabled or before tasklet_kill:  *)
(* the softirq puts it back again and again, and SCHED stays set.          *)
Hangs == module \in {"unlock_wait", "kill"} /\ sched

(* async_exit then waits in tasklet_kill for ever: no step leads out.      *)
HangsForEver == [][Hangs => Hangs']_<<module, sched>>
=============================================================================
