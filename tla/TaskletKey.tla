----------------------------- MODULE TaskletKey -----------------------------
(***************************************************************************)
(* part6/tasklet/tasklet_demo.c: a key interrupt schedules a tasklet, and  *)
(* module exit disables the tasklet, kills it and frees everything, the    *)
(* interrupt last but one.                                                 *)
(*                                                                         *)
(* The kernel's tasklet is modelled from what this driver relies on: the   *)
(* SCHED bit, the softirq list, the RUN bit that serialises the handler,   *)
(* and the disable count, which makes the softirq put a scheduled tasklet  *)
(* back on its list, SCHED still set.                                      *)
(***************************************************************************)
EXTENDS TaskletState

vars == <<module, key, gpio, installed, sched, listed, run, count, handling, open, late, leaked>>

InitSteps == {"gpio_request", "request_irq", "alloc_region", "create_device"}
TypeOK ==
  /\ module \in {"out", "in"} \cup InitSteps \cup ExitSteps
  /\ key \in {"none", "live", "freed"}
  /\ gpio \in BOOLEAN /\ installed \in BOOLEAN
  /\ sched \in BOOLEAN /\ listed \in BOOLEAN
  /\ run \in {"no", "locked", "handler"}
  /\ count \in 0..1
  /\ open \in BOOLEAN /\ handling \in BOOLEAN
  /\ late \in BOOLEAN /\ leaked \in BOOLEAN

Init ==
  /\ module = "out"
  /\ key = "none"
  /\ gpio = FALSE /\ installed = FALSE
  /\ sched = FALSE /\ listed = FALSE
  /\ run = "no"
  /\ count = 0
  /\ open = FALSE /\ handling = FALSE
  /\ late = FALSE /\ leaked = FALSE

----------------------------------------------------------------------------
Goto(s) == module' = s

(* async_init: the key and its tasklet, the pin, the interrupt, the device *)
(* number, the device.  Each may fail.  A key that was freed under its     *)
(* tasklet or its interrupt is the end of what this model describes.       *)
InitKey ==
  /\ module = "out"
  /\ key = "none"
  /\ key' = "live"
  /\ sched' = FALSE /\ listed' = FALSE /\ run' = "no"
  /\ count' = 0
  /\ late' = FALSE
  /\ Goto("gpio_request")
  /\ UNCHANGED <<gpio, installed, handling, open, leaked>>

InitGpio ==
  /\ module = "gpio_request"
  /\ \/ gpio' = TRUE /\ Goto("request_irq") /\ UNCHANGED key
     \/ key' = "none" /\ Goto("out") /\ UNCHANGED gpio
  /\ UNCHANGED <<installed, sched, listed, run, count, handling, open, late, leaked>>

InitIrq ==
  /\ module = "request_irq"
  /\ \/ installed' = TRUE /\ Goto("alloc_region") /\ UNCHANGED <<key, gpio>>
     \/ key' = "none" /\ gpio' = FALSE /\ Goto("out") /\ UNCHANGED installed
  /\ UNCHANGED <<sched, listed, run, count, handling, open, late, leaked>>

(* Without a device number init returns -1 and leaves pin, interrupt and   *)
(* key as they are.                                                        *)
InitRegion ==
  /\ module = "alloc_region"
  /\ \/ Goto("create_device") /\ UNCHANGED leaked
     \/ leaked' = TRUE /\ Goto("out")
  /\ UNCHANGED <<key, gpio, installed, sched, listed, run, count, handling, open, late>>

(* Without a device the labels err2, err1 and err give back everything but *)
(* the interrupt.                                                          *)
InitDevice ==
  /\ module = "create_device"
  /\ \/ Goto("in") /\ UNCHANGED <<key, gpio, leaked>>
     \/ key' = "freed" /\ gpio' = FALSE /\ leaked' = TRUE /\ Goto("out")
  /\ UNCHANGED <<installed, sched, listed, run, count, handling, open, late>>

(* The device file does nothing, but the module stays while it is open.    *)
Open ==
  /\ module = "in" /\ ~open
  /\ open' = TRUE
  /\ UNCHANGED <<module, key, gpio, installed, sched, listed, run, count, handling, late, leaked>>

Close ==
  /\ open
  /\ open' = FALSE
  /\ UNCHANGED <<module, key, gpio, installed, sched, listed, run, count, handling, late, leaked>>

----------------------------------------------------------------------------
(* key_irq: tasklet_schedule sets SCHED, and lists a tasklet that had it   *)
(* clear.  With the key freed it writes to freed memory, which is outside  *)
(* this model.                                                             *)
Press ==
  /\ installed /\ ~handling
  /\ key = "live"
  /\ sched' = TRUE
  /\ handling' = ~sched
  /\ late' = (late \/ module \in ExitSteps)
  /\ UNCHANGED <<module, key, gpio, installed, listed, run, count, open, leaked>>

(* Mutation: the tasklet is marked as scheduled and never listed.          *)
PressNotListed ==
  /\ handling /\ key = "live"
  /\ handling' = FALSE
  /\ UNCHANGED <<module, key, gpio, installed, sched, listed, run, count, open, late, leaked>>

PressLists ==
  /\ handling /\ key = "live"
  /\ listed' = TRUE
  /\ handling' = FALSE
  /\ UNCHANGED <<module, key, gpio, installed, sched, run, count, open, late, leaked>>

(* The softirq takes the tasklet and tries its RUN bit...                  *)
SoftirqLock ==
  /\ listed /\ run = "no" /\ key = "live"
  /\ listed' = FALSE
  /\ run' = "locked"
  /\ UNCHANGED <<module, key, gpio, installed, sched, count, handling, open, late, leaked>>

(* ...and either clears SCHED and calls tasklet_handler...                 *)
SoftirqRun ==
  /\ run = "locked" /\ count = 0
  /\ sched' = FALSE
  /\ run' = "handler"
  /\ UNCHANGED <<module, key, gpio, installed, listed, count, handling, open, late, leaked>>

HandlerEnd ==
  /\ run = "handler"
  /\ run' = "no"
  /\ UNCHANGED <<module, key, gpio, installed, sched, listed, count, handling, open, late, leaked>>

(* ...or, when it is disabled, puts it back.                               *)
SoftirqPutBack ==
  /\ run = "locked" /\ count > 0
  /\ listed' = TRUE
  /\ run' = "no"
  /\ UNCHANGED <<module, key, gpio, installed, sched, count, handling, open, late, leaked>>

----------------------------------------------------------------------------
(* async_exit.                                                             *)

ExitBegin ==
  /\ module = "in" /\ ~open
  /\ Goto("disable")
  /\ late' = sched
  /\ UNCHANGED <<key, gpio, installed, sched, listed, run, count, handling, open, leaked>>

(* tasklet_disable: the count, then a wait for a handler that runs.        *)
ExitDisable ==
  /\ module = "disable"
  /\ Goto("unlock_wait")
  /\ count' = 1
  /\ UNCHANGED <<key, gpio, installed, sched, listed, run, handling, open, late, leaked>>

(* Mutation: tasklet_disable_nosync.                                       *)
ExitDisableNosync ==
  /\ module = "unlock_wait"
  /\ Goto("kill")
  /\ UNCHANGED <<key, gpio, installed, sched, listed, run, count, handling, open, late, leaked>>

ExitUnlockWait ==
  /\ module = "unlock_wait"
  /\ run = "no"
  /\ Goto("kill")
  /\ UNCHANGED <<key, gpio, installed, sched, listed, run, count, handling, open, late, leaked>>

(* Mutation: tasklet_kill waits for SCHED to be set.                       *)
ExitKillInverted ==
  /\ module = "kill"
  /\ sched
  /\ Goto("kill_wait")
  /\ UNCHANGED <<key, gpio, installed, sched, listed, run, count, handling, open, late, leaked>>

(* tasklet_kill: it waits until it is the one to set SCHED, then for RUN.  *)
ExitKill ==
  /\ module = "kill"
  /\ ~sched
  /\ sched' = TRUE
  /\ Goto("kill_wait")
  /\ UNCHANGED <<key, gpio, installed, listed, run, count, handling, open, late, leaked>>

ExitKillWait ==
  /\ module = "kill_wait"
  /\ run = "no"
  /\ sched' = FALSE
  /\ Goto("gpio_free")
  /\ UNCHANGED <<key, gpio, installed, listed, run, count, handling, open, late, leaked>>

(* gpio_free, then the device, its class and its number, one by one; the   *)
(* interrupt is still installed.                                           *)
ExitGpioFree ==
  /\ module = "gpio_free"
  /\ gpio' = FALSE
  /\ Goto("device_destroy")
  /\ UNCHANGED <<key, installed, sched, listed, run, count, handling, open, late, leaked>>

ExitDevice ==
  /\ \/ module = "device_destroy" /\ Goto("class_destroy")
     \/ module = "class_destroy" /\ Goto("unregister_region")
     \/ module = "unregister_region" /\ Goto("free_irq")
  /\ UNCHANGED <<key, gpio, installed, sched, listed, run, count, handling, open, late, leaked>>

(* Mutation: async_exit forgets the interrupt.                             *)
ExitKeepsIrq ==
  /\ module = "free_irq"
  /\ ~handling
  /\ Goto("kfree")
  /\ UNCHANGED <<key, gpio, installed, sched, listed, run, count, handling, open, late, leaked>>

(* free_irq waits for a key_irq that still runs.                           *)
ExitFreeIrq ==
  /\ module = "free_irq"
  /\ ~handling
  /\ installed' = FALSE
  /\ Goto("kfree")
  /\ UNCHANGED <<key, gpio, sched, listed, run, count, handling, open, late, leaked>>

(* kfree.  Only a key nobody points to any more may be forgotten.          *)
ExitKfree ==
  /\ module = "kfree"
  /\ key' = IF listed \/ run # "no" THEN "freed" ELSE "none"
  /\ Goto("out")
  /\ UNCHANGED <<gpio, installed, sched, listed, run, count, handling, open, late, leaked>>

----------------------------------------------------------------------------
Softirq == SoftirqLock \/ SoftirqRun \/ HandlerEnd \/ SoftirqPutBack
ExitStep ==
  \/ ExitDisable \/ ExitUnlockWait \/ ExitKill \/ ExitKillWait
  \/ ExitGpioFree \/ ExitDevice \/ ExitFreeIrq \/ ExitKfree

Next ==
  \/ InitKey \/ InitGpio \/ InitIrq \/ InitRegion \/ InitDevice \/ Open \/ Close
  \/ Press \/ PressLists \/ Softirq \/ ExitBegin \/ ExitStep

(* The interrupt ends, the softirq runs, and the exit function goes on     *)
(* whenever it can; strongly fair because the softirq that keeps putting a *)
(* disabled tasklet back must not keep RUN from the wait for it.  Nobody   *)
(* has to press a key or to remove the module.                             *)
Fairness ==
  /\ WF_vars(PressLists)
  /\ WF_vars(Softirq)
  /\ SF_vars(ExitStep)

Spec == Init /\ [][Next]_vars /\ Fairness

----------------------------------------------------------------------------
(* A press schedules the tasklet once more or finds it scheduled: either   *)
(* way the handler starts after it, unless the module is being removed.    *)
PressIsHandled ==
  (sched /\ module = "in") ~> (run = "handler" \/ module # "in")

(* "Stop the tasklet, clean up its resources": async_exit ends, unless the *)
(* tasklet is scheduled between tasklet_disable and tasklet_kill, and then *)
(* it never does.                                                          *)
ExitEndsOrHangs ==
  /\ module = "disable" ~> (module = "out" \/ Hangs)
  /\ HangsForEver
=============================================================================
