----------------------------- MODULE DrmDisplay -----------------------------
(***************************************************************************)
(* The life of a display of part7: probe and remove of its SPI driver,     *)
(* while applications and the fbdev emulation commit frames to it.  An     *)
(* update converts the damaged part of the frame into a shadow buffer and  *)
(* sends it to the panel, inside drm_dev_enter and drm_dev_exit.  remove   *)
(* counts on drm_dev_unplug: it sets unplugged, which drm_dev_enter tests, *)
(* and waits for the updates that are inside; then the buffer is freed.    *)
(*                                                                         *)
(* Two things stand against that.  An update whose frame cannot be mapped, *)
(* or has been turned off, never gets to drm_dev_exit.  And detect_ctx     *)
(* of the two hotplug drivers writes unplugged itself, so that a client's  *)
(* probe that is late revives a device that has been removed.              *)
(*                                                                         *)
(* The core's commit, SRCU and free_irq are modelled from how the drivers  *)
(* rely on them; what hotplug detection tells is the module DrmHotplug.    *)
(***************************************************************************)
EXTENDS Naturals, Sequences

CONSTANTS Drivers,  \* which of the eight drivers are considered
          Clients,  \* who commits frames and asks for modes
          Fbdev,    \* the one of them that is the fbdev emulation
          Nobody,   \* no client
          Leak      \* a read section that nobody will ever leave

(* hotplug: who calls detect_ctx besides the clients; vmaps: the update is *)
(* written for Linux 6.1.  It has a second mapping step, which can fail,   *)
(* and looks at nothing before drm_dev_enter.                              *)
SimpleDisplay    == [name |-> "simple-display", hotplug |-> "none", vmaps |-> TRUE]
HotplugInterrupt == [name |-> "hotplug-interrupt", hotplug |-> "irq", vmaps |-> TRUE]
HotplugPoll      == [name |-> "hotplug-poll", hotplug |-> "poll", vmaps |-> TRUE]
St7789New        == [name |-> "st7789-6.1.37", hotplug |-> "none", vmaps |-> TRUE]
Ili9488New       == [name |-> "ili9488-6.1.37", hotplug |-> "none", vmaps |-> TRUE]
St7789Old        == [name |-> "st7789-5.16.17", hotplug |-> "none", vmaps |-> FALSE]
WalnutpiIli9488  == [name |-> "walnutpi-ili9488", hotplug |-> "none", vmaps |-> FALSE]
WalnutpiSt7796   == [name |-> "walnutpi-st7796", hotplug |-> "none", vmaps |-> FALSE]

AllDrivers == {SimpleDisplay, HotplugInterrupt, HotplugPoll, St7789New, Ili9488New,
               St7789Old, WalnutpiIli9488, WalnutpiSt7796}

ASSUME DrmDisplayAssumption ==
  /\ Drivers \subseteq AllDrivers
  /\ Fbdev \in Clients
  /\ Nobody \notin Clients /\ Leak \notin Clients

ProbeSteps(d) ==
  IF d.hotplug = "none"
  THEN <<"pins", "buffer", "register", "drvdata", "fbdev">>
  ELSE <<"pins", "buffer", "register", "drvdata", "fbdev", "arm">>

(* Mutation: remove leaves the poll work running.                          *)
RemoveStepsNoFini(d) ==
  IF d.hotplug = "irq"
  THEN <<"clear", "dc", "reset", "disarm", "join", "detect", "unplug", "wait", "kfree">>
  ELSE <<"clear", "dc", "reset", "unplug", "wait", "kfree">>

(* Mutation: remove puts the detect pin before it frees the interrupt.     *)
RemoveStepsDetectFirst(d) ==
  IF d.hotplug = "irq"
  THEN <<"clear", "dc", "reset", "detect", "disarm", "join", "unplug", "wait", "kfree">>
  ELSE IF d.hotplug = "poll"
  THEN <<"clear", "disarm", "join", "dc", "reset", "unplug", "wait", "kfree">>
  ELSE <<"clear", "dc", "reset", "unplug", "wait", "kfree">>

RemoveSteps(d) ==
  IF d.hotplug = "irq"
  THEN <<"clear", "dc", "reset", "disarm", "join", "detect", "unplug", "wait", "kfree">>
  ELSE IF d.hotplug = "poll"
  THEN <<"clear", "disarm", "join", "dc", "reset", "unplug", "wait", "kfree">>
  ELSE <<"clear", "dc", "reset", "unplug", "wait", "kfree">>

VARIABLES
  driver,      \* the driver of the display
  phase,       \* "probe" | "bound" | "remove" | "gone" | "orphan": probe
               \* failed, but the DRM device stays registered
  step,        \* probe and remove: which of their steps is next
  held,        \* the pins the driver holds
  buffer,      \* "none" | "alive" | "freed"
  registered,  \* applications can open the DRM device
  drvdata,     \* the SPI device points to the display
  armed,       \* the detect interrupt, or the poll work, is on
  edge,        \* an edge of the detect pin waits for its handler
  line,        \* the level of the detect pin: the panel is there
  worker,      \* check_irq_thread or the poll work: "idle" | "start" | "first"
               \* | "detect" | "oops"
  unplugged,   \* drm_dev->unplugged
  revived,     \* history: a client's probe cleared it after drm_dev_unplug set it
  crtc,        \* the client whose commit has its turn
  pc,          \* where each client is
  inside,      \* who is between drm_dev_enter and drm_dev_exit
  grace        \* the sections drm_dev_unplug waits for

device == <<driver, phase, step, held, buffer, registered, drvdata>>
detection == <<armed, edge, line, worker>>
commits == <<crtc, pc, inside, grace>>
vars == <<device, detection, unplugged, revived, commits>>

Pins == {"dc", "reset", "detect"}

Steps == IF phase = "probe" THEN ProbeSteps(driver) ELSE RemoveSteps(driver)

(* Commits take turns, so that at most one update is inside.               *)
TypeOK ==
  /\ driver \in Drivers
  /\ phase \in {"probe", "bound", "remove", "gone", "orphan"}
  /\ step \in 1..Len(Steps)
  /\ held \subseteq Pins
  /\ buffer \in {"none", "alive", "freed"}
  /\ registered \in BOOLEAN /\ drvdata \in BOOLEAN
  /\ armed \in BOOLEAN /\ edge \in BOOLEAN /\ line \in BOOLEAN
  /\ worker \in {"idle", "start", "first", "detect", "oops"}
  /\ unplugged \in BOOLEAN /\ revived \in BOOLEAN
  /\ crtc \in Clients \cup {Nobody}
  /\ pc \in [Clients -> {"idle", "enter", "begin", "vmap", "copy", "send", "tail",
                         "enable", "oops", "probe"}]
  /\ inside \subseteq Clients \cup {Leak}
  /\ \A c, d \in inside \ {Leak} : c = d
  /\ grace \subseteq inside

Init ==
  /\ driver \in Drivers
  /\ phase = "probe"
  /\ step = 1
  /\ held = {}
  /\ buffer = "none"
  /\ registered = FALSE /\ drvdata = FALSE
  /\ armed = FALSE /\ edge = FALSE /\ worker = "idle"
  /\ line \in BOOLEAN
  /\ unplugged = FALSE /\ revived = FALSE
  /\ crtc = Nobody
  /\ pc = [c \in Clients |-> "idle"]
  /\ inside = {} /\ grace = {}

----------------------------------------------------------------------------
(* probe and remove, step by step.                                         *)

At(p, s) == phase = p /\ Steps[step] = s

Advance ==
  IF step < Len(Steps)
  THEN step' = step + 1 /\ UNCHANGED phase
  ELSE step' = 1 /\ phase' = IF phase = "probe" THEN "bound" ELSE "gone"

(* reset and dc, and detect where there is one.                            *)
GetPins ==
  /\ At("probe", "pins")
  /\ held' = IF driver.hotplug = "none" THEN {"dc", "reset"} ELSE Pins
  /\ Advance
  /\ UNCHANGED <<driver, buffer, registered, drvdata, detection, unplugged, revived, commits>>

AllocBuffer ==
  /\ At("probe", "buffer")
  /\ buffer' = "alive"
  /\ Advance
  /\ UNCHANGED <<driver, held, registered, drvdata, detection, unplugged, revived, commits>>

Register ==
  /\ At("probe", "register")
  /\ registered' = TRUE
  /\ Advance
  /\ UNCHANGED <<driver, held, buffer, drvdata, detection, unplugged, revived, commits>>

SetDrvdata ==
  /\ At("probe", "drvdata")
  /\ drvdata' = TRUE
  /\ Advance
  /\ UNCHANGED <<driver, held, buffer, registered, detection, unplugged, revived, commits>>

(* drm_fbdev_generic_setup probes the connector.                           *)
SetupFbdev ==
  /\ At("probe", "fbdev")
  /\ unplugged' = IF driver.hotplug = "none" THEN unplugged ELSE ~line
  /\ Advance
  /\ UNCHANGED <<driver, held, buffer, registered, drvdata, detection, revived, commits>>

Arm ==
  /\ At("probe", "arm")
  /\ armed' = TRUE
  /\ Advance
  /\ UNCHANGED <<driver, held, buffer, registered, drvdata, edge, line, worker, unplugged,
                 revived, commits>>

(* Nothing frees the buffer; the pins are given back with the device.      *)
ProbeFails ==
  /\ phase = "probe"
  /\ Steps[step] \in {"pins", "buffer", "register"}
  /\ phase' = "gone" /\ step' = 1 /\ held' = {}
  /\ UNCHANGED <<driver, buffer, registered, drvdata, detection, unplugged, revived, commits>>

(* request_threaded_irq fails: probe gives up a device in use.             *)
ArmFails ==
  /\ At("probe", "arm")
  /\ driver.hotplug = "irq"
  /\ phase' = "orphan" /\ step' = 1 /\ held' = {} /\ drvdata' = FALSE
  /\ UNCHANGED <<driver, buffer, registered, detection, unplugged, revived, commits>>

Remove ==
  /\ phase = "bound"
  /\ phase' = "remove"
  /\ step' = 1
  /\ UNCHANGED <<driver, held, buffer, registered, drvdata, detection, unplugged, revived,
                 commits>>

ClearDrvdata ==
  /\ At("remove", "clear")
  /\ drvdata' = FALSE
  /\ Advance
  /\ UNCHANGED <<driver, held, buffer, registered, detection, unplugged, revived, commits>>

PutPin(p) ==
  /\ At("remove", p)
  /\ held' = held \ {p}
  /\ Advance
  /\ UNCHANGED <<driver, buffer, registered, drvdata, detection, unplugged, revived, commits>>

(* free_irq and drm_kms_helper_poll_fini keep the handler from starting... *)
Disarm ==
  /\ At("remove", "disarm")
  /\ armed' = FALSE /\ edge' = FALSE
  /\ Advance
  /\ UNCHANGED <<driver, held, buffer, registered, drvdata, line, worker, unplugged, revived,
                 commits>>

(* ...and wait for the one that runs.                                      *)
Join ==
  /\ At("remove", "join")
  /\ worker \in {"idle", "oops"}
  /\ Advance
  /\ UNCHANGED <<driver, held, buffer, registered, drvdata, detection, unplugged, revived,
                 commits>>

(* drm_dev_unplug sets the flag...                                         *)
Unplug ==
  /\ At("remove", "unplug")
  /\ unplugged' = TRUE
  /\ grace' = inside
  /\ Advance
  /\ UNCHANGED <<driver, held, buffer, registered, drvdata, detection, revived, crtc, pc,
                 inside>>

(* ...and waits for the sections that were entered before.                 *)
Wait ==
  /\ At("remove", "wait")
  /\ grace = {}
  /\ Advance
  /\ UNCHANGED <<driver, held, buffer, registered, drvdata, detection, unplugged, revived,
                 commits>>

(* The driver core gives back what pins are left.                          *)
Kfree ==
  /\ At("remove", "kfree")
  /\ buffer' = "freed"
  /\ held' = {}
  /\ Advance
  /\ UNCHANGED <<driver, registered, drvdata, detection, unplugged, revived, commits>>

Probe == GetPins \/ AllocBuffer \/ Register \/ SetDrvdata \/ SetupFbdev \/ Arm

RemoveStep ==
  \/ ClearDrvdata \/ \E p \in Pins : PutPin(p)
  \/ Disarm \/ Join \/ Unplug \/ Wait \/ Kfree

----------------------------------------------------------------------------
(* The panel comes and goes.                                               *)
Toggle ==
  /\ driver.hotplug # "none"
  /\ line' = ~line
  /\ edge' = (armed /\ driver.hotplug = "irq")
  /\ UNCHANGED <<device, armed, worker, unplugged, revived, commits>>

WorkerStart ==
  /\ armed /\ worker = "idle"
  /\ driver.hotplug = "irq" => edge
  /\ worker' = IF driver.hotplug = "irq" THEN "start" ELSE "detect"
  /\ edge' = FALSE
  /\ UNCHANGED <<device, armed, line, unplugged, revived, commits>>

(* check_irq_thread reads the driver data, which remove may have cleared.  *)
WorkerReadDrvdata ==
  /\ worker = "start"
  /\ worker' = IF drvdata THEN "first" ELSE "oops"
  /\ UNCHANGED <<device, armed, edge, line, unplugged, revived, commits>>

(* It detects twice, the poll work once.                                   *)
WorkerDetect ==
  /\ worker \in {"first", "detect"}
  /\ unplugged' = ~line
  /\ worker' = IF worker = "first" THEN "detect" ELSE "idle"
  /\ UNCHANGED <<device, armed, edge, line, revived, commits>>

WorkerStep == WorkerReadDrvdata \/ WorkerDetect

----------------------------------------------------------------------------
(* The clients.  drm_ioctl refuses while unplugged is set; the worker of   *)
(* the fbdev emulation does not come that way.                             *)
Admitted(c) == registered /\ (c = Fbdev \/ ~unplugged)

Goto(c, l) == pc' = [pc EXCEPT ![c] = l]

ClientProbe(c) ==
  /\ pc[c] = "idle" /\ c # Fbdev
  /\ Admitted(c)
  /\ driver.hotplug # "none"
  /\ Goto(c, "probe")
  /\ UNCHANGED <<device, detection, unplugged, revived, crtc, inside, grace>>

UnplugHasBegun ==
  (phase = "remove" /\ Steps[step] \in {"wait", "kfree"}) \/ buffer = "freed"

ClientDetect(c) ==
  /\ pc[c] = "probe"
  /\ unplugged' = ~line
  /\ revived' = (revived \/ (UnplugHasBegun /\ line))
  /\ Goto(c, "idle")
  /\ UNCHANGED <<device, detection, crtc, inside, grace>>

Commit(c) ==
  /\ pc[c] = "idle"
  /\ Admitted(c)
  /\ crtc = Nobody
  /\ crtc' = c
  /\ Goto(c, "enter")
  /\ UNCHANGED <<device, detection, unplugged, revived, inside, grace>>

(* The update.  There may be no damage, or no active CRTC; the drivers for *)
(* Linux 5.16 ask.                                                         *)
NothingToUpdate(c) ==
  /\ pc[c] = "enter"
  /\ ~driver.vmaps
  /\ Goto(c, "tail")
  /\ UNCHANGED <<device, detection, unplugged, revived, crtc, inside, grace>>

Enter(c) ==
  /\ pc[c] = "enter"
  /\ IF unplugged
     THEN Goto(c, "tail") /\ UNCHANGED inside
     ELSE Goto(c, "begin") /\ inside' = inside \cup {c}
  /\ UNCHANGED <<device, detection, unplugged, revived, crtc, grace>>

(* The commit turns the plane off: there is no frame, the update follows a *)
(* null pointer, and the client dies with its turn.  The newer drivers do  *)
(* so only after drm_dev_enter.                                            *)
PlaneOff(c) ==
  /\ pc[c] = "enter"
  /\ IF driver.vmaps /\ unplugged
     THEN Goto(c, "tail") /\ UNCHANGED inside
     ELSE Goto(c, "oops") /\ inside' = IF driver.vmaps THEN inside \cup {Leak} ELSE inside
  /\ UNCHANGED <<device, detection, unplugged, revived, crtc, grace>>

(* drm_gem_fb_begin_cpu_access, and drm_gem_fb_vmap where it is called.    *)
Map(c) ==
  /\ pc[c] \in {"begin", "vmap"}
  /\ Goto(c, IF pc[c] = "begin" /\ driver.vmaps THEN "vmap" ELSE "copy")
  /\ UNCHANGED <<device, detection, unplugged, revived, crtc, inside, grace>>

(* If one of them fails the update returns at once: drm_dev_exit is not    *)
(* called.                                                                 *)
MapFails(c) ==
  /\ pc[c] \in {"begin", "vmap"}
  /\ inside' = (inside \ {c}) \cup {Leak}
  /\ grace' = IF c \in grace THEN (grace \ {c}) \cup {Leak} ELSE grace
  /\ Goto(c, "tail")
  /\ UNCHANGED <<device, detection, unplugged, revived, crtc>>

Copy(c) ==
  /\ pc[c] = "copy"
  /\ Goto(c, "send")
  /\ UNCHANGED <<device, detection, unplugged, revived, crtc, inside, grace>>

(* Mutation: drm_dev_exit is forgotten.                                    *)
SendNoExit(c) ==
  /\ pc[c] = "send"
  /\ Goto(c, "tail")
  /\ UNCHANGED <<device, detection, unplugged, revived, crtc, inside, grace>>

(* The window, the pixels, and drm_dev_exit.                               *)
Send(c) ==
  /\ pc[c] = "send"
  /\ inside' = inside \ {c}
  /\ grace' = grace \ {c}
  /\ Goto(c, "tail")
  /\ UNCHANGED <<device, detection, unplugged, revived, crtc>>

(* A commit that turns the display on enables the panel after the update,  *)
(* unplugged or not.                                                       *)
Enable(c) ==
  /\ pc[c] = "tail"
  /\ Goto(c, "enable")
  /\ UNCHANGED <<device, detection, unplugged, revived, crtc, inside, grace>>

CommitEnds(c) ==
  /\ pc[c] \in {"tail", "enable"}
  /\ crtc' = Nobody
  /\ Goto(c, "idle")
  /\ UNCHANGED <<device, detection, unplugged, revived, inside, grace>>

ClientStep(c) ==
  \/ ClientDetect(c) \/ NothingToUpdate(c) \/ Enter(c) \/ PlaneOff(c) \/ Map(c)
  \/ MapFails(c) \/ Copy(c) \/ Send(c) \/ Enable(c) \/ CommitEnds(c)

Next ==
  \/ Probe \/ ProbeFails \/ ArmFails \/ Remove \/ RemoveStep
  \/ Toggle \/ WorkerStart \/ WorkerStep
  \/ \E c \in Clients : ClientProbe(c) \/ Commit(c) \/ ClientStep(c)

(* remove and the handlers run, and a call into the driver goes on to its  *)
(* end.  Nobody has to commit, nor to remove the display.                  *)
Fairness ==
  /\ WF_vars(RemoveStep) /\ WF_vars(WorkerStep)
  /\ \A c \in Clients : WF_vars(ClientStep(c))

Spec == Init /\ [][Next]_vars /\ Fairness

----------------------------------------------------------------------------
(* No update copies into, or sends from, a shadow buffer that remove has   *)
(* freed, unless a client's own late probe revived the device; the         *)
(* interrupt and the poll work cannot, for remove stops them before.       *)
BufferIsAlive ==
  \A c \in Clients : pc[c] \in {"copy", "send"} => buffer = "alive" \/ revived

(* remove clears the driver data and puts dc and reset before it stops     *)
(* anybody.  Still, the handlers never read a detect pin that has been put *)
(* back, check_irq_thread misses its driver data only once remove has      *)
(* begun, and until then updates and clients' probes have their pins.      *)
HandlersFindTheirDevice ==
  /\ worker \in {"first", "detect"} => "detect" \in held
  /\ worker = "oops" => driver.hotplug = "irq" /\ phase \in {"remove", "gone"}
  /\ phase \in {"probe", "bound"} => \A c \in Clients :
       /\ pc[c] \in {"begin", "vmap", "copy", "send", "enable"} => {"dc", "reset"} \subseteq held
       /\ pc[c] = "probe" => "detect" \in held

(* remove ends, whatever applications commit and however the panel comes   *)
(* and goes, unless an update once failed and never left.                  *)
RemoveEnds == phase = "remove" ~> phase = "gone" \/ Leak \in inside
=============================================================================
