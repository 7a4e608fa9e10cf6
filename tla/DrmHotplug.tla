----------------------------- MODULE DrmHotplug -----------------------------
(***************************************************************************)
(* How the two hotplug display drivers of part7 notice that the panel came *)
(* or went, and tell.  Both read a detect pin in detect_ctx.  In           *)
(* hotplug-interrupt an edge of the pin starts check_irq_thread; in        *)
(* hotplug-poll the DRM core's output_poll_work looks every ten seconds.   *)
(* Clients, who ask for the connector's modes, make the core call          *)
(* detect_ctx too.                                                         *)
(*                                                                         *)
(* The core's helpers (drm_helper_probe_detect, hpd_irq_event, fill_modes  *)
(* and the poll work) are modelled from what the drivers rely on: detect   *)
(* is serialised by connection_mutex and notes when its result is not the  *)
(* status; everybody but the first probe of check_irq_thread holds         *)
(* mode_config.mutex around detect and the store of the status; an event   *)
(* goes out when the result was noted as new.                              *)
(*                                                                         *)
(* pc labels: "idle"; "first", "store1" the driver's own probe in          *)
(* check_irq_thread; "lock" about to take the mutex; "detect" and "store"  *)
(* under it; "flag" a client about to set delayed_event; "event".          *)
(***************************************************************************)
EXTENDS Naturals

CONSTANTS Variants,  \* which of the two drivers are considered
          Clients,   \* who asks for modes
          Worker     \* check_irq_thread, or output_poll_work

ASSUME DrmHotplugAssumption ==
  /\ Variants \subseteq {"interrupt", "poll"}
  /\ Worker \notin Clients
  /\ "nobody" \notin Clients \cup {Worker}

VARIABLES
  variant,        \* the loaded driver
  phase,          \* "registered" | "fbdev" set up | "armed": irq or poll work is on
  line,           \* what the detect pin says
  unplugged,      \* drm_dev->unplugged, which detect_ctx writes
  status,         \* connector->status
  mutex,          \* the holder of mode_config.mutex, or "nobody"
  pc, found,      \* where each actor is, and what its detect returned
  changed,        \* the worker has a change to report
  was,            \* what a client found in status before its detect
  edge,           \* an edge of the pin that check_irq_thread has yet to see
  delayed_event,  \* mode_config.delayed_event
  told,           \* the status the last event, or fbdev's own probe, found
  missed          \* history: the last edge came after fbdev's probe and before "armed"

vars == <<variant, phase, line, unplugged, status, mutex, pc, found, changed, was,
          edge, delayed_event, told, missed>>

Actors == Clients \cup {Worker}
PinStates == {"connected", "disconnected"}
Statuses == PinStates \cup {"unknown"}

TypeOK ==
  /\ variant \in Variants
  /\ phase \in {"registered", "fbdev", "armed"}
  /\ line \in PinStates
  /\ unplugged \in BOOLEAN
  /\ status \in Statuses
  /\ mutex \in Actors \cup {"nobody"}
  /\ pc \in [Actors -> {"idle", "first", "store1", "lock", "detect", "store", "flag", "event"}]
  /\ found \in [Actors -> Statuses]
  /\ changed \in BOOLEAN
  /\ was \in [Clients -> Statuses]
  /\ edge \in BOOLEAN
  /\ delayed_event \in BOOLEAN
  /\ told \in Statuses
  /\ missed \in BOOLEAN

(* drm_dev_register has made the device; nobody has probed it yet.         *)
Init ==
  /\ variant \in Variants
  /\ phase = "registered"
  /\ line \in PinStates
  /\ unplugged = FALSE
  /\ status = "unknown"
  /\ mutex = "nobody"
  /\ pc = [a \in Actors |-> "idle"]
  /\ found = [a \in Actors |-> "unknown"]
  /\ changed = FALSE
  /\ was = [c \in Clients |-> "unknown"]
  /\ edge = FALSE
  /\ delayed_event = FALSE
  /\ told = "unknown"
  /\ missed = FALSE

Goto(a, l) == pc' = [pc EXCEPT ![a] = l]

(* The panel is plugged in or out.  The interrupt latches the edge.        *)
Toggle ==
  /\ line' \in PinStates \ {line}
  /\ edge' = (edge \/ (variant = "interrupt" /\ phase = "armed"))
  /\ missed' = (phase # "armed")
  /\ UNCHANGED <<variant, phase, unplugged, status, mutex, pc, found, changed, was,
                 delayed_event, told>>

(* Mutation: detect_ctx takes the pin's levels the wrong way round.        *)
DetectInverted(a) ==
  /\ unplugged' = (line = "connected")
  /\ found' = [found EXCEPT ![a] = line]

(* connector_helper_detect_ctx: the pin, by way of dev->unplugged.         *)
Detect(a) ==
  /\ unplugged' = (line = "disconnected")
  /\ found' = [found EXCEPT ![a] = line]

----------------------------------------------------------------------------
(* The end of the probe functions.                                         *)

(* drm_fbdev_generic_setup probes the connector, as a client would.        *)
FbdevSetup ==
  /\ phase = "registered"
  /\ mutex = "nobody"
  /\ phase' = "fbdev"
  /\ unplugged' = (line = "disconnected")
  /\ status' = line
  /\ told' = line
  /\ delayed_event' = (delayed_event \/ status # line)
  /\ missed' = FALSE
  /\ UNCHANGED <<variant, line, mutex, pc, found, changed, was, edge>>

(* request_threaded_irq, or drm_kms_helper_poll_init.                      *)
Arm ==
  /\ phase = "fbdev"
  /\ phase' = "armed"
  /\ UNCHANGED <<variant, line, unplugged, status, mutex, pc, found, changed, was, edge,
                 delayed_event, told, missed>>

----------------------------------------------------------------------------
(* check_irq_thread.                                                       *)

IrqThread ==
  /\ variant = "interrupt"
  /\ edge
  /\ pc[Worker] = "idle"
  /\ edge' = FALSE
  /\ Goto(Worker, "first")
  /\ UNCHANGED <<variant, phase, line, unplugged, status, mutex, found, changed, was,
                 delayed_event, told, missed>>

(* drm->connector.status = drm_helper_probe_detect(...).                   *)
IrqDetect ==
  /\ pc[Worker] = "first"
  /\ Detect(Worker)
  /\ Goto(Worker, "store1")
  /\ UNCHANGED <<variant, phase, line, status, mutex, changed, was, edge, delayed_event,
                 told, missed>>

(* Mutation: check_irq_thread ends after its own, unlocked probe.          *)
IrqStoreOnly ==
  /\ pc[Worker] = "store1"
  /\ status' = found[Worker]
  /\ Goto(Worker, "idle")
  /\ UNCHANGED <<variant, phase, line, unplugged, mutex, found, changed, was, edge,
                 delayed_event, told, missed>>

IrqStore ==
  /\ pc[Worker] = "store1"
  /\ status' = found[Worker]
  /\ Goto(Worker, "lock")
  /\ UNCHANGED <<variant, phase, line, unplugged, mutex, found, changed, was, edge,
                 delayed_event, told, missed>>

(* drm_connector_helper_hpd_irq_event waits for the mutex...               *)
HpdLock ==
  /\ variant = "interrupt"
  /\ pc[Worker] = "lock"
  /\ mutex = "nobody"
  /\ mutex' = Worker
  /\ Goto(Worker, "detect")
  /\ UNCHANGED <<variant, phase, line, unplugged, status, found, changed, was, edge,
                 delayed_event, told, missed>>

----------------------------------------------------------------------------
(* output_poll_work.                                                       *)

PollWork ==
  /\ variant = "poll"
  /\ phase = "armed"
  /\ pc[Worker] = "idle"
  /\ changed' = delayed_event
  /\ delayed_event' = FALSE
  /\ Goto(Worker, "lock")
  /\ UNCHANGED <<variant, phase, line, unplugged, status, mutex, found, was, edge, told, missed>>

PollLock ==
  /\ variant = "poll"
  /\ pc[Worker] = "lock"
  /\ mutex = "nobody"
  /\ mutex' = Worker
  /\ Goto(Worker, "detect")
  /\ UNCHANGED <<variant, phase, line, unplugged, status, found, changed, was, edge,
                 delayed_event, told, missed>>

(* mutex_trylock fails: no probe this time.                                *)
PollSkip ==
  /\ variant = "poll"
  /\ pc[Worker] = "lock"
  /\ mutex # "nobody"
  /\ Goto(Worker, "event")
  /\ UNCHANGED <<variant, phase, line, unplugged, status, mutex, found, changed, was, edge,
                 delayed_event, told, missed>>

----------------------------------------------------------------------------
(* Common to both: probe under the mutex, and send the event if the probe  *)
(* noted a change.                                                         *)

WorkerDetect ==
  /\ pc[Worker] = "detect"
  /\ Detect(Worker)
  /\ changed' = (changed \/ line # status)
  /\ Goto(Worker, "store")
  /\ UNCHANGED <<variant, phase, line, status, mutex, was, edge, delayed_event, told, missed>>

WorkerStore ==
  /\ pc[Worker] = "store"
  /\ status' = found[Worker]
  /\ mutex' = "nobody"
  /\ Goto(Worker, "event")
  /\ UNCHANGED <<variant, phase, line, unplugged, found, changed, was, edge, delayed_event,
                 told, missed>>

Event ==
  /\ pc[Worker] = "event"
  /\ told' = IF changed THEN status ELSE told
  /\ changed' = FALSE
  /\ Goto(Worker, "idle")
  /\ UNCHANGED <<variant, phase, line, unplugged, status, mutex, found, was, edge,
                 delayed_event, missed>>

----------------------------------------------------------------------------
(* A client asks for the modes.  drm_ioctl refuses while unplugged is set. *)

ClientLock(c) ==
  /\ pc[c] = "idle"
  /\ ~unplugged
  /\ mutex = "nobody"
  /\ mutex' = c
  /\ was' = [was EXCEPT ![c] = status]
  /\ Goto(c, "detect")
  /\ UNCHANGED <<variant, phase, line, unplugged, status, found, changed, edge,
                 delayed_event, told, missed>>

ClientDetect(c) ==
  /\ pc[c] = "detect"
  /\ Detect(c)
  /\ Goto(c, "store")
  /\ UNCHANGED <<variant, phase, line, status, mutex, changed, was, edge, delayed_event,
                 told, missed>>

ClientStore(c) ==
  /\ pc[c] = "store"
  /\ status' = found[c]
  /\ Goto(c, "flag")
  /\ UNCHANGED <<variant, phase, line, unplugged, mutex, found, changed, was, edge,
                 delayed_event, told, missed>>

(* Mutation: a client's probe leaves no note.                              *)
ClientNoFlag(c) ==
  /\ pc[c] = "flag"
  /\ mutex' = "nobody"
  /\ was' = [was EXCEPT ![c] = "unknown"]
  /\ found' = [found EXCEPT ![c] = "unknown"]
  /\ Goto(c, "idle")
  /\ UNCHANGED <<variant, phase, line, unplugged, status, changed, edge, delayed_event, told, missed>>

(* A status that is new leaves a note for output_poll_work.                *)
ClientFlag(c) ==
  /\ pc[c] = "flag"
  /\ delayed_event' = (delayed_event \/ status # was[c])
  /\ mutex' = "nobody"
  /\ was' = [was EXCEPT ![c] = "unknown"]
  /\ found' = [found EXCEPT ![c] = "unknown"]
  /\ Goto(c, "idle")
  /\ UNCHANGED <<variant, phase, line, unplugged, status, changed, edge, told, missed>>

----------------------------------------------------------------------------
WorkerStep ==
  \/ IrqThread \/ IrqDetect \/ IrqStore \/ HpdLock
  \/ PollWork \/ PollLock \/ PollSkip
  \/ WorkerDetect \/ WorkerStore \/ Event

ClientStep(c) == ClientDetect(c) \/ ClientStore(c) \/ ClientFlag(c)

Next ==
  \/ Toggle \/ FbdevSetup \/ Arm \/ WorkerStep
  \/ \E c \in Clients : ClientLock(c) \/ ClientStep(c)

(* Probe ends, threads and the poll work run, and probes are short beside  *)
(* the ten seconds between two polls, so not every poll, and not every     *)
(* wait for the mutex, meets a client that holds it.  The panel need not   *)
(* be touched, and nobody has to ask for modes.                            *)
Fairness ==
  /\ SF_vars(FbdevSetup) /\ WF_vars(Arm)
  /\ WF_vars(WorkerStep)
  /\ SF_vars(HpdLock) /\ SF_vars(PollLock)
  /\ \A c \in Clients : WF_vars(ClientStep(c))

Spec == Init /\ [][Next]_vars /\ Fairness

----------------------------------------------------------------------------
Quiet == mutex = "nobody" /\ pc[Worker] = "idle" /\ ~edge

(* Whoever probed last, and in whatever order the results were stored, the *)
(* driver's two views of the panel agree when nobody is probing: clients   *)
(* are refused exactly while the connector counts as disconnected.         *)
ViewsAgree ==
  (Quiet /\ status # "unknown") => (unplugged <=> status = "disconnected")

(* The interrupt variant's status is right whenever its thread has nothing *)
(* to do: no stale result of a client or of the thread's unlocked probe    *)
(* survives.  An edge just before request_threaded_irq is the exception.   *)
StatusFollowsPin ==
  (variant = "interrupt" /\ phase = "armed" /\ Quiet /\ ~missed) => status = line

(* The poll variant: plug or unplug the panel and leave it, and listeners  *)
(* are told in the end.                                                    *)
PollTellsChange ==
  variant = "poll" => \A s \in PinStates : <>[](line = s) => <>[](told = s)

(* "Here the bottom half is used to send the hotplug message": once the    *)
(* interrupt thread is done with an edge, the listeners have been told     *)
(* what the status is.  The code does not keep this: the thread stores     *)
(* what it has probed, so that the helper, which compares with the stored  *)
(* status, finds nothing new and sends nothing for an ordinary plug.       *)
ThreadTellsChange ==
  (variant = "interrupt" /\ phase = "armed" /\ Quiet /\ ~missed) => told = status
=============================================================================
