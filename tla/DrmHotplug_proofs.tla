-------------------------- MODULE DrmHotplug_proofs --------------------------
(***************************************************************************)
(* The hotplug drivers' views of the panel, for any number of clients.     *)
(***************************************************************************)
EXTENDS DrmHotplug, TLAPS

(* mode_config.mutex is held from before a detect until after the store,   *)
(* so two actors are never between the two at once; only the first probe   *)
(* of check_irq_thread takes no lock.                                      *)
Locking ==
  /\ \A c \in Clients : /\ pc[c] \in {"idle", "detect", "store", "flag"}
                        /\ pc[c] # "idle" <=> mutex = c
  /\ pc[Worker] \in {"idle", "first", "store1", "lock", "detect", "store", "event"}
  /\ pc[Worker] \in {"detect", "store"} <=> mutex = Worker

(* Nothing runs before it is armed, and the poll variant has no interrupt. *)
Arming ==
  /\ phase # "armed" => pc[Worker] = "idle" /\ ~edge
  /\ variant = "poll" => ~edge /\ pc[Worker] \notin {"first", "store1"}

(* check_irq_thread has made its own probe and not yet taken the mutex.    *)
Unlocked == variant = "interrupt" /\ pc[Worker] \in {"store1", "lock"}

Agree(view) == view \in PinStates /\ (unplugged <=> view = "disconnected")

(* Whoever has the mutex leaves the two views in agreement: the last       *)
(* result, while it is not stored yet, and the status afterwards.          *)
Views ==
  /\ \A a \in Actors : pc[a] = "store" /\ ~Unlocked => Agree(found[a])
  /\ \A c \in Clients : pc[c] = "flag" /\ ~Unlocked => Agree(status)
  /\ mutex = "nobody" /\ ~Unlocked => status = "unknown" \/ Agree(status)

(* Unless an edge is pending, what is stored, or about to be, is what the  *)
(* pin says.  A client's stale result does not count while the thread is   *)
(* between its edge and the end of its second probe.                       *)
Fresh ==
  variant = "interrupt" /\ phase # "registered" /\ ~missed /\ ~edge =>
    /\ pc[Worker] = "store" => found[Worker] = line
    /\ pc[Worker] \in {"idle", "event"} =>
         /\ mutex = "nobody" => status = line
         /\ \A c \in Clients : /\ pc[c] = "store" => found[c] = line
                               /\ pc[c] = "flag" => status = line

IInv == TypeOK /\ Locking /\ Arming /\ Views /\ Fresh

----------------------------------------------------------------------------
(* The invariant holds after drm_dev_register...                           *)
LEMMA IInvInit == Init => IInv
<1> SUFFICES ASSUME Init PROVE IInv
  OBVIOUS
<1>1. TypeOK
  BY DrmHotplugAssumption DEF Init, TypeOK, PinStates, Statuses, Actors
<1>2. Locking /\ Arming
  BY DrmHotplugAssumption DEF Init, Locking, Arming, Actors
<1>3. Views /\ Fresh
  BY DEF Init, Views, Fresh, Actors
<1> QED
  BY <1>1, <1>2, <1>3 DEF IInv

(* The worker is no client, and nobody is no actor.                        *)
LEMMA ActorsDiffer ==
  /\ Worker \in Actors /\ Clients \subseteq Actors /\ Worker \notin Clients
  /\ "nobody" \notin Actors
  BY DrmHotplugAssumption DEF Actors

(* ...and every step keeps it.                                             *)
LEMMA IInvStep == IInv /\ [Next]_vars => IInv'
<1> SUFFICES ASSUME IInv, [Next]_vars PROVE IInv'
  OBVIOUS
<1> USE ActorsDiffer DEF IInv, TypeOK, Locking, Arming, Goto, Actors
<1>1. CASE Toggle
  <2>1. TypeOK'
    BY <1>1 DEF Toggle, PinStates, Statuses
  <2>2. Locking' /\ Arming'
    BY <1>1 DEF Toggle
  <2>3. Views'
    BY <1>1 DEF Toggle, Views, Unlocked, Agree, PinStates
  <2>4. Fresh'
    BY <1>1 DEF Toggle, Fresh
  <2> QED
    BY <2>1, <2>2, <2>3, <2>4
<1>2. CASE FbdevSetup
  <2>1. TypeOK'
    BY <1>2 DEF FbdevSetup, PinStates, Statuses
  <2>2. Locking' /\ Arming'
    BY <1>2 DEF FbdevSetup
  <2>3. Views'
    BY <1>2 DEF FbdevSetup, Views, Unlocked, Agree, PinStates
  <2>4. Fresh'
    BY <1>2 DEF FbdevSetup, Fresh
  <2> QED
    BY <2>1, <2>2, <2>3, <2>4
<1>3. CASE Arm
  BY <1>3 DEF Arm, Views, Fresh, Unlocked, Agree, PinStates, Statuses
<1>4. CASE IrqThread
  <2>1. TypeOK'
    BY <1>4 DEF IrqThread, PinStates, Statuses
  <2>2. Locking' /\ Arming'
    BY <1>4 DEF IrqThread
  <2>3. Views'
    BY <1>4 DEF IrqThread, Views, Unlocked, Agree, PinStates
  <2>4. Fresh'
    BY <1>4 DEF IrqThread, Fresh
  <2> QED
    BY <2>1, <2>2, <2>3, <2>4
<1>5. CASE IrqDetect
  BY <1>5, DrmHotplugAssumption
  DEF IrqDetect, Detect, Views, Fresh, Unlocked, Agree, PinStates, Statuses
<1>6. CASE IrqStore
  BY <1>6, DrmHotplugAssumption
  DEF IrqStore, Views, Fresh, Unlocked, Agree, PinStates, Statuses
<1>7. CASE HpdLock
  BY <1>7 DEF HpdLock, Views, Fresh, Unlocked, Agree, PinStates, Statuses
<1>8. CASE PollWork
  <2>1. TypeOK'
    BY <1>8 DEF PollWork, PinStates, Statuses
  <2>2. Locking' /\ Arming'
    BY <1>8 DEF PollWork
  <2>3. Views'
    BY <1>8 DEF PollWork, Views, Unlocked, Agree, PinStates
  <2>4. Fresh'
    BY <1>8 DEF PollWork, Fresh
  <2> QED
    BY <2>1, <2>2, <2>3, <2>4
<1>9. CASE PollLock
  BY <1>9 DEF PollLock, Views, Fresh, Unlocked, Agree, PinStates, Statuses
<1>10. CASE PollSkip
  BY <1>10 DEF PollSkip, Views, Fresh, Unlocked, Agree, PinStates, Statuses
<1>11. CASE WorkerDetect
  BY <1>11
  DEF WorkerDetect, Detect, Views, Fresh, Unlocked, Agree, PinStates, Statuses
<1>12. CASE WorkerStore
  BY <1>12 DEF WorkerStore, Views, Fresh, Unlocked, Agree, PinStates, Statuses
<1>13. CASE Event
  BY <1>13 DEF Event, Views, Fresh, Unlocked, Agree, PinStates, Statuses
<1>14. ASSUME NEW c \in Clients, ClientLock(c) PROVE IInv'
  BY <1>14 DEF ClientLock, Views, Fresh, Unlocked, Agree, PinStates, Statuses
<1>15. ASSUME NEW c \in Clients, ClientDetect(c) PROVE IInv'
  <2>1. TypeOK'
    BY <1>15 DEF ClientDetect, Detect, PinStates, Statuses
  <2>2. Locking' /\ Arming'
    BY <1>15 DEF ClientDetect, Detect
  <2>3. Views'
    BY <1>15 DEF ClientDetect, Detect, Views, Unlocked, Agree, PinStates
  <2>4. Fresh'
    BY <1>15 DEF ClientDetect, Detect, Fresh
  <2> QED
    BY <2>1, <2>2, <2>3, <2>4
<1>16. ASSUME NEW c \in Clients, ClientStore(c) PROVE IInv'
  <2>1. TypeOK'
    BY <1>16 DEF ClientStore, PinStates, Statuses
  <2>2. Locking' /\ Arming'
    BY <1>16 DEF ClientStore
  <2>3. Views'
    BY <1>16 DEF ClientStore, Views, Unlocked, Agree, PinStates
  <2>4. Fresh'
    BY <1>16 DEF ClientStore, Fresh
  <2> QED
    BY <2>1, <2>2, <2>3, <2>4
<1>17. ASSUME NEW c \in Clients, ClientFlag(c) PROVE IInv'
  BY <1>17 DEF ClientFlag, Views, Fresh, Unlocked, Agree, PinStates, Statuses
<1>18. CASE UNCHANGED vars
  BY <1>18 DEF vars, Views, Fresh, Unlocked, Agree, PinStates, Statuses
<1> QED
  BY <1>1, <1>2, <1>3, <1>4, <1>5, <1>6, <1>7, <1>8, <1>9, <1>10, <1>11, <1>12, <1>13, <1>14,
     <1>15, <1>16, <1>17, <1>18
  DEF Next, WorkerStep, ClientStep

(* Every reachable state is well typed, whichever driver is loaded.        *)
THEOREM TypeCorrect == Spec => []TypeOK
<1>1. IInv => TypeOK
  BY DEF IInv
<1> QED
  BY <1>1, IInvInit, IInvStep, PTL DEF Spec

(* When nobody is probing, clients are refused exactly while the connector *)
(* counts as disconnected: under the mutex the last detect and the last    *)
(* store are of one probe, and the unlocked probe of check_irq_thread is   *)
(* followed by one under the mutex.                                        *)
THEOREM DriverViewsAgree == Spec => []ViewsAgree
<1>1. IInv => ViewsAgree
  BY DEF IInv, Views, Unlocked, Agree, ViewsAgree, Quiet
<1> QED
  BY <1>1, IInvInit, IInvStep, PTL DEF Spec

(* The interrupt variant's status is what the pin says whenever its thread *)
(* has nothing to do, but for an edge just before the interrupt is on.     *)
THEOREM InterruptStatusIsRight == Spec => []StatusFollowsPin
<1>1. IInv => StatusFollowsPin
  BY DEF IInv, Fresh, StatusFollowsPin, Quiet
<1> QED
  BY <1>1, IInvInit, IInvStep, PTL DEF Spec
==============================================================================
