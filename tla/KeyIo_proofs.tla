--------------------------- MODULE KeyIo_proofs ---------------------------
(***************************************************************************)
(* Safety of the key drivers for any set of readers, any subset of the     *)
(* five drivers and any number of CPUs, and, in the last two parts, of the *)
(* deferred work of part6: the tasklet demo's and the thread demos'.       *)
(***************************************************************************)
EXTENDS KeyIo, TaskletState, WorkState, Sequences, TLAPS

(* A step of one reader, or of the signal sender against it.               *)
ReaderStep(r) == ReadNonblock(r) \/ ReadWait(r) \/ PollCall(r) \/ Signal(r) \/ Step(r)

(* A step is the interrupt's or one reader's.                              *)
LEMMA NextIsReaderOrIrq ==
  Next <=> IrqWake \/ IrqSet \/ \E r \in Readers : ReaderStep(r)
  BY DEF Next, ReaderStep

(* Every reachable state is well typed.                                    *)
THEOREM TypeCorrect == Spec => []TypeOK
<1>1. Init => TypeOK
  BY KeyIoAssumption DEF Init, TypeOK, NonblockIo, Labels, NoValue
<1>2. TypeOK /\ [Next]_vars => TypeOK'
  <2> SUFFICES ASSUME TypeOK, [Next]_vars PROVE TypeOK'
    OBVIOUS
  <2>1. CASE IrqWake
    BY <2>1 DEF TypeOK, IrqWake, config, ghosts, Queued
  <2>2. CASE IrqSet
    BY <2>2 DEF TypeOK, IrqSet, config
  <2>3. ASSUME NEW r \in Readers, ReaderStep(r) PROVE TypeOK'
    <3> USE DEF TypeOK, config, ghosts, Goto, Labels, NoValue
    <3>1. CASE ReadNonblock(r)
      BY <3>1 DEF ReadNonblock, Consume
    <3>2. CASE ReadWait(r)
      BY <3>2 DEF ReadWait, Consume
    <3>3. CASE PollCall(r)
      BY <3>3 DEF PollCall
    <3>4. CASE Signal(r)
      BY <3>4 DEF Signal
    <3>5. CASE PrepareToWait(r)
      BY <3>5 DEF PrepareToWait
    <3>6. CASE Recheck(r)
      BY <3>6 DEF Recheck, Consume
    <3>7. CASE WakeUp(r)
      BY <3>7 DEF WakeUp
    <3>8. CASE ClearPress(r)
      BY <3>8 DEF ClearPress, Committed
    <3>9. CASE CopyToUser(r)
      BY <3>9 DEF CopyToUser
    <3>10. CASE Return(r)
      BY <3>10 DEF Return
    <3>11. CASE PollCheck(r)
      BY <3>11 DEF PollCheck
    <3>12. CASE PollWake(r)
      BY <3>12 DEF PollWake
    <3>13. CASE PollTimeout(r)
      BY <3>13 DEF PollTimeout
    <3>14. CASE PollLast(r)
      BY <3>14 DEF PollLast
    <3>15. CASE PollInterrupted(r)
      BY <3>15 DEF PollInterrupted
    <3> QED
      BY <2>3, <3>1, <3>2, <3>3, <3>4, <3>5, <3>6, <3>7, <3>8, <3>9, <3>10,
         <3>11, <3>12, <3>13, <3>14, <3>15 DEF ReaderStep, Step
  <2>4. CASE UNCHANGED vars
    BY <2>4 DEF TypeOK, vars
  <2> QED
    BY <2>1, <2>2, <2>3, <2>4, NextIsReaderOrIrq
<1> QED
  BY <1>1, <1>2, PTL DEF Spec

----------------------------------------------------------------------------
(* Why at most one press is slept through.  A reader falls asleep only     *)
(* with the flag clear; only the handler it raced with can then set it     *)
(* without waking the reader.                                              *)
SleepInv ==
  /\ ev_press = 0 <=> pend = 0
  /\ \A r \in Readers : Asleep(r) =>
       /\ pend <= 1
       /\ irq = "woke" => pend = 0
       /\ cpus = 1 => pend = 0 /\ irq = "idle"

(* Every step keeps what is known of sleeping readers.                     *)
LEMMA SleepInvStep ==
  TypeOK /\ SleepInv /\ [Next]_vars => SleepInv'
<1> SUFFICES ASSUME TypeOK, SleepInv, [Next]_vars PROVE SleepInv'
  OBVIOUS
<1> USE DEF SleepInv, Asleep, TypeOK, config, ghosts
<1>1. CASE IrqWake
  BY <1>1 DEF IrqWake, Queued
<1>2. CASE IrqSet
  BY <1>2 DEF IrqSet
<1>3. ASSUME NEW r \in Readers, ReaderStep(r) PROVE SleepInv'
  <2> USE DEF Goto, Labels, ThreadsRun
  <2>1. CASE ReadNonblock(r)
    BY <2>1 DEF ReadNonblock, Consume
  <2>2. CASE ReadWait(r)
    BY <2>2 DEF ReadWait, Consume
  <2>3. CASE PollCall(r)
    BY <2>3 DEF PollCall
  <2>4. CASE Signal(r)
    BY <2>4 DEF Signal
  <2>5. CASE PrepareToWait(r)
    BY <2>5 DEF PrepareToWait
  <2>6. CASE Recheck(r)
    BY <2>6 DEF Recheck, Consume
  <2>7. CASE WakeUp(r)
    BY <2>7 DEF WakeUp
  <2>8. CASE ClearPress(r)
    BY <2>8 DEF ClearPress
  <2>9. CASE CopyToUser(r)
    BY <2>9 DEF CopyToUser
  <2>10. CASE Return(r)
    BY <2>10 DEF Return
  <2>11. CASE PollCheck(r)
    BY <2>11 DEF PollCheck
  <2>12. CASE PollWake(r)
    BY <2>12 DEF PollWake
  <2>13. CASE PollTimeout(r)
    BY <2>13 DEF PollTimeout
  <2>14. CASE PollLast(r)
    BY <2>14 DEF PollLast
  <2>15. CASE PollInterrupted(r)
    BY <2>15 DEF PollInterrupted
  <2> QED
    BY <1>3, <2>1, <2>2, <2>3, <2>4, <2>5, <2>6, <2>7, <2>8, <2>9, <2>10,
       <2>11, <2>12, <2>13, <2>14, <2>15 DEF ReaderStep, Step
<1>4. CASE UNCHANGED vars
  BY <1>4 DEF vars
<1> QED
  BY <1>1, <1>2, <1>3, <1>4, NextIsReaderOrIrq

(* A reader that no wake-up has reached sleeps through at most one press,  *)
(* and through none with a single CPU.                                     *)
THEOREM MissesAtMostOne == Spec => []MissesAtMostOnePress
<1>1. Init => SleepInv
  BY DEF Init, SleepInv, Asleep
<1>2. TypeOK /\ SleepInv => MissesAtMostOnePress
  BY DEF TypeOK, SleepInv, MissesAtMostOnePress
<1> QED
  BY <1>1, <1>2, SleepInvStep, TypeCorrect, PTL DEF Spec

----------------------------------------------------------------------------
(* What a read in progress stands on: a press it has seen and not yet      *)
(* consumed, or a value it has copied out of the flag.                     *)
ReadInv ==
  /\ NoPhantomRead
  /\ \A r \in Readers :
       (pc[r] \in {"clear", "ret"} /\ CopyFirst(r) /\ r \notin cut /\ r \notin robbed)
         => val[r] \in {1, NoValue}
  /\ \A r \in Readers :
       (pc[r] = "ret" /\ ~CopyFirst(r) /\ r \notin robbed /\ val[r] = 1) => ev_press = 1

(* Every step keeps what is known of the values read.                      *)
LEMMA ReadInvStep ==
  TypeOK /\ ReadInv /\ [Next]_vars => ReadInv'
<1> SUFFICES ASSUME TypeOK, ReadInv, [Next]_vars PROVE ReadInv'
  OBVIOUS
<1> USE DEF ReadInv, NoPhantomRead, Consume, CopyFirst, TypeOK, config, ghosts, NoValue
<1>1. CASE IrqWake
  BY <1>1 DEF IrqWake
<1>2. CASE IrqSet
  BY <1>2 DEF IrqSet
<1>3. ASSUME NEW r \in Readers, ReaderStep(r) PROVE ReadInv'
  <2> USE DEF Goto, Labels
  <2>1. CASE ReadNonblock(r)
    BY <2>1 DEF ReadNonblock
  <2>2. CASE ReadWait(r)
    BY <2>2 DEF ReadWait
  <2>3. CASE PollCall(r)
    BY <2>3 DEF PollCall
  <2>4. CASE Signal(r)
    BY <2>4 DEF Signal
  <2>5. CASE PrepareToWait(r)
    BY <2>5 DEF PrepareToWait
  <2>6. CASE Recheck(r)
    BY <2>6 DEF Recheck
  <2>7. CASE WakeUp(r)
    BY <2>7 DEF WakeUp
  <2>8. CASE ClearPress(r)
    BY <2>8 DEF ClearPress, Committed
  <2>9. CASE CopyToUser(r)
    BY <2>9 DEF CopyToUser
  <2>10. CASE Return(r)
    BY <2>10 DEF Return
  <2>11. CASE PollCheck(r)
    BY <2>11 DEF PollCheck
  <2>12. CASE PollWake(r)
    BY <2>12 DEF PollWake
  <2>13. CASE PollTimeout(r)
    BY <2>13 DEF PollTimeout
  <2>14. CASE PollLast(r)
    BY <2>14 DEF PollLast
  <2>15. CASE PollInterrupted(r)
    BY <2>15 DEF PollInterrupted
  <2> QED
    BY <1>3, <2>1, <2>2, <2>3, <2>4, <2>5, <2>6, <2>7, <2>8, <2>9, <2>10,
       <2>11, <2>12, <2>13, <2>14, <2>15 DEF ReaderStep, Step
<1>4. CASE UNCHANGED vars
  BY <1>4 DEF vars
<1> QED
  BY <1>1, <1>2, <1>3, <1>4, NextIsReaderOrIrq

(* Nobody has read anything at first.                                      *)
LEMMA ReadInvInit == Init => ReadInv
  BY DEF Init, ReadInv, NoPhantomRead, Consume

(* Only signals and rival readers make key_read go on without a press.     *)
THEOREM NoPhantom == Spec => []NoPhantomRead
<1>1. ReadInv => NoPhantomRead
  BY DEF ReadInv
<1> QED
  BY <1>1, ReadInvInit, ReadInvStep, TypeCorrect, PTL DEF Spec

(* What an undisturbed read returns, per driver.                           *)
THEOREM Delivered == Spec => []DeliveredValue
<1>1. TypeOK /\ ReadInv => DeliveredValue
  <2> SUFFICES ASSUME TypeOK, ReadInv PROVE DeliveredValue
    OBVIOUS
  <2>1. drv.copyFirst <=> drv.name \in {"poll", "epoll"}
    BY KeyIoAssumption DEF TypeOK, KeyDrivers, BlockIo, NonblockIo, PollIo, EpollIo, SelectIo
  <2> QED
    BY <2>1 DEF ReadInv, DeliveredValue, CopyFirst, TypeOK, NoValue
<1> QED
  BY <1>1, ReadInvInit, ReadInvStep, TypeCorrect, PTL DEF Spec

-----------------------------------------------------------------------------
(* The tasklet demo.                                                       *)

Tasklet == INSTANCE TaskletKey

TaskletFlags ==
  /\ gpio \in BOOLEAN /\ installed \in BOOLEAN /\ sched \in BOOLEAN /\ listed \in BOOLEAN
  /\ open \in BOOLEAN /\ handling \in BOOLEAN /\ late \in BOOLEAN /\ leaked \in BOOLEAN

TaskletPlaces ==
  /\ module \in {"out", "in"} \cup Tasklet!InitSteps \cup Tasklet!ExitSteps
  /\ key \in {"none", "live", "freed"}
  /\ run \in {"no", "locked", "handler"}
  /\ count \in {0, 1}

(* From tasklet_disable on the tasklet is disabled, and once it has        *)
(* returned the handler does not run.                                      *)
DisabledInv ==
  /\ module \in Tasklet!ExitSteps \ {"disable"} => count = 1
  /\ module \in Tasklet!ExitSteps \ {"disable", "unlock_wait"} => run # "handler"

(* The key lives while the module is in or moving.  Init starts with       *)
(* nothing left of an earlier init, and exit ends with the interrupt gone. *)
KeyInv ==
  /\ module # "out" => key = "live" /\ ~leaked
  /\ leaked => key # "none"
  /\ handling => installed
  /\ ~leaked /\ module \in {"out", "gpio_request", "request_irq", "kfree"} => ~installed
  /\ ~leaked /\ module \in {"out", "gpio_request", "device_destroy", "class_destroy",
                            "unregister_region", "free_irq", "kfree"} => ~gpio
  /\ module \in {"gpio_request", "request_irq"} => ~listed /\ run = "no" /\ ~late

(* A tasklet on its way to the handler is marked as scheduled, and is in   *)
(* one place only.                                                         *)
SchedInv ==
  /\ listed \/ run = "locked" \/ handling => sched
  /\ ~(listed /\ run = "locked") /\ ~(listed /\ handling) /\ ~(run = "locked" /\ handling)
  /\ module = "kill_wait" => sched /\ ~listed /\ run # "locked" /\ ~handling

(* Without a press since exit began, nothing is on its way.                *)
LateInv ==
  /\ module \in Tasklet!ExitSteps /\ ~late => ~listed /\ run # "locked" /\ ~handling
  /\ module = "out" /\ ~leaked /\ ~late => key = "none" /\ ~listed /\ run = "no"
  /\ key = "none" /\ ~leaked => (listed \/ run # "no" => late)

TaskletInv == TaskletFlags /\ TaskletPlaces /\ DisabledInv /\ KeyInv /\ SchedInv /\ LateInv

(* The invariant holds before insmod.                                      *)
LEMMA TaskletInvInit == Tasklet!Init => TaskletInv
  BY DEF Tasklet!Init, TaskletInv, TaskletFlags, TaskletPlaces, Tasklet!InitSteps,
     Tasklet!ExitSteps, DisabledInv, KeyInv, SchedInv, LateInv

(* async_init, and the device file.                                        *)
LEMMA AsyncInitKeeps ==
  ASSUME TaskletInv,
         \/ Tasklet!InitKey \/ Tasklet!InitGpio \/ Tasklet!InitIrq \/ Tasklet!InitRegion
         \/ Tasklet!InitDevice \/ Tasklet!Open \/ Tasklet!Close
  PROVE  TaskletInv'
<1> USE DEF TaskletInv, Tasklet!Goto, Tasklet!InitSteps, Tasklet!ExitSteps
<1>1. CASE Tasklet!InitKey
  BY <1>1 DEF Tasklet!InitKey, TaskletFlags, TaskletPlaces, DisabledInv, KeyInv, SchedInv,
     LateInv
<1>2. CASE Tasklet!InitGpio
  <2>1. CASE gpio' = TRUE /\ Tasklet!Goto("request_irq") /\ UNCHANGED key
    BY <1>2, <2>1 DEF Tasklet!InitGpio, TaskletFlags, TaskletPlaces, DisabledInv, KeyInv,
       SchedInv, LateInv
  <2>2. CASE key' = "none" /\ Tasklet!Goto("out") /\ UNCHANGED gpio
    BY <1>2, <2>2 DEF Tasklet!InitGpio, TaskletFlags, TaskletPlaces, DisabledInv, KeyInv,
       SchedInv, LateInv
  <2> QED
    BY <1>2, <2>1, <2>2 DEF Tasklet!InitGpio
<1>3. CASE Tasklet!InitIrq
  <2>1. CASE installed' = TRUE /\ Tasklet!Goto("alloc_region") /\ UNCHANGED <<key, gpio>>
    BY <1>3, <2>1 DEF Tasklet!InitIrq, TaskletFlags, TaskletPlaces, DisabledInv, KeyInv,
       SchedInv, LateInv
  <2>2. CASE key' = "none" /\ gpio' = FALSE /\ Tasklet!Goto("out") /\ UNCHANGED installed
    BY <1>3, <2>2 DEF Tasklet!InitIrq, TaskletFlags, TaskletPlaces, DisabledInv, KeyInv,
       SchedInv, LateInv
  <2> QED
    BY <1>3, <2>1, <2>2 DEF Tasklet!InitIrq
<1>4. CASE Tasklet!InitRegion
  <2>1. CASE Tasklet!Goto("create_device") /\ UNCHANGED leaked
    BY <1>4, <2>1 DEF Tasklet!InitRegion, TaskletFlags, TaskletPlaces, DisabledInv, KeyInv,
       SchedInv, LateInv
  <2>2. CASE leaked' = TRUE /\ Tasklet!Goto("out")
    BY <1>4, <2>2 DEF Tasklet!InitRegion, TaskletFlags, TaskletPlaces, DisabledInv, KeyInv,
       SchedInv, LateInv
  <2> QED
    BY <1>4, <2>1, <2>2 DEF Tasklet!InitRegion
<1>5. CASE Tasklet!InitDevice
  <2>1. CASE Tasklet!Goto("in") /\ UNCHANGED <<key, gpio, leaked>>
    BY <1>5, <2>1 DEF Tasklet!InitDevice, TaskletFlags, TaskletPlaces, DisabledInv, KeyInv,
       SchedInv, LateInv
  <2>2. CASE key' = "freed" /\ gpio' = FALSE /\ leaked' = TRUE /\ Tasklet!Goto("out")
    BY <1>5, <2>2 DEF Tasklet!InitDevice, TaskletFlags, TaskletPlaces, DisabledInv, KeyInv,
       SchedInv, LateInv
  <2> QED
    BY <1>5, <2>1, <2>2 DEF Tasklet!InitDevice
<1>6. CASE Tasklet!Open
  BY <1>6 DEF Tasklet!Open, TaskletFlags, TaskletPlaces, DisabledInv, KeyInv, SchedInv, LateInv
<1>7. CASE Tasklet!Close
  BY <1>7 DEF Tasklet!Close, TaskletFlags, TaskletPlaces, DisabledInv, KeyInv, SchedInv, LateInv
<1> QED
  BY <1>1, <1>2, <1>3, <1>4, <1>5, <1>6, <1>7

(* key_irq and the softirq.                                                *)
LEMMA KeyIrqKeeps ==
  ASSUME TaskletInv, Tasklet!Press \/ Tasklet!PressLists \/ Tasklet!Softirq
  PROVE  TaskletInv'
<1> USE DEF TaskletInv, Tasklet!InitSteps, Tasklet!ExitSteps
<1>1. CASE Tasklet!Press
  BY <1>1 DEF Tasklet!Press, TaskletFlags, TaskletPlaces, DisabledInv, KeyInv, SchedInv, LateInv
<1>2. CASE Tasklet!PressLists
  BY <1>2 DEF Tasklet!PressLists, TaskletFlags, TaskletPlaces, DisabledInv, KeyInv, SchedInv,
     LateInv
<1>3. CASE Tasklet!SoftirqLock
  BY <1>3 DEF Tasklet!SoftirqLock, TaskletFlags, TaskletPlaces, DisabledInv, KeyInv, SchedInv,
     LateInv
<1>4. CASE Tasklet!SoftirqRun
  <2>1. module \notin Tasklet!ExitSteps \ {"disable"}
    BY <1>4 DEF Tasklet!SoftirqRun, DisabledInv
  <2> QED
    BY <1>4, <2>1 DEF Tasklet!SoftirqRun, TaskletFlags, TaskletPlaces, DisabledInv, KeyInv,
       SchedInv, LateInv
<1>5. CASE Tasklet!HandlerEnd
  BY <1>5 DEF Tasklet!HandlerEnd, TaskletFlags, TaskletPlaces, DisabledInv, KeyInv, SchedInv,
     LateInv
<1>6. CASE Tasklet!SoftirqPutBack
  BY <1>6 DEF Tasklet!SoftirqPutBack, TaskletFlags, TaskletPlaces, DisabledInv, KeyInv,
     SchedInv, LateInv
<1> QED
  BY <1>1, <1>2, <1>3, <1>4, <1>5, <1>6 DEF Tasklet!Softirq

(* async_exit.                                                             *)
LEMMA AsyncExitKeeps ==
  ASSUME TaskletInv, Tasklet!ExitBegin \/ Tasklet!ExitStep
  PROVE  TaskletInv'
<1> USE DEF TaskletInv, Tasklet!Goto, Tasklet!InitSteps, Tasklet!ExitSteps
<1>1. CASE Tasklet!ExitBegin
  BY <1>1 DEF Tasklet!ExitBegin, TaskletFlags, TaskletPlaces, DisabledInv, KeyInv, SchedInv,
     LateInv
<1>2. CASE Tasklet!ExitDisable
  BY <1>2 DEF Tasklet!ExitDisable, TaskletFlags, TaskletPlaces, DisabledInv, KeyInv, SchedInv,
     LateInv
<1>3. CASE Tasklet!ExitUnlockWait
  BY <1>3 DEF Tasklet!ExitUnlockWait, TaskletFlags, TaskletPlaces, DisabledInv, KeyInv,
     SchedInv, LateInv
<1>4. CASE Tasklet!ExitKill
  BY <1>4 DEF Tasklet!ExitKill, TaskletFlags, TaskletPlaces, DisabledInv, KeyInv, SchedInv,
     LateInv
<1>5. CASE Tasklet!ExitKillWait
  BY <1>5 DEF Tasklet!ExitKillWait, TaskletFlags, TaskletPlaces, DisabledInv, KeyInv, SchedInv,
     LateInv
<1>6. CASE Tasklet!ExitGpioFree
  BY <1>6 DEF Tasklet!ExitGpioFree, TaskletFlags, TaskletPlaces, DisabledInv, KeyInv, SchedInv,
     LateInv
<1>7. CASE Tasklet!ExitDevice
  BY <1>7 DEF Tasklet!ExitDevice, TaskletFlags, TaskletPlaces, DisabledInv, KeyInv, SchedInv,
     LateInv
<1>8. CASE Tasklet!ExitFreeIrq
  BY <1>8 DEF Tasklet!ExitFreeIrq, TaskletFlags, TaskletPlaces, DisabledInv, KeyInv, SchedInv,
     LateInv
<1>9. CASE Tasklet!ExitKfree
  BY <1>9 DEF Tasklet!ExitKfree, TaskletFlags, TaskletPlaces, DisabledInv, KeyInv, SchedInv,
     LateInv
<1> QED
  BY <1>1, <1>2, <1>3, <1>4, <1>5, <1>6, <1>7, <1>8, <1>9 DEF Tasklet!ExitStep

(* Every step of the module, its interrupt and the softirq keeps it.       *)
LEMMA TaskletInvStep == TaskletInv /\ [Tasklet!Next]_Tasklet!vars => TaskletInv'
<1>1. CASE Tasklet!Next
  BY <1>1, AsyncInitKeeps, KeyIrqKeeps, AsyncExitKeeps DEF Tasklet!Next
<1>2. CASE UNCHANGED Tasklet!vars
  BY <1>2 DEF Tasklet!vars, TaskletInv, TaskletFlags, TaskletPlaces, DisabledInv, KeyInv,
     SchedInv, LateInv
<1> QED
  BY <1>1, <1>2

(* The invariant of the tasklet demo.                                      *)
THEOREM TaskletInvariantHolds == Tasklet!Spec => []TaskletInv
  BY TaskletInvInit, TaskletInvStep, PTL DEF Tasklet!Spec

(* Type correctness of the tasklet demo.                                   *)
THEOREM TaskletTypeCorrect == Tasklet!Spec => []Tasklet!TypeOK
<1>1. TaskletInv => Tasklet!TypeOK
  <2> SUFFICES ASSUME TaskletInv PROVE Tasklet!TypeOK
    OBVIOUS
  <2>1. count \in 0..1
    BY DEF TaskletInv, TaskletPlaces
  <2> QED
    BY <2>1 DEF TaskletInv, TaskletFlags, TaskletPlaces, Tasklet!TypeOK
<1> QED
  BY <1>1, TaskletInvariantHolds, PTL

(* Once tasklet_disable has returned, tasklet_handler does not run.        *)
THEOREM DisabledTaskletIsStopped == Tasklet!Spec => []DisabledMeansStopped
<1>1. TaskletInv => DisabledMeansStopped
  BY DEF TaskletInv, DisabledInv, Tasklet!ExitSteps, DisabledMeansStopped, ExitSteps
<1> QED
  BY <1>1, TaskletInvariantHolds, PTL

(* After an orderly init the key is not freed under its interrupt, and     *)
(* under a listed tasklet only when a press came while async_exit ran.     *)
THEOREM KeyOutlivesItsUsers == Tasklet!Spec => []FreedKeyIsUnused
<1>1. TaskletInv => FreedKeyIsUnused
  BY DEF TaskletInv, KeyInv, LateInv, FreedKeyIsUnused
<1> QED
  BY <1>1, TaskletInvariantHolds, PTL

(* An async_exit that waits in tasklet_kill for a tasklet that is disabled *)
(* and scheduled does so for ever: no step of anybody leads out.           *)
THEOREM HungExitsStayHung == Tasklet!Spec => HangsForEver
<1>1. TaskletInv /\ Tasklet!Next => (Tasklet!Hangs => Tasklet!Hangs')
  <2> SUFFICES ASSUME TaskletInv, Tasklet!Next, Tasklet!Hangs PROVE Tasklet!Hangs'
    OBVIOUS
  <2> USE DEF Tasklet!Hangs, Tasklet!Goto, Tasklet!InitSteps, Tasklet!ExitSteps
  <2>1. count = 1
    BY DEF TaskletInv, DisabledInv, Tasklet!ExitSteps
  <2>2. CASE \/ Tasklet!InitKey \/ Tasklet!InitGpio \/ Tasklet!InitIrq \/ Tasklet!InitRegion
             \/ Tasklet!InitDevice \/ Tasklet!Open \/ Tasklet!Close
    BY <2>2 DEF Tasklet!InitKey, Tasklet!InitGpio, Tasklet!InitIrq, Tasklet!InitRegion,
       Tasklet!InitDevice, Tasklet!Open, Tasklet!Close
  <2>3. CASE Tasklet!Press \/ Tasklet!PressLists \/ Tasklet!Softirq
    <3>1. ~Tasklet!SoftirqRun
      BY <2>1 DEF Tasklet!SoftirqRun
    <3> QED
      BY <2>3, <3>1 DEF Tasklet!Press, Tasklet!PressLists, Tasklet!Softirq,
         Tasklet!SoftirqLock, Tasklet!HandlerEnd, Tasklet!SoftirqPutBack
  <2>4. CASE Tasklet!ExitBegin \/ Tasklet!ExitStep
    BY <2>4 DEF Tasklet!ExitBegin, Tasklet!ExitStep, Tasklet!ExitDisable,
       Tasklet!ExitUnlockWait, Tasklet!ExitKill, Tasklet!ExitKillWait,
       Tasklet!ExitGpioFree, Tasklet!ExitDevice, Tasklet!ExitFreeIrq, Tasklet!ExitKfree
  <2> QED
    BY <2>2, <2>3, <2>4 DEF Tasklet!Next
<1>2. TaskletInv /\ [Tasklet!Next]_Tasklet!vars => [Hangs => Hangs']_<<module, sched>>
  BY <1>1 DEF Tasklet!vars, Tasklet!Hangs, Hangs
<1> QED
  BY <1>2, TaskletInvariantHolds, PTL DEF Tasklet!Spec, HangsForEver

-----------------------------------------------------------------------------
(* The kernel-thread demos.                                                *)

Work == INSTANCE DeferredWork

(* What the three demos queue.                                             *)
LEMMA WhatIsQueued ==
  ASSUME Work!DeferredWorkAssumption, demo \in Demos
  PROVE  \/ demo = Work!WorkDemo /\ Work!Items = {"work"} /\ demo.items = <<"work">>
         \/ /\ demo = Work!DelayWorkDemo /\ Work!Items = {"delay_work"}
            /\ demo.items = <<"delay_work">>
         \/ /\ demo = Work!WorkqueueDemo /\ Work!Items = {"work1", "work2"}
            /\ demo.items = <<"work1", "work2">>
<1>1. Work!ToSet(<<"work">>) = {"work"} /\ Work!ToSet(<<"delay_work">>) = {"delay_work"}
      /\ Work!ToSet(<<"work1", "work2">>) = {"work1", "work2"}
  BY DEF Work!ToSet
<1>2. CASE demo = Work!WorkDemo
  BY <1>1, <1>2 DEF Work!WorkDemo, Work!Items
<1>3. CASE demo = Work!DelayWorkDemo
  BY <1>1, <1>3 DEF Work!DelayWorkDemo, Work!Items
<1>4. CASE demo = Work!WorkqueueDemo
  BY <1>1, <1>4 DEF Work!WorkqueueDemo, Work!Items
<1> QED
  BY <1>2, <1>3, <1>4 DEF Work!DeferredWorkAssumption, Work!AllDemos

(* A demo queues one item or two.                                          *)
LEMMA LenItems ==
  ASSUME Work!DeferredWorkAssumption, NEW d \in Demos
  PROVE  Len(d.items) \in {1, 2}
<1>1. \/ d.items = <<"work">> \/ d.items = <<"delay_work">>
      \/ d.items = <<"work1", "work2">>
  BY DEF Work!DeferredWorkAssumption, Work!AllDemos, Work!WorkDemo, Work!DelayWorkDemo,
     Work!WorkqueueDemo
<1> QED
  BY <1>1

(* The turn after the last item is the first.                              *)
LEMMA NextTurn ==
  ASSUME NEW n \in {1, 2}, NEW t \in 1..n
  PROVE  (t % n) + 1 \in 1..n
<1>1. t \in {1, 2} /\ (n = 1 => t = 1)
  OBVIOUS
<1>2. CASE n = 1
  BY <1>1, <1>2
<1>3. CASE n = 2
  BY <1>1, <1>3
<1> QED
  BY <1>2, <1>3

WorkFlags ==
  /\ demo \in Demos
  /\ stage \in {"init", "loaded", "join", "destroy", "drain", "cancel", "flush", "gone"}
  /\ thread \in {"none", "check", "queue", "sleep"}
  /\ wq \in {"none", "live", "drain", "destroyed"}
  /\ stop \in BOOLEAN
  /\ last \in Work!Items \cup {"none"}

(* An item is pending in one place: its timer, or one place of the queue.  *)
ItemsOK ==
  /\ timer \subseteq Work!Items /\ running \subseteq Work!Items
  /\ queue \in Seq(Work!Items) /\ Work!IsInjective(queue)
  /\ \A w \in timer : ~Work!Contains(queue, w)
  /\ ~demo.delayed => timer = {}

TurnOK == turn \in 1..Len(demo.items) /\ streak \in 0..3

Quiet == timer = {} /\ queue = <<>> /\ running = {}

(* The thread runs until exit has stopped it, and the queue of the demo's  *)
(* own until exit has destroyed it; then it is empty.  On the kernel's     *)
(* queue there is one item, and it is gone once it has been cancelled.     *)
ExitInv ==
  /\ stage \in {"init", "destroy", "drain", "cancel", "flush", "gone"} => thread = "none"
  /\ stage \in {"init", "gone"} => Quiet
  /\ stage = "init" => streak = 0
  /\ wq = "drain" => stage = "drain"
  /\ stage \in {"destroy", "drain"} \/ wq # "none" => demo.ownQueue
  /\ wq = "destroyed" => queue = <<>> /\ running = {} /\ stage \in {"cancel", "flush", "gone"}
  /\ stage \in {"cancel", "flush"} /\ demo.ownQueue => wq = "destroyed"
  /\ stage = "flush" => timer = {} /\ queue = <<>>

(* The thread of the workqueue demo queues the two items in turn.  An item *)
(* that was started twice waits until the other has been; one that is      *)
(* queued again by itself is followed by the other.                        *)
TurnsInv ==
  demo = Work!WorkqueueDemo =>
    /\ streak <= 2
    /\ streak = 0 => last = "none"
    /\ thread # "none" /\ streak = 1 /\ queue = <<last>> => demo.items[turn] # last
    /\ thread # "none" /\ streak = 2 /\ queue = <<>> => demo.items[turn] # last
    /\ streak = 2 /\ queue # <<>> => Head(queue) # last

WorkInv == WorkFlags /\ ItemsOK /\ TurnOK /\ ExitInv /\ TurnsInv

----------------------------------------------------------------------------
(* Queues without an item twice: after an Append...                        *)
LEMMA Appended ==
  ASSUME NEW S, NEW q \in Seq(S), Work!IsInjective(q), NEW w \in S, ~Work!Contains(q, w)
  PROVE  /\ Append(q, w) \in Seq(S) /\ Work!IsInjective(Append(q, w))
         /\ \A x : Work!Contains(Append(q, w), x) => Work!Contains(q, x) \/ x = w
         /\ Append(q, w) # <<>>
         /\ q # <<>> => Head(Append(q, w)) = Head(q)
         /\ q = <<>> => Head(Append(q, w)) = w
         /\ \A x : Append(q, w) = <<x>> => q = <<>> /\ x = w
<1>1. /\ Append(q, w) \in Seq(S) /\ Len(Append(q, w)) = Len(q) + 1
      /\ \A i \in 1..Len(q) : Append(q, w)[i] = q[i]
      /\ Append(q, w)[Len(q) + 1] = w
  OBVIOUS
<1>2. DOMAIN q = 1..Len(q) /\ DOMAIN Append(q, w) = 1..(Len(q) + 1)
  BY <1>1
<1>3. Work!IsInjective(Append(q, w))
  BY <1>1, <1>2 DEF Work!IsInjective, Work!Contains
<1>4. \A x : Work!Contains(Append(q, w), x) => Work!Contains(q, x) \/ x = w
  BY <1>1 DEF Work!Contains
<1>5. Append(q, w) # <<>> /\ Head(Append(q, w)) = Append(q, w)[1]
  BY <1>1
<1>6. q # <<>> => Head(Append(q, w)) = Head(q)
  BY <1>1, <1>5
<1>7. q = <<>> => Head(Append(q, w)) = w
  BY <1>1, <1>5
<1>8. ASSUME NEW x, Append(q, w) = <<x>> PROVE q = <<>> /\ x = w
  <2>1. Len(q) + 1 = 1
    BY <1>1, <1>8
  <2>2. Len(q) = 0
    BY <2>1
  <2> QED
    BY <1>1, <1>8, <2>2
<1> QED
  BY <1>1, <1>3, <1>4, <1>5, <1>6, <1>7, <1>8

(* ...after the first has been taken...                                    *)
LEMMA Taken ==
  ASSUME NEW S, NEW q \in Seq(S), Work!IsInjective(q), q # <<>>
  PROVE  /\ Tail(q) \in Seq(S) /\ Work!IsInjective(Tail(q)) /\ Head(q) \in S
         /\ \A x : Work!Contains(Tail(q), x) => Work!Contains(q, x) /\ x # Head(q)
<1>1. /\ Tail(q) \in Seq(S) /\ Len(Tail(q)) = Len(q) - 1 /\ Len(q) \in Nat \ {0}
      /\ \A i \in 1..Len(Tail(q)) : i + 1 \in 1..Len(q) /\ Tail(q)[i] = q[i + 1]
      /\ Head(q) = q[1] /\ Head(q) \in S
  OBVIOUS
<1>2. DOMAIN q = 1..Len(q) /\ DOMAIN Tail(q) = 1..Len(Tail(q))
  BY <1>1
<1>3. Work!IsInjective(Tail(q))
  BY <1>1, <1>2 DEF Work!IsInjective
<1>4. \A x : Work!Contains(Tail(q), x) => Work!Contains(q, x) /\ x # Head(q)
  BY <1>1, <1>2 DEF Work!IsInjective, Work!Contains
<1> QED
  BY <1>1, <1>3, <1>4

(* ...and after one has been taken out.                                    *)
LEMMA TakenOut ==
  ASSUME NEW S, NEW q \in Seq(S), Work!IsInjective(q), NEW i \in DOMAIN q
  PROVE  /\ Work!RemoveAt(q, i) \in Seq(S) /\ Work!IsInjective(Work!RemoveAt(q, i))
         /\ \A x : Work!Contains(Work!RemoveAt(q, i), x) => Work!Contains(q, x) /\ x # q[i]
<1> DEFINE r == Work!RemoveAt(q, i)
<1>1. i \in 1..Len(q) /\ DOMAIN q = 1..Len(q) /\ Len(q) \in Nat
  OBVIOUS
<1>2. /\ SubSeq(q, 1, i - 1) \in Seq(S) /\ Len(SubSeq(q, 1, i - 1)) = i - 1
      /\ \A j \in 1..(i - 1) : SubSeq(q, 1, i - 1)[j] = q[j]
  BY <1>1
<1>3. /\ SubSeq(q, i + 1, Len(q)) \in Seq(S) /\ Len(SubSeq(q, i + 1, Len(q))) = Len(q) - i
      /\ \A j \in 1..(Len(q) - i) : SubSeq(q, i + 1, Len(q))[j] = q[j + i]
  BY <1>1
<1>4. /\ r \in Seq(S) /\ Len(r) = Len(q) - 1
      /\ \A j \in 1..(Len(q) - 1) : r[j] = IF j < i THEN q[j] ELSE q[j + 1]
  <2> DEFINE a == SubSeq(q, 1, i - 1)
  <2> DEFINE b == SubSeq(q, i + 1, Len(q))
  <2>1. /\ a \in Seq(S) /\ Len(a) = i - 1 /\ \A j \in 1..(i - 1) : a[j] = q[j]
        /\ b \in Seq(S) /\ Len(b) = Len(q) - i /\ \A j \in 1..(Len(q) - i) : b[j] = q[j + i]
    BY <1>2, <1>3
  <2>2. r = a \o b
    BY DEF Work!RemoveAt
  <2> HIDE DEF a, b, r
  <2>3. /\ a \o b \in Seq(S) /\ Len(a \o b) = Len(a) + Len(b)
        /\ \A j \in 1..(Len(a) + Len(b)) :
             (a \o b)[j] = IF j <= Len(a) THEN a[j] ELSE b[j - Len(a)]
    <3>1. a \in Seq(S) /\ b \in Seq(S)
      BY <2>1
    <3> QED
      BY <3>1
  <2>4. ASSUME NEW j \in 1..(Len(q) - 1), ~(j < i) PROVE r[j] = q[j + 1]
    <3>1. r[j] = b[j - (i - 1)] /\ j - (i - 1) \in 1..(Len(q) - i)
      BY <1>1, <2>1, <2>2, <2>3, <2>4
    <3> QED
      BY <1>1, <2>1, <3>1
  <2>5. ASSUME NEW j \in 1..(Len(q) - 1), j < i PROVE r[j] = q[j]
    BY <1>1, <2>1, <2>2, <2>3, <2>5
  <2> QED
    BY <1>1, <2>1, <2>2, <2>3, <2>4, <2>5
<1> HIDE DEF r
<1>5. DOMAIN r = 1..(Len(q) - 1)
  BY <1>4
<1>6. Work!IsInjective(r)
  BY <1>1, <1>4, <1>5 DEF Work!IsInjective
<1>7. \A x : Work!Contains(r, x) => Work!Contains(q, x) /\ x # q[i]
  BY <1>1, <1>4, <1>5 DEF Work!IsInjective, Work!Contains
<1> QED
  BY <1>4, <1>6, <1>7 DEF r

----------------------------------------------------------------------------
LEMMA WorkInvInit == Work!DeferredWorkAssumption /\ Work!Init => WorkInv
<1> SUFFICES ASSUME Work!DeferredWorkAssumption, Work!Init PROVE WorkInv
  OBVIOUS
<1>1. 1 \in 1..Len(demo.items)
  BY LenItems DEF Work!Init
<1>2. ItemsOK
  BY DEF Work!Init, ItemsOK, Work!IsInjective, Work!Contains
<1>3. WorkFlags
  BY DEF Work!Init, WorkFlags
<1>4. TurnOK
  BY <1>1 DEF Work!Init, TurnOK
<1>5. ExitInv /\ TurnsInv
  BY DEF Work!Init, ExitInv, Quiet, TurnsInv
<1> QED
  BY <1>2, <1>3, <1>4, <1>5 DEF WorkInv

(* insmod, the end of a kthread_run that fails, and steps of exit that     *)
(* leave the items alone.                                                  *)
LEMMA ModuleKeeps ==
  ASSUME Work!DeferredWorkAssumption, WorkInv,
         Work!InitModule \/ Work!ExitStop \/ Work!ExitJoin \/ Work!ExitDrain \/ Work!ExitDestroyed
  PROVE  WorkInv'
<1> USE DEF WorkInv
<1>1. /\ demo' = demo /\ timer' = timer /\ queue' = queue /\ running' = running
      /\ last' = last /\ streak' = streak /\ turn' \in {1, turn}
  BY DEF Work!InitModule, Work!ExitStop, Work!ExitJoin, Work!ExitDrain, Work!ExitDestroyed
<1>2. 1 \in 1..Len(demo.items) /\ Work!Items' = Work!Items
  <2>1. 1 \in 1..Len(demo.items)
    <3>1. Len(demo.items) \in {1, 2}
      BY LenItems DEF WorkFlags
    <3> QED
      BY <3>1
  <2>2. Work!Items' = Work!Items
    BY <1>1 DEF Work!Items
  <2> QED
    BY <2>1, <2>2
<1>3. WorkFlags'
  BY <1>1, <1>2 DEF WorkFlags, Work!InitModule, Work!ExitStop, Work!ExitJoin, Work!ExitDrain,
     Work!ExitDestroyed
<1>4. ItemsOK'
  BY <1>1, <1>2 DEF ItemsOK, Work!Contains, Work!IsInjective
<1>5. TurnOK'
  BY <1>1, <1>2 DEF TurnOK
<1>6. ExitInv'
  <2>1. CASE Work!InitModule
    BY <2>1 DEF Work!InitModule, ExitInv, Quiet
  <2>2. CASE Work!ExitStop \/ Work!ExitJoin
    BY <2>2 DEF Work!ExitStop, Work!ExitJoin, ExitInv, Quiet
  <2>3. CASE Work!ExitDrain
    BY <2>3 DEF Work!ExitDrain, ExitInv, Quiet
  <2>4. CASE Work!ExitDestroyed
    BY <2>4 DEF Work!ExitDestroyed, ExitInv, Quiet
  <2> QED
    BY <2>1, <2>2, <2>3, <2>4
<1>7. TurnsInv'
  <2>1. CASE thread' = "none" \/ (thread' = thread /\ turn' = turn)
    BY <1>1, <2>1 DEF TurnsInv
  <2>2. CASE Work!InitModule
    BY <2>2 DEF Work!InitModule, ExitInv, Quiet, TurnsInv
  <2> QED
    BY <2>1, <2>2 DEF Work!ExitStop, Work!ExitJoin, Work!ExitDrain, Work!ExitDestroyed
<1> QED
  BY <1>3, <1>4, <1>5, <1>6, <1>7

(* insmod.                                                                 *)
LEMMA InsmodKeeps ==
  ASSUME Work!DeferredWorkAssumption, WorkInv, Work!Insmod
  PROVE  WorkInv'
<1>1. /\ demo' \in Demos /\ stage' = "init" /\ thread' = "none" /\ turn' = 1 /\ stop' = FALSE
      /\ wq' = "none" /\ timer' = {} /\ queue' = <<>> /\ running' = {}
      /\ last' = "none" /\ streak' = 0
  BY DEF Work!Insmod
<1>2. 1 \in 1..Len(demo'.items)
  BY <1>1, LenItems
<1>3. ItemsOK'
  BY <1>1 DEF ItemsOK, Work!IsInjective, Work!Contains
<1>4. WorkFlags'
  BY <1>1 DEF WorkFlags
<1>5. TurnOK'
  BY <1>1, <1>2 DEF TurnOK
<1>6. ExitInv' /\ TurnsInv'
  BY <1>1 DEF ExitInv, Quiet, TurnsInv
<1> QED
  BY <1>3, <1>4, <1>5, <1>6 DEF WorkInv

(* test_thread tests and sleeps...                                         *)
LEMMA ThreadKeeps ==
  ASSUME Work!DeferredWorkAssumption, WorkInv, Work!ThreadCheck \/ Work!ThreadSleep
  PROVE  WorkInv'
<1> USE DEF WorkInv
<1>1. /\ UNCHANGED <<demo, stage, turn, stop, wq, timer, queue, running, last, streak>>
      /\ thread # "none" /\ thread' \in {"none", "check", "queue", "sleep"}
  BY DEF Work!ThreadCheck, Work!ThreadSleep
<1>2. WorkFlags' /\ ItemsOK' /\ TurnOK'
  BY <1>1 DEF WorkFlags, ItemsOK, TurnOK, Work!Items, Work!Contains, Work!IsInjective
<1>3. ExitInv'
  BY <1>1 DEF ExitInv, Quiet
<1>4. TurnsInv'
  BY <1>1 DEF TurnsInv
<1> QED
  BY <1>2, <1>3, <1>4

(* ...and queues an item.                                                  *)
LEMMA QueueKeeps ==
  ASSUME Work!DeferredWorkAssumption, WorkInv, Work!ThreadQueue
  PROVE  WorkInv'
<1> USE DEF WorkInv
<1> DEFINE w == demo.items[turn]
<1>1. /\ thread = "queue" /\ turn' = (turn % Len(demo.items)) + 1
      /\ thread' \in {"queue", "check", "sleep"}
      /\ UNCHANGED <<demo, stage, stop, wq, running, last, streak>>
      /\ \/ Work!Pending(w) /\ UNCHANGED <<timer, queue>>
         \/ /\ ~Work!Pending(w) /\ demo.delayed
            /\ timer' = timer \cup {w} /\ UNCHANGED queue
         \/ /\ ~Work!Pending(w) /\ ~demo.delayed
            /\ queue' = Append(queue, w) /\ UNCHANGED timer
  BY DEF Work!ThreadQueue
<1>2. /\ w \in Work!Items /\ turn \in 1..Len(demo.items) /\ Len(demo.items) \in {1, 2}
      /\ Work!Items' = Work!Items
  BY <1>1, LenItems DEF TurnOK, WorkFlags, Work!Items, Work!ToSet
<1>3. WorkFlags'
  BY <1>1, <1>2 DEF WorkFlags
<1>4. queue \in Seq(Work!Items) /\ Work!IsInjective(queue)
  BY DEF ItemsOK
<1>5. ItemsOK'
  <2>1. CASE UNCHANGED <<timer, queue>>
    BY <1>1, <1>2, <2>1 DEF ItemsOK, Work!Contains, Work!IsInjective
  <2>2. CASE ~Work!Pending(w) /\ demo.delayed /\ timer' = timer \cup {w} /\ UNCHANGED queue
    BY <1>1, <1>2, <2>2 DEF ItemsOK, Work!Contains, Work!IsInjective, Work!Pending
  <2>3. CASE ~Work!Pending(w) /\ ~demo.delayed /\ queue' = Append(queue, w) /\ UNCHANGED timer
    <3>1. timer = {} /\ ~Work!Contains(queue, w)
      BY <2>3 DEF ItemsOK, Work!Pending
    <3>2. Append(queue, w) \in Seq(Work!Items) /\ Work!IsInjective(Append(queue, w))
      BY <1>2, <1>4, <3>1, Appended
    <3>3. queue' \in Seq(Work!Items) /\ Work!IsInjective(queue')
      BY <2>3, <3>2
    <3>4. timer' = {} /\ running' \subseteq Work!Items /\ demo' = demo
      BY <1>1, <2>3, <3>1 DEF ItemsOK
    <3> QED
      BY <1>2, <3>3, <3>4 DEF ItemsOK, Work!IsInjective
  <2> QED
    BY <1>1, <2>1, <2>2, <2>3
<1>6. TurnOK'
  <2>1. turn' \in 1..Len(demo.items)
    BY <1>1, <1>2, NextTurn
  <2> QED
    BY <1>1, <2>1 DEF TurnOK
<1>7. stage \in {"loaded", "join"} /\ wq \notin {"drain", "destroyed"}
  BY <1>1 DEF ExitInv, WorkFlags
<1>8. ExitInv'
  BY <1>1, <1>7 DEF ExitInv
<1>9. TurnsInv'
  <2> SUFFICES ASSUME demo = Work!WorkqueueDemo PROVE TurnsInv'
    BY <1>1 DEF TurnsInv
  <2>1. demo.items = <<"work1", "work2">> /\ ~demo.delayed
    BY DEF Work!WorkqueueDemo
  <2>2. turn \in 1..2 /\ turn' = (turn % 2) + 1
    BY <1>1, <1>2, <2>1
  <2>3. w # demo.items[turn']
    BY <2>1, <2>2
  <2>4. timer = {}
    BY <2>1 DEF ItemsOK
  <2>5. \/ Work!Contains(queue, w) /\ queue' = queue
        \/ ~Work!Contains(queue, w) /\ queue' = Append(queue, w)
    BY <1>1, <2>1, <2>4 DEF Work!Pending
  <2>6. streak <= 2 /\ (streak = 0 => last = "none")
    BY DEF TurnsInv
  <2>7. ASSUME streak = 1, queue' = <<last>> PROVE demo.items[turn'] # last
    <3>1. CASE Work!Contains(queue, w) /\ queue' = queue
      <4>1. w = last
        <5>1. queue = <<last>> /\ Len(queue) = 1 /\ queue[1] = last
          BY <2>7, <3>1
        <5> QED
          BY <3>1, <5>1 DEF Work!Contains
      <4> QED
        BY <1>1, <2>7, <3>1, <4>1 DEF TurnsInv
    <3>2. CASE ~Work!Contains(queue, w) /\ queue' = Append(queue, w)
      <4>1. w = last
        BY <1>2, <1>4, <2>7, <3>2, Appended
      <4> QED
        BY <2>3, <4>1
    <3> QED
      BY <2>5, <3>1, <3>2
  <2>8. ASSUME streak = 2 PROVE queue' # <<>> /\ Head(queue') # last
    <3>1. CASE Work!Contains(queue, w) /\ queue' = queue
      <4>1. queue # <<>>
        BY <3>1 DEF Work!Contains
      <4> QED
        BY <2>8, <3>1, <4>1 DEF TurnsInv
    <3>2. CASE ~Work!Contains(queue, w) /\ queue' = Append(queue, w)
      <4>1. /\ queue' # <<>>
            /\ queue # <<>> => Head(queue') = Head(queue)
            /\ queue = <<>> => Head(queue') = w
        BY <1>2, <1>4, <3>2, Appended
      <4>2. queue = <<>> => w # last
        BY <1>1, <2>8 DEF TurnsInv
      <4>3. queue # <<>> => Head(queue) # last
        BY <2>8 DEF TurnsInv
      <4> QED
        BY <4>1, <4>2, <4>3
    <3> QED
      BY <2>5, <3>1, <3>2
  <2> QED
    BY <1>1, <2>6, <2>7, <2>8 DEF TurnsInv
<1> QED
  BY <1>3, <1>5, <1>6, <1>8, <1>9

(* The timers and the worker.                                              *)
LEMMA TimerKeeps ==
  ASSUME Work!DeferredWorkAssumption, WorkInv, NEW w, Work!TimerFires(w)
  PROVE  WorkInv'
<1> USE DEF WorkInv
<1>1. /\ w \in timer /\ timer' = timer \ {w} /\ queue' = Append(queue, w)
      /\ UNCHANGED <<demo, stage, thread, turn, stop, wq, running, last, streak>>
  BY DEF Work!TimerFires
<1>2. demo.delayed /\ w \in Work!Items /\ Work!Items' = Work!Items
  BY <1>1 DEF ItemsOK, Work!Items
<1>3. demo # Work!WorkqueueDemo /\ ~demo.ownQueue
  BY <1>2, WhatIsQueued DEF WorkFlags, Work!WorkDemo, Work!DelayWorkDemo, Work!WorkqueueDemo
<1>4. queue \in Seq(Work!Items) /\ Work!IsInjective(queue) /\ ~Work!Contains(queue, w)
  BY <1>1 DEF ItemsOK
<1>5. /\ Append(queue, w) \in Seq(Work!Items) /\ Work!IsInjective(Append(queue, w))
      /\ \A x : Work!Contains(Append(queue, w), x) => Work!Contains(queue, x) \/ x = w
  BY <1>2, <1>4, Appended
<1>6. WorkFlags' /\ TurnOK'
  BY <1>1, <1>2 DEF WorkFlags, TurnOK
<1>7. ItemsOK'
  <2>1. queue' \in Seq(Work!Items) /\ Work!IsInjective(queue')
    BY <1>1, <1>5
  <2>2. ASSUME NEW x \in timer' PROVE ~Work!Contains(queue', x)
    BY <1>1, <1>5, <2>2 DEF ItemsOK
  <2>3. timer' \subseteq Work!Items /\ running' \subseteq Work!Items /\ demo' = demo
    BY <1>1 DEF ItemsOK
  <2> QED
    BY <1>2, <2>1, <2>2, <2>3 DEF ItemsOK, Work!IsInjective, Work!Contains
<1>8. wq # "destroyed" /\ stage \notin {"init", "gone", "flush", "destroy", "drain"}
  BY <1>1, <1>3 DEF ExitInv, Quiet
<1>9. ExitInv'
  BY <1>1, <1>3, <1>8 DEF ExitInv
<1>10. TurnsInv'
  BY <1>1, <1>3 DEF TurnsInv
<1> QED
  BY <1>6, <1>7, <1>9, <1>10

(* A worker starts the first item: one that was started just before only   *)
(* if the other one is queued next or waits.                               *)
LEMMA StartWorkKeeps ==
  ASSUME Work!DeferredWorkAssumption, WorkInv, Work!StartWork
  PROVE  WorkInv'
<1> USE DEF WorkInv
<1>1. /\ queue # <<>> /\ queue' = Tail(queue) /\ running = {} /\ running' = {Head(queue)}
      /\ last' = Head(queue)
      /\ streak' = IF Head(queue) # last THEN 1 ELSE IF streak < 3 THEN streak + 1 ELSE 3
      /\ UNCHANGED <<demo, stage, thread, turn, stop, wq, timer>>
  BY DEF Work!StartWork
<1>2. queue \in Seq(Work!Items) /\ Work!IsInjective(queue) /\ Work!Items' = Work!Items
  BY <1>1 DEF ItemsOK, Work!Items
<1>3. /\ Tail(queue) \in Seq(Work!Items) /\ Work!IsInjective(Tail(queue)) /\ Head(queue) \in Work!Items
      /\ \A x : Work!Contains(Tail(queue), x) => Work!Contains(queue, x) /\ x # Head(queue)
  BY <1>1, <1>2, Taken
<1>4. WorkFlags'
  BY <1>1, <1>2, <1>3 DEF WorkFlags
<1>5. TurnOK'
  BY <1>1 DEF TurnOK
<1>6. ItemsOK'
  <2>1. queue' \in Seq(Work!Items) /\ Work!IsInjective(queue')
    BY <1>1, <1>3
  <2>2. ASSUME NEW x \in timer' PROVE ~Work!Contains(queue', x)
    BY <1>1, <1>3, <2>2 DEF ItemsOK
  <2>3. timer' = timer /\ running' \subseteq Work!Items /\ demo' = demo
    BY <1>1, <1>3
  <2> QED
    BY <1>2, <2>1, <2>2, <2>3 DEF ItemsOK, Work!IsInjective, Work!Contains
<1>7. wq # "destroyed" /\ stage \notin {"init", "gone", "flush"}
  BY <1>1 DEF ExitInv, Quiet
<1>8. ExitInv'
  BY <1>1, <1>7 DEF ExitInv
<1>9. TurnsInv'
  <2> SUFFICES ASSUME demo = Work!WorkqueueDemo PROVE TurnsInv'
    BY <1>1 DEF TurnsInv
  <2>1. streak \in {0, 1, 2} /\ (streak = 2 => Head(queue) # last) /\ Head(queue) # "none"
        /\ (streak = 0 => last = "none")
    <3>1. Work!Items = {"work1", "work2"}
      BY WhatIsQueued DEF WorkFlags, Work!WorkDemo, Work!DelayWorkDemo, Work!WorkqueueDemo
    <3> QED
      BY <1>1, <1>3, <3>1 DEF TurnsInv, TurnOK
  <2>2. streak' \in {1, 2} /\ (streak' = 2 => streak = 1 /\ Head(queue) = last)
    BY <1>1, <2>1
  <2>3. queue' # <<last'>>
    <3>1. ~Work!Contains(queue', last')
      BY <1>1, <1>3
    <3> QED
      BY <3>1 DEF Work!Contains
  <2>4. queue' # <<>> => Head(queue') # last'
    <3>1. ASSUME queue' # <<>> PROVE Work!Contains(queue', Head(queue'))
      BY <1>1, <1>3, <3>1 DEF Work!Contains
    <3> QED
      BY <1>1, <1>3, <3>1
  <2>5. ASSUME streak' = 2, queue' = <<>>, thread # "none" PROVE demo.items[turn] # last'
    <3>1. queue = <<Head(queue)>>
      <4>1. Len(Tail(queue)) = Len(queue) - 1 /\ Len(queue) \in Nat \ {0} /\ Tail(queue) = <<>>
        BY <1>1, <1>2, <2>5
      <4>2. Len(queue) = 1
        BY <4>1
      <4> QED
        BY <1>2, <4>2
    <3> QED
      BY <1>1, <2>2, <2>5, <3>1 DEF TurnsInv
  <2> QED
    BY <1>1, <2>2, <2>3, <2>4, <2>5 DEF TurnsInv
<1> QED
  BY <1>4, <1>5, <1>6, <1>8, <1>9

(* A handler returns.                                                      *)
LEMMA EndWorkKeeps ==
  ASSUME Work!DeferredWorkAssumption, WorkInv, NEW w, Work!EndWork(w)
  PROVE  WorkInv'
<1> USE DEF WorkInv
<1>1. /\ running # {} /\ running' = running \ {w}
      /\ UNCHANGED <<demo, stage, thread, turn, stop, wq, timer, queue, last, streak>>
  BY DEF Work!EndWork
<1>2. WorkFlags' /\ ItemsOK' /\ TurnOK'
  BY <1>1 DEF WorkFlags, ItemsOK, TurnOK, Work!Items, Work!Contains, Work!IsInjective
<1>3. ExitInv'
  BY <1>1 DEF ExitInv, Quiet
<1>4. TurnsInv'
  BY <1>1 DEF TurnsInv
<1> QED
  BY <1>2, <1>3, <1>4

(* Cancelling: an item alone on the kernel's queue is then nowhere.        *)
LEMMA CancelKeeps ==
  ASSUME Work!DeferredWorkAssumption, WorkInv, Work!ExitCancel
  PROVE  WorkInv'
<1> USE DEF WorkInv
<1> DEFINE w == demo.items[turn]
<1>1. /\ stage = "cancel" /\ timer' = timer \ {w} /\ stage' = "flush"
      /\ UNCHANGED <<demo, thread, turn, stop, wq, running, last, streak>>
      /\ \/ ~Work!Contains(queue, w) /\ UNCHANGED queue
         \/ \E i \in DOMAIN queue : queue[i] = w /\ queue' = Work!RemoveAt(queue, i)
  BY DEF Work!ExitCancel
<1>2. queue \in Seq(Work!Items) /\ Work!IsInjective(queue) /\ Work!Items' = Work!Items /\ thread = "none"
  BY <1>1 DEF ItemsOK, Work!Items, ExitInv
<1>3. /\ queue' \in Seq(Work!Items) /\ Work!IsInjective(queue')
      /\ \A x : Work!Contains(queue', x) => Work!Contains(queue, x) /\ x # w
  <2>1. CASE ~Work!Contains(queue, w) /\ UNCHANGED queue
    BY <1>2, <2>1
  <2>2. ASSUME NEW i \in DOMAIN queue, queue[i] = w, queue' = Work!RemoveAt(queue, i)
        PROVE  /\ queue' \in Seq(Work!Items) /\ Work!IsInjective(queue')
               /\ \A x : Work!Contains(queue', x) => Work!Contains(queue, x) /\ x # w
    BY <1>2, <2>2, TakenOut
  <2> QED
    BY <1>1, <2>1, <2>2
<1>4. WorkFlags' /\ TurnOK'
  BY <1>1, <1>2 DEF WorkFlags, TurnOK
<1>5. ItemsOK'
  <2>1. \A x \in timer' : ~Work!Contains(queue', x)
    BY <1>1, <1>3 DEF ItemsOK
  <2>2. timer' \subseteq timer /\ running' = running /\ demo' = demo
    BY <1>1
  <2> QED
    BY <1>2, <1>3, <2>1, <2>2 DEF ItemsOK, Work!IsInjective, Work!Contains
<1>6. timer' = {} /\ queue' = <<>>
  <2>1. CASE demo.ownQueue
    <3>1. wq = "destroyed" /\ queue = <<>>
      BY <1>1, <2>1 DEF ExitInv
    <3>2. ~demo.delayed
      BY <2>1, WhatIsQueued DEF WorkFlags, Work!WorkDemo, Work!DelayWorkDemo, Work!WorkqueueDemo
    <3>3. queue' = <<>>
      BY <1>1, <3>1
    <3> QED
      BY <1>1, <3>2, <3>3 DEF ItemsOK
  <2>2. CASE ~demo.ownQueue
    <3>1. Work!Items = {w}
      BY <2>2, WhatIsQueued DEF WorkFlags, Work!WorkDemo, Work!DelayWorkDemo,
         Work!WorkqueueDemo, TurnOK
    <3>2. timer' = {}
      BY <1>1, <3>1 DEF ItemsOK
    <3>3. ASSUME queue' # <<>> PROVE FALSE
      <4>1. queue'[1] \in Work!Items /\ Work!Contains(queue', queue'[1])
        BY <1>3, <3>3 DEF Work!Contains
      <4> QED
        BY <1>3, <3>1, <4>1
    <3> QED
      BY <3>2, <3>3
  <2> QED
    BY <2>1, <2>2
<1>7. ExitInv'
  BY <1>1, <1>2, <1>6 DEF ExitInv
<1>8. TurnsInv'
  BY <1>1, <1>2, <1>6 DEF TurnsInv
<1> QED
  BY <1>4, <1>5, <1>7, <1>8

(* The item's handler has returned, and it was the only one left.          *)
LEMMA FlushKeeps ==
  ASSUME Work!DeferredWorkAssumption, WorkInv, Work!ExitFlush
  PROVE  WorkInv'
<1> USE DEF WorkInv
<1> DEFINE w == demo.items[turn]
<1>1. /\ stage = "flush" /\ w \notin running
      /\ stage' = IF turn < Len(demo.items) THEN "cancel" ELSE "gone"
      /\ turn' = (turn % Len(demo.items)) + 1
      /\ UNCHANGED <<demo, thread, stop, wq, timer, queue, running, last, streak>>
  BY DEF Work!ExitFlush
<1>2. /\ turn \in 1..Len(demo.items) /\ Work!Items' = Work!Items /\ Len(demo.items) \in {1, 2}
      /\ thread = "none" /\ timer = {} /\ queue = <<>>
  BY <1>1, LenItems DEF TurnOK, WorkFlags, Work!Items, ExitInv
<1>3. WorkFlags' /\ ItemsOK'
  BY <1>1, <1>2 DEF WorkFlags, ItemsOK, Work!Contains, Work!IsInjective
<1>4. TurnOK'
  <2>1. turn' \in 1..Len(demo.items)
    BY <1>1, <1>2, NextTurn
  <2> QED
    BY <1>1, <2>1 DEF TurnOK
<1>5. running = {}
  <2>1. CASE demo.ownQueue
    BY <1>1, <2>1 DEF ExitInv
  <2>2. CASE ~demo.ownQueue
    <3>1. Work!Items = {w}
      BY <2>2, WhatIsQueued DEF WorkFlags, Work!WorkDemo, Work!DelayWorkDemo,
         Work!WorkqueueDemo, TurnOK
    <3> QED
      BY <1>1, <3>1 DEF ItemsOK
  <2> QED
    BY <2>1, <2>2
<1>6. ExitInv'
  BY <1>1, <1>2, <1>5 DEF ExitInv, Quiet
<1>7. TurnsInv'
  BY <1>1, <1>2 DEF TurnsInv
<1> QED
  BY <1>3, <1>4, <1>6, <1>7

(* Every step of the module, its thread and the workers keeps it.          *)
LEMMA WorkInvStep ==
  ASSUME Work!DeferredWorkAssumption, WorkInv, [Work!Next]_Work!vars
  PROVE  WorkInv'
<1>1. CASE Work!Next
  BY <1>1, ModuleKeeps, InsmodKeeps, ThreadKeeps, QueueKeeps, TimerKeeps, StartWorkKeeps, EndWorkKeeps,
     CancelKeeps, FlushKeeps DEF Work!Next, Work!ThreadStep, Work!ExitStep
<1>2. CASE UNCHANGED Work!vars
  <2> USE DEF Work!vars, WorkInv
  <2>1. WorkFlags' /\ ItemsOK' /\ TurnOK'
    BY <1>2 DEF WorkFlags, ItemsOK, TurnOK, Work!Items, Work!Contains, Work!IsInjective
  <2>2. ExitInv' /\ TurnsInv'
    BY <1>2 DEF ExitInv, Quiet, TurnsInv
  <2> QED
    BY <2>1, <2>2
<1> QED
  BY <1>1, <1>2

(* What is assumed of the constants is assumed of the instance.            *)
LEMMA AssumedOfWork == Work!DeferredWorkAssumption
  BY DeferredWorkAssumption
     DEF Work!DeferredWorkAssumption, Work!AllDemos, Work!WorkDemo, Work!DelayWorkDemo,
         Work!WorkqueueDemo, AllDemos, WorkDemo, DelayWorkDemo, WorkqueueDemo

(* The invariant of the kernel-thread demos.                               *)
THEOREM WorkInvariantHolds == Work!Spec => []WorkInv
<1>1. Work!Init => WorkInv
  BY WorkInvInit, AssumedOfWork
<1>2. WorkInv /\ [Work!Next]_Work!vars => WorkInv'
  BY WorkInvStep, AssumedOfWork
<1> QED
  BY <1>1, <1>2, PTL DEF Work!Spec

(* When exit has returned, no thread, timer, queue or handler is left in   *)
(* the module's memory, and nothing is queued on a queue that is being     *)
(* destroyed.                                                              *)
THEOREM NothingIsLeftBehind == Work!Spec => []QuietWhenGone
<1>1. WorkInv => QuietWhenGone
  BY DEF WorkInv, ExitInv, Quiet, QuietWhenGone
<1> QED
  BY <1>1, WorkInvariantHolds, PTL

(* Neither handler of the workqueue demo runs three times in a row.        *)
THEOREM WorkersTakeTurns == Work!Spec => []HandlersTakeTurns
<1>1. WorkInv => HandlersTakeTurns
  BY DEF WorkInv, TurnsInv, Work!WorkqueueDemo, WorkqueueDemo, HandlersTakeTurns
<1> QED
  BY <1>1, WorkInvariantHolds, PTL

(* Type correctness of the kernel-thread demos.                            *)
THEOREM WorkTypeCorrect == Work!Spec => []Work!TypeOK
<1>1. WorkInv => Work!TypeOK
  <2> SUFFICES ASSUME WorkInv PROVE Work!TypeOK
    OBVIOUS
  <2> DEFINE n == Len(queue)
  <2>1. queue \in Seq(Work!Items) /\ Work!IsInjective(queue) /\ n \in Nat /\ queue \in [1..n -> Work!Items]
    BY DEF WorkInv, ItemsOK
  <2>2. PICK x, y : Work!Items \subseteq {x, y}
    BY WhatIsQueued, AssumedOfWork DEF WorkInv, WorkFlags
  <2>3. n \in 0..2
    <3> SUFFICES ASSUME n > 2 PROVE FALSE
      BY <2>1
    <3>1. 1 \in 1..n /\ 2 \in 1..n /\ 3 \in 1..n
      BY <2>1
    <3>2. queue[1] \in Work!Items /\ queue[2] \in Work!Items /\ queue[3] \in Work!Items
      BY <2>1, <3>1
    <3>3. queue[1] # queue[2] /\ queue[1] # queue[3] /\ queue[2] # queue[3]
      BY <2>1, <3>1 DEF Work!IsInjective
    <3> QED
      BY <2>2, <3>2, <3>3
  <2>4. queue \in Work!SeqOf(Work!Items, 2)
    BY <2>1, <2>3 DEF Work!SeqOf
  <2>5. streak \in 0..3 /\ turn \in 1..Len(demo.items)
    BY DEF WorkInv, TurnOK
  <2> QED
    BY <2>1, <2>4, <2>5 DEF WorkInv, WorkFlags, ItemsOK, Work!TypeOK
<1> QED
  BY <1>1, WorkInvariantHolds, PTL
============================================================================
