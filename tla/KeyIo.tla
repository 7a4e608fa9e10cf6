------------------------------- MODULE KeyIo -------------------------------
(***************************************************************************)
(* The character-device key drivers of part5: block_io, nonblokck-io,      *)
(* poll, epoll and select.  All five share one interrupt handler, which    *)
(* wakes the wait queue and then sets key->ev_press, and differ in how     *)
(* key_read consumes the flag and in whether key_poll exists.              *)
(*                                                                         *)
(* A press is the interrupt; the readers are application threads, each in  *)
(* at most one system call.  The pc labels of a reader are                 *)
(*   "idle"     in user space                                              *)
(*   "prep"     in wait_event, about to (re)queue itself                   *)
(*   "recheck"  queued, about to test the condition                        *)
(*   "sleep"    queued, in schedule()                                      *)
(*   "clear"    about to execute ev_press = 0                              *)
(*   "copy"     about to execute copy_to_user(&ev_press)                   *)
(*   "ret"      about to return from key_read                               *)
(*   "pcheck"   queued by poll_wait, about to test ev_press in key_poll    *)
(*   "psleep"   queued, asleep in poll/select/epoll_wait                   *)
(*   "plast"    poll timed out, about to call key_poll a last time         *)
(*   "ready"    poll reported POLLIN, the application will now read        *)
(***************************************************************************)
EXTENDS Naturals

CONSTANTS Readers,    \* the threads that have the device open
          Drivers,    \* which of the five drivers are considered
          CpuCounts   \* how many CPUs may be online

(* Mutation: a poll driver that clears the press before it copies it.      *)
PollIoClearsFirst == [name |-> "poll", copyFirst |-> FALSE, poll |-> TRUE, timeout |-> TRUE]

(* The five drivers.  copyFirst: key_read copies ev_press to the user      *)
(* before it clears it; poll: key_poll exists; timeout: the example        *)
(* application gives up waiting after a second.                            *)
BlockIo    == [name |-> "block",    copyFirst |-> FALSE, poll |-> FALSE, timeout |-> FALSE]
NonblockIo == [name |-> "nonblock", copyFirst |-> FALSE, poll |-> FALSE, timeout |-> FALSE]
PollIo     == [name |-> "poll",     copyFirst |-> TRUE,  poll |-> TRUE,  timeout |-> TRUE]
EpollIo    == [name |-> "epoll",    copyFirst |-> TRUE,  poll |-> TRUE,  timeout |-> FALSE]
SelectIo   == [name |-> "select",   copyFirst |-> FALSE, poll |-> TRUE,  timeout |-> FALSE]

KeyDrivers == {BlockIo, NonblockIo, PollIo, EpollIo, SelectIo}

(* The loaded driver is one of the five; the board has at least one CPU.   *)
ASSUME KeyIoAssumption == /\ Drivers \subseteq KeyDrivers
                          /\ CpuCounts \subseteq Nat \ {0}

VARIABLES
  drv,       \* the loaded driver
  cpus,      \* the number of online CPUs
  nonblock,  \* the readers whose file has O_NONBLOCK and whose driver looks at it
  ev_press,  \* key->ev_press
  irq,       \* "idle", or "woke" between the two statements of key_irq
  pc,        \* where each reader is
  woken,     \* queued readers a wake_up has reached since they queued
  sig,       \* waiting readers with a signal pending
  val,       \* what the read in progress has copied to the user so far
  pend,      \* history: presses since ev_press was last cleared, up to 2
  cut,       \* history: reads whose wait was ended by a signal
  robbed     \* history: reads that saw the press another reader then cleared

config == <<drv, cpus, nonblock>>
ghosts == <<pend, cut, robbed>>
vars == <<drv, cpus, nonblock, ev_press, irq, pc, woken, sig, val, pend, cut, robbed>>

Labels == {"idle", "prep", "recheck", "sleep", "clear", "copy", "ret",
           "pcheck", "psleep", "plast", "ready"}

NoValue == 2  \* nothing was copied: -EAGAIN or a fault

TypeOK ==
  /\ drv \in Drivers
  /\ cpus \in CpuCounts
  /\ nonblock \in SUBSET Readers
  /\ ev_press \in {0, 1}
  /\ irq \in {"idle", "woke"}
  /\ pc \in [Readers -> Labels]
  /\ woken \in SUBSET Readers
  /\ sig \in SUBSET Readers
  /\ val \in [Readers -> {0, 1, NoValue}]
  /\ pend \in 0..2
  /\ cut \in SUBSET Readers
  /\ robbed \in SUBSET Readers

Init ==
  /\ drv \in Drivers
  /\ cpus \in CpuCounts
  /\ nonblock \in IF drv = NonblockIo THEN SUBSET Readers ELSE {{}}
  /\ ev_press = 0
  /\ irq = "idle"
  /\ pc = [r \in Readers |-> "idle"]
  /\ woken = {}
  /\ sig = {}
  /\ val = [r \in Readers |-> NoValue]
  /\ pend = 0
  /\ cut = {}
  /\ robbed = {}

----------------------------------------------------------------------------
(* The interrupt handler key_irq: wake_up_interruptible, then the flag.    *)

Queued == {r \in Readers : pc[r] \in {"recheck", "sleep", "pcheck", "psleep"}}

(* Mutation: the handler forgets the wait queue.                           *)
IrqWakesNobody ==
  /\ irq = "idle"
  /\ irq' = "woke"
  /\ UNCHANGED <<config, ev_press, pc, woken, sig, val, ghosts>>

IrqWake ==
  /\ irq = "idle"
  /\ irq' = "woke"
  /\ woken' = woken \cup Queued
  /\ UNCHANGED <<config, ev_press, pc, sig, val, ghosts>>

IrqSet ==
  /\ irq = "woke"
  /\ irq' = "idle"
  /\ ev_press' = 1
  /\ pend' = IF pend = 2 THEN 2 ELSE pend + 1
  /\ UNCHANGED <<config, pc, woken, sig, val, cut, robbed>>

----------------------------------------------------------------------------
(* The readers.  With one CPU no thread runs between the handler's two     *)
(* statements; with more, threads on the other CPUs do.                    *)

ThreadsRun == cpus > 1 \/ irq = "idle"

CopyFirst(r) == drv.copyFirst \/ r \in nonblock

(* The first statement after the wait, or after the O_NONBLOCK test.       *)
Consume(r) == IF CopyFirst(r) THEN "copy" ELSE "clear"

Goto(r, l) == pc' = [pc EXCEPT ![r] = l]

(* read() on a file with O_NONBLOCK: a press to return, or -EAGAIN.        *)
ReadNonblock(r) ==
  /\ ThreadsRun
  /\ r \in nonblock
  /\ pc[r] = "idle"
  /\ Goto(r, IF ev_press = 1 THEN Consume(r) ELSE "idle")
  /\ UNCHANGED <<config, ev_press, irq, woken, sig, val, ghosts>>

(* read() that may block: the first test of wait_event_interruptible.      *)
ReadWait(r) ==
  /\ ThreadsRun
  /\ r \notin nonblock
  /\ pc[r] \in {"idle", "ready"}
  /\ Goto(r, IF ev_press # 0 THEN Consume(r) ELSE "prep")
  /\ UNCHANGED <<config, ev_press, irq, woken, sig, val, ghosts>>

PrepareToWait(r) ==
  /\ ThreadsRun
  /\ pc[r] = "prep"
  /\ Goto(r, "recheck")
  /\ UNCHANGED <<config, ev_press, irq, woken, sig, val, ghosts>>

(* The condition, then the pending signal, then schedule().  key_read      *)
(* drops the -ERESTARTSYS of wait_event_interruptible and carries on.      *)
Recheck(r) ==
  /\ ThreadsRun
  /\ pc[r] = "recheck"
  /\ \/ /\ ev_press # 0 \/ r \in sig
        /\ Goto(r, Consume(r))
        /\ cut' = IF ev_press = 0 THEN cut \cup {r} ELSE cut
        /\ sig' = sig \ {r}
        /\ woken' = woken \ {r}
     \/ /\ ev_press = 0 /\ r \notin sig
        /\ Goto(r, "sleep")
        /\ UNCHANGED <<cut, sig, woken>>
  /\ UNCHANGED <<config, ev_press, irq, val, pend, robbed>>

(* Mutation: an "if" for the loop of wait_event: a wake-up is taken for a  *)
(* press.                                                                  *)
WakeUpUntested(r) ==
  /\ ThreadsRun
  /\ pc[r] = "sleep"
  /\ r \in woken \cup sig
  /\ Goto(r, Consume(r))
  /\ woken' = woken \ {r}
  /\ cut' = IF r \in sig THEN cut \cup {r} ELSE cut
  /\ sig' = sig \ {r}
  /\ UNCHANGED <<config, ev_press, irq, val, pend, robbed>>

WakeUp(r) ==
  /\ ThreadsRun
  /\ pc[r] = "sleep"
  /\ r \in woken \cup sig
  /\ Goto(r, "prep")
  /\ woken' = woken \ {r}
  /\ UNCHANGED <<config, ev_press, irq, sig, val, ghosts>>

(* Readers that have seen ev_press set and whose call has not ended.       *)
Committed == {r \in Readers : pc[r] \in {"ready", "copy", "clear", "ret"}}

ClearPress(r) ==
  /\ ThreadsRun
  /\ pc[r] = "clear"
  /\ Goto(r, IF CopyFirst(r) THEN "ret" ELSE "copy")
  /\ ev_press' = 0
  /\ pend' = 0
  /\ robbed' = robbed \cup (Committed \ {r})
  /\ UNCHANGED <<config, irq, woken, sig, val, cut>>

(* copy_to_user of the current ev_press; it fails on a bad user buffer.    *)
CopyToUser(r) ==
  /\ ThreadsRun
  /\ pc[r] = "copy"
  /\ Goto(r, IF CopyFirst(r) THEN "clear" ELSE "ret")
  /\ \E v \in {ev_press, NoValue} : val' = [val EXCEPT ![r] = v]
  /\ UNCHANGED <<config, ev_press, irq, woken, sig, ghosts>>

(* key_read returns; nothing is left of the call.                          *)
Return(r) ==
  /\ ThreadsRun
  /\ pc[r] = "ret"
  /\ Goto(r, "idle")
  /\ val' = [val EXCEPT ![r] = NoValue]
  /\ cut' = cut \ {r}
  /\ robbed' = robbed \ {r}
  /\ UNCHANGED <<config, ev_press, irq, woken, sig, pend>>

(* poll(), select() and epoll_wait(): key_poll queues the caller, then     *)
(* tests the flag; POLLOUT, which no caller asks for, counts as nothing.   *)
PollCall(r) ==
  /\ ThreadsRun
  /\ drv.poll
  /\ pc[r] = "idle"
  /\ Goto(r, "pcheck")
  /\ UNCHANGED <<config, ev_press, irq, woken, sig, val, ghosts>>

PollCheck(r) ==
  /\ ThreadsRun
  /\ pc[r] = "pcheck"
  /\ \/ ev_press = 1 /\ Goto(r, "ready") /\ woken' = woken \ {r}
     \/ ev_press # 1 /\ Goto(r, "psleep") /\ UNCHANGED woken
  /\ UNCHANGED <<config, ev_press, irq, sig, val, ghosts>>

(* Mutation: a woken poll goes back to sleep without asking key_poll.      *)
PollWakeUntested(r) ==
  /\ ThreadsRun
  /\ pc[r] = "psleep"
  /\ r \in woken
  /\ woken' = woken \ {r}
  /\ UNCHANGED <<config, ev_press, irq, pc, sig, val, ghosts>>

PollWake(r) ==
  /\ ThreadsRun
  /\ pc[r] = "psleep"
  /\ r \in woken
  /\ Goto(r, "pcheck")
  /\ woken' = woken \ {r}
  /\ UNCHANGED <<config, ev_press, irq, sig, val, ghosts>>

(* The timer of poll(fds, 1, 1000); the call polls once more, then ends.   *)
PollTimeout(r) ==
  /\ ThreadsRun
  /\ drv.timeout
  /\ pc[r] = "psleep"
  /\ Goto(r, "plast")
  /\ woken' = woken \ {r}
  /\ sig' = sig \ {r}
  /\ UNCHANGED <<config, ev_press, irq, val, ghosts>>

(* Mutation: the timeout ends the call without a last look.                *)
PollLastUntested(r) ==
  /\ ThreadsRun
  /\ pc[r] = "plast"
  /\ Goto(r, "idle")
  /\ UNCHANGED <<config, ev_press, irq, woken, sig, val, ghosts>>

PollLast(r) ==
  /\ ThreadsRun
  /\ pc[r] = "plast"
  /\ Goto(r, IF ev_press = 1 THEN "ready" ELSE "idle")
  /\ UNCHANGED <<config, ev_press, irq, woken, sig, val, ghosts>>

PollInterrupted(r) ==
  /\ ThreadsRun
  /\ pc[r] = "psleep"
  /\ r \in sig
  /\ Goto(r, "idle")
  /\ sig' = sig \ {r}
  /\ woken' = woken \ {r}
  /\ UNCHANGED <<config, ev_press, irq, val, ghosts>>

(* A signal with a handler reaches a waiting thread.                       *)
Signal(r) ==
  /\ pc[r] \in {"recheck", "sleep", "psleep"}
  /\ r \notin sig
  /\ sig' = sig \cup {r}
  /\ UNCHANGED <<config, ev_press, irq, pc, woken, val, ghosts>>

----------------------------------------------------------------------------
(* What a reader does inside a call it has entered, or after a POLLIN.     *)
Step(r) ==
  \/ PrepareToWait(r) \/ Recheck(r) \/ WakeUp(r)
  \/ ClearPress(r) \/ CopyToUser(r) \/ Return(r)
  \/ PollCheck(r) \/ PollWake(r) \/ PollTimeout(r) \/ PollLast(r) \/ PollInterrupted(r)

Next ==
  \/ IrqWake
  \/ IrqSet
  \/ \E r \in Readers :
       ReadNonblock(r) \/ ReadWait(r) \/ PollCall(r) \/ Signal(r) \/ Step(r)

(* The handler finishes once entered.  A thread in a system call gets the  *)
(* CPU, the poll timer fires, and the applications read after a POLLIN     *)
(* (poll/key_app.c:26, select/key_app.c:31, epoll/epoll-io-app.c:46).      *)
(* Strong fairness matters with one CPU only, where it says that presses   *)
(* do not come so fast that no thread ever runs between two of them.       *)
(* Nobody has to press the key or to make a call.                          *)
Fairness ==
  /\ WF_vars(IrqSet)
  /\ \A r \in Readers : /\ SF_vars(Step(r))
                        /\ SF_vars(pc[r] = "ready" /\ ReadWait(r))

Spec == Init /\ [][Next]_vars /\ Fairness

----------------------------------------------------------------------------
Asleep(r) == pc[r] \in {"sleep", "psleep"} /\ r \notin woken

(* key_irq wakes before it sets the flag, so a press can be slept through: *)
(* the woken reader may test ev_press first.  The next press always wakes  *)
(* it with the flag already set.  So a reader nobody has woken sleeps      *)
(* through at most one press, and through none when one CPU is online.     *)
MissesAtMostOnePress ==
  \A r \in Readers : Asleep(r) => pend <= (IF cpus = 1 THEN 0 ELSE 1)

(* A read that was neither interrupted nor overtaken by another reader     *)
(* reaches its first statement after the wait with the press still there:  *)
(* only signals and rival readers make key_read return without a press.    *)
NoPhantomRead ==
  \A r \in Readers :
    (pc[r] \in {"ready", Consume(r)} /\ r \notin cut /\ r \notin robbed) => ev_press = 1

(* What an undisturbed read hands the application.  Of poll, epoll and     *)
(* O_NONBLOCK reads: a 1.  Of the others, which clear before they copy:    *)
(* 0, or the 1 of a later press that stays pending and is reported again.  *)
DeliveredValue ==
  \A r \in Readers :
    (pc[r] = "ret" /\ val[r] # NoValue /\ r \notin cut /\ r \notin robbed) =>
      IF drv.name \in {"poll", "epoll"} \/ r \in nonblock
      THEN val[r] = 1
      ELSE val[r] = 1 => ev_press = 1

(* The one-second timeout of poll/key_app.c repairs a slept-through press: *)
(* unless a signal ends the poll, a poll that is asleep while a press is   *)
(* pending ends with that press read.                                      *)
TimedPollReadsPress ==
  \A r \in Readers :
    (drv.timeout /\ ev_press = 1 /\ pc[r] = "psleep") ~> (ev_press = 0 \/ r \in sig)

Waiting(r) == pc[r] \in {"prep", "recheck", "sleep", "pcheck", "psleep"}

(* With every driver and any number of CPUs: while keys keep being         *)
(* pressed, a press pending beside a waiting reader is consumed, unless a  *)
(* signal gets to that reader first.                                       *)
RepeatedPressIsRead ==
  []<>(irq = "woke") =>
     \A r \in Readers : (ev_press = 1 /\ Waiting(r)) ~> (ev_press = 0 \/ r \in sig)
============================================================================
