---------------------------- MODULE DeferredWork ----------------------------
(***************************************************************************)
(* The kernel-thread demos of part6: work (schedule_work), delay_work      *)
(* (schedule_delayed_work) and workqueue (queue_work of two work items on  *)
(* a queue of its own).  A thread keeps queueing the items, a worker runs  *)
(* them, and module exit stops the thread, destroys the queue and cancels  *)
(* the items, while all of these still run.                                *)
(*                                                                         *)
(* The kernel's part (kthread_stop, the PENDING bit of a work item, the    *)
(* timer of a delayed one, destroy_workqueue and cancel_work_sync) is      *)
(* modelled from what these demos rely on.                                 *)
(***************************************************************************)
EXTENDS WorkState, Sequences, SequencesExt

vars == <<demo, stage, thread, turn, stop, wq, timer, queue, running, last, streak>>

Items == ToSet(demo.items)
AllItems == {"work", "delay_work", "work1", "work2"}

TypeOK ==
  /\ demo \in Demos
  /\ stage \in {"init", "loaded", "join", "destroy", "drain", "cancel", "flush", "gone"}
  /\ thread \in {"none", "check", "queue", "sleep"}
  /\ turn \in 1..Len(demo.items)
  /\ stop \in BOOLEAN
  /\ wq \in {"none", "live", "drain", "destroyed"}
  /\ timer \subseteq Items
  /\ queue \in {q \in SeqOf(Items, 2) : IsInjective(q)}
  /\ running \subseteq Items
  /\ last \in Items \cup {"none"}
  /\ streak \in 0..3

Init ==
  /\ demo \in Demos
  /\ stage = "init"
  /\ thread = "none"
  /\ turn = 1
  /\ stop = FALSE
  /\ wq = "none"
  /\ timer = {}
  /\ queue = <<>>
  /\ running = {}
  /\ last = "none"
  /\ streak = 0

----------------------------------------------------------------------------
(* The init functions: the queue, then the thread.  When kthread_run fails *)
(* the module is not loaded, and the queue goes.                           *)
InitModule ==
  /\ stage = "init"
  /\ \/ /\ stage' = "loaded"
        /\ thread' = "check"
        /\ wq' = IF demo.ownQueue THEN "live" ELSE "none"
     \/ /\ stage' = "gone"
        /\ wq' = IF demo.ownQueue THEN "destroyed" ELSE "none"
        /\ UNCHANGED thread
  /\ UNCHANGED <<demo, turn, stop, timer, queue, running, last, streak>>

----------------------------------------------------------------------------
(* test_thread.                                                            *)

(* A thread that kthread_stop reaches ends at its next test: the loop's,   *)
(* or the one kthread_run makes before it calls test_thread at all.        *)
ThreadCheck ==
  /\ thread = "check"
  /\ thread' = IF stop THEN "none" ELSE IF demo.sleepFirst THEN "sleep" ELSE "queue"
  /\ UNCHANGED <<demo, stage, turn, stop, wq, timer, queue, running, last, streak>>

(* msleep is not interruptible: kthread_stop waits for it to end.          *)
ThreadSleep ==
  /\ thread = "sleep"
  /\ thread' = IF demo.sleepFirst THEN "queue" ELSE "check"
  /\ UNCHANGED <<demo, stage, turn, stop, wq, timer, queue, running, last, streak>>

Pending(w) == w \in timer \/ Contains(queue, w)

(* queue_work, schedule_work and schedule_delayed_work do nothing with an  *)
(* item that is pending.                                                   *)
ThreadQueue ==
  LET w == demo.items[turn]
  IN /\ thread = "queue"
     /\ \/ Pending(w) /\ UNCHANGED <<timer, queue>>
        \/ /\ ~Pending(w) /\ demo.delayed
           /\ timer' = timer \cup {w}
           /\ UNCHANGED queue
        \/ /\ ~Pending(w) /\ ~demo.delayed
           /\ queue' = Append(queue, w)
           /\ UNCHANGED timer
     /\ turn' = (turn % Len(demo.items)) + 1
     /\ thread' = IF turn < Len(demo.items) THEN "queue"
                  ELSE IF demo.sleepFirst THEN "check" ELSE "sleep"
     /\ UNCHANGED <<demo, stage, stop, wq, running, last, streak>>

----------------------------------------------------------------------------
(* The kernel's workers.                                                   *)

TimerFires(w) ==
  /\ w \in timer
  /\ timer' = timer \ {w}
  /\ queue' = Append(queue, w)
  /\ UNCHANGED <<demo, stage, thread, turn, stop, wq, running, last, streak>>

(* Mutation: the queue runs the item that came last.                       *)
StartLastWork ==
  /\ queue # <<>>
  /\ running = {}
  /\ running' = {Last(queue)}
  /\ last' = Last(queue)
  /\ streak' = IF Last(queue) # last THEN 1 ELSE IF streak < 3 THEN streak + 1 ELSE 3
  /\ queue' = Front(queue)
  /\ UNCHANGED <<demo, stage, thread, turn, stop, wq, timer>>

(* An item is taken off the queue before its handler runs, so it may be    *)
(* queued again meanwhile; it never runs twice at a time, and a            *)
(* single-thread queue runs one item at a time.                            *)
StartWork ==
  /\ queue # <<>>
  /\ running = {}
  /\ running' = {Head(queue)}
  /\ last' = Head(queue)
  /\ streak' = IF Head(queue) # last THEN 1 ELSE IF streak < 3 THEN streak + 1 ELSE 3
  /\ queue' = Tail(queue)
  /\ UNCHANGED <<demo, stage, thread, turn, stop, wq, timer>>

EndWork(w) ==
  /\ w \in running
  /\ running' = running \ {w}
  /\ UNCHANGED <<demo, stage, thread, turn, stop, wq, timer, queue, last, streak>>

----------------------------------------------------------------------------
(* The exit functions: kthread_stop, destroy_workqueue, cancel_*_sync.     *)

(* Mutation: exit waits for a thread it never told to stop.                *)
ExitNoStop ==
  /\ stage = "loaded"
  /\ stage' = "join"
  /\ UNCHANGED <<demo, thread, turn, stop, wq, timer, queue, running, last, streak>>

ExitStop ==
  /\ stage = "loaded"
  /\ stop' = TRUE
  /\ stage' = "join"
  /\ UNCHANGED <<demo, thread, turn, wq, timer, queue, running, last, streak>>

ExitJoin ==
  /\ stage = "join"
  /\ thread = "none"
  /\ turn' = 1
  /\ stage' = IF demo.ownQueue THEN "destroy" ELSE "cancel"
  /\ UNCHANGED <<demo, thread, stop, wq, timer, queue, running, last, streak>>

ExitDrain ==
  /\ stage = "destroy"
  /\ wq' = "drain"
  /\ stage' = "drain"
  /\ UNCHANGED <<demo, thread, turn, stop, timer, queue, running, last, streak>>

ExitDestroyed ==
  /\ stage = "drain"
  /\ queue = <<>> /\ running = {}
  /\ wq' = "destroyed"
  /\ stage' = "cancel"
  /\ UNCHANGED <<demo, thread, turn, stop, timer, queue, running, last, streak>>

(* cancel_work_sync takes a pending item back...                           *)
ExitCancel ==
  LET w == demo.items[turn]
  IN /\ stage = "cancel"
     /\ timer' = timer \ {w}
     /\ \/ ~Contains(queue, w) /\ UNCHANGED queue
        \/ \E i \in DOMAIN queue : queue[i] = w /\ queue' = RemoveAt(queue, i)
     /\ stage' = "flush"
     /\ UNCHANGED <<demo, thread, turn, stop, wq, running, last, streak>>

(* Mutation: cancel_work in place of cancel_work_sync.                     *)
ExitNoFlush ==
  /\ stage = "flush"
  /\ stage' = IF turn < Len(demo.items) THEN "cancel" ELSE "gone"
  /\ turn' = (turn % Len(demo.items)) + 1
  /\ UNCHANGED <<demo, thread, stop, wq, timer, queue, running, last, streak>>

(* ...and waits for its handler.  After the last item the module is freed. *)
ExitFlush ==
  /\ stage = "flush"
  /\ demo.items[turn] \notin running
  /\ stage' = IF turn < Len(demo.items) THEN "cancel" ELSE "gone"
  /\ turn' = (turn % Len(demo.items)) + 1
  /\ UNCHANGED <<demo, thread, stop, wq, timer, queue, running, last, streak>>

(* insmod again, perhaps of another demo.                                  *)
Insmod ==
  /\ stage = "gone"
  /\ demo' \in Demos
  /\ stage' = "init"
  /\ thread' = "none"
  /\ turn' = 1
  /\ stop' = FALSE
  /\ wq' = "none"
  /\ timer' = {}
  /\ queue' = <<>>
  /\ running' = {}
  /\ last' = "none"
  /\ streak' = 0

----------------------------------------------------------------------------
ThreadStep == ThreadCheck \/ ThreadSleep \/ ThreadQueue
ExitStep == ExitJoin \/ ExitDrain \/ ExitDestroyed \/ ExitCancel \/ ExitFlush

Next ==
  \/ InitModule \/ ThreadStep \/ StartWork \/ ExitStop \/ ExitStep \/ Insmod
  \/ \E w \in AllItems : TimerFires(w) \/ EndWork(w)

(* Threads and workers get the CPU, timers fire and handlers end; nobody   *)
(* has to remove the module.                                               *)
Fairness ==
  /\ WF_vars(ThreadStep)
  /\ WF_vars(StartWork)
  /\ WF_vars(ExitStep)
  /\ \A w \in AllItems : WF_vars(TimerFires(w)) /\ WF_vars(EndWork(w))

Spec == Init /\ [][Next]_vars /\ Fairness

----------------------------------------------------------------------------
(* Module exit ends, though it waits for the thread, the queue and the     *)
(* handlers, and the thread may queue items again while it waits.          *)
ExitEnds == stage = "join" ~> stage = "gone"
=============================================================================
