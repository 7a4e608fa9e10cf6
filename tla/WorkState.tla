----------------------------- MODULE WorkState ------------------------------
(***************************************************************************)
(* The state of the kernel-thread demos of part6, and what has to hold of  *)
(* it at all times.  DeferredWork says how it changes.                     *)
(***************************************************************************)
EXTENDS Naturals

CONSTANT Demos  \* which of the three demos are considered

(* items: the items test_thread queues in one turn of its loop, in order;  *)
(* ownQueue: they go to a single-thread workqueue that exit destroys;      *)
(* sleepFirst: msleep comes before the queueing, not after it.             *)
WorkDemo      == [items |-> <<"work">>, delayed |-> FALSE, ownQueue |-> FALSE, sleepFirst |-> FALSE]
DelayWorkDemo == [items |-> <<"delay_work">>, delayed |-> TRUE, ownQueue |-> FALSE, sleepFirst |-> TRUE]
WorkqueueDemo == [items |-> <<"work1", "work2">>, delayed |-> FALSE, ownQueue |-> TRUE, sleepFirst |-> FALSE]

AllDemos == {WorkDemo, DelayWorkDemo, WorkqueueDemo}

ASSUME DeferredWorkAssumption == Demos \subseteq AllDemos

VARIABLES
  demo,        \* the demo that is inserted
  stage,       \* "init" | "loaded" | the next step of exit | "gone"
  thread,      \* test_thread: "none", "check" of kthread_should_stop, "queue", "sleep"
  turn,        \* which item the thread queues, or exit cancels, next
  stop,        \* kthread_stop has been called
  wq,          \* the demo's own queue: "none" | "live" | "drain" | "destroyed"
  timer,       \* items whose timer is armed
  queue,       \* items on the queue, first to be run first
  running,     \* items whose handler is executing
  last,        \* history: the item whose handler was started last
  streak       \* history: how many times in a row it was, up to 3

----------------------------------------------------------------------------
(* Once exit has returned, the module's memory is freed: by then no thread *)
(* runs in it, no timer or queue points to an item of its, and no handler  *)
(* of its executes.  Nor does anybody queue an item on the demo's own      *)
(* queue once destroy_workqueue has begun on it.                           *)
QuietWhenGone ==
  /\ stage = "gone" => thread = "none" /\ timer = {} /\ queue = <<>> /\ running = {}
  /\ wq \in {"drain", "destroyed"} => thread = "none"
  /\ wq = "destroyed" => queue = <<>> /\ running = {}

(* The workqueue demo queues work1 and work2 in turn, and a queueing is    *)
(* lost on an item still pending, so the handlers do not run in turn: one  *)
(* may run twice in a row.  But the other one never loses more than a      *)
(* turn: none runs three times in a row.                                   *)
HandlersTakeTurns == demo = WorkqueueDemo => streak <= 2
=============================================================================
