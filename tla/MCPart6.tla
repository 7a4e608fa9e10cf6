------------------------------ MODULE MCPart6 ------------------------------
(* The modules of part6 inserted beside each other: one of the three       *)
(* kernel-thread demos and the tasklet demo, which share no state but the  *)
(* machine they run on.                                                    *)
EXTENDS DeferredWork, TaskletState

MCDemos == AllDemos

Tasklet == INSTANCE TaskletKey

taskletVars ==
  <<module, key, gpio, installed, sched, listed, run, count, handling, open, late, leaked>>

BothInit == Init /\ Tasklet!Init

BothNext ==
  \/ Next /\ UNCHANGED taskletVars
  \/ Tasklet!Next /\ UNCHANGED vars

Both == BothInit /\ [][BothNext]_<<vars, taskletVars>> /\ Fairness /\ Tasklet!Fairness

(* What TaskletKey says of the tasklet demo in the end.                    *)
PressIsHandled == Tasklet!PressIsHandled
ExitEndsOrHangs == Tasklet!ExitEndsOrHangs
============================================================================
