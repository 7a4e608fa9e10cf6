SPECIFICATION Both
CONSTANT Demos <- MCDemos
CHECK_DEADLOCK FALSE
INVARIANTS
  QuietWhenGone
  HandlersTakeTurns
  DisabledMeansStopped
  FreedKeyIsUnused
PROPERTIES
  ExitEnds
  PressIsHandled
  ExitEndsOrHangs
