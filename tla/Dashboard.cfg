CONSTANTS
  MaxClicks = 3
  MaxTimer = 1
  MaxFaults = 1
  MaxTime = 12
  Spring = 3
  Fall = 9
  Size <- MCSize
  WindowDays <- MCDays
SPECIFICATION PageSpec
INVARIANTS RereadIsTrue IntentKept BarsCountAll SeriesAgree LoopAdvances
PROPERTIES EveryClickSettles
CHECK_DEADLOCK FALSE
