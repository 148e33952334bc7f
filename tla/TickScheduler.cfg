\* Two ticks at most, on every pass, every second or third unit of time, or at
\* the minutes 0 and 2; a callback may add and stop ticks, but on animation
\* frames it does not stop the last one.
SPECIFICATION FairSpec
CONSTANTS
  Cron = Cron
  Kinds = {0, 2, 3, Cron}
  LongestInterval = 3
  CronCheck = 2
  Matching = {0, 2}
  MaxMinute = 2
  MaxId = 2
  MaxLag = 3
  Frame = {f1, f2}
  NoFrame = NoFrame
  Animated = {"add", "stop"}
  Timed = {"add", "stop", "stopLast"}
INVARIANTS
  OneLoop
  LoopServesTicks
  NeverAhead
  NoBacklog
PROPERTIES
  PauseSilences
  EveryTickFires
