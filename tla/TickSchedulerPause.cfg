\* A callback pauses the scheduler.
SPECIFICATION Spec
CONSTANTS
  Cron = Cron
  Kinds = {0}
  LongestInterval = 0
  CronCheck = 2
  Matching = {0, 2}
  MaxMinute = 2
  MaxId = 2
  MaxLag = 3
  Frame = {f1, f2}
  NoFrame = NoFrame
  Animated = {"pause"}
  Timed = {"pause"}
PROPERTIES
  PauseSilences
