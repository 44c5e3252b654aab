SPECIFICATION Spec
CONSTANTS
  everyMinute = everyMinute
  hourly = hourly
  everyDuration = everyDuration
  Replicas = {r1, r2}
  Triggers = {t1}
  CronExprs = {everyMinute, hourly}
  EveryExprs = {}
  Activations <- MCActivations
  Delay <- MCDelay
  Lookback = 3
  Spacing = 2
  MaxGap = 2
  Horizon = 7
INVARIANTS
  OccurrencesFire
  FiresOnce
CHECK_DEADLOCK FALSE
