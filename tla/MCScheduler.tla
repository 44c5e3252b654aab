---------------------------- MODULE MCScheduler ----------------------------
(* Small instances of Scheduler: a minute is two sweep intervals.          *)
EXTENDS Scheduler

CONSTANTS everyMinute, hourly, everyDuration

\* "* * * * *", and an expression with longer and unequal distances.
MCActivations ==
  [c \in CronExprs |->
     IF c = everyMinute THEN {o \in 1..Horizon : o % 2 = 1} ELSE {1, 5}]

\* "@every 1m".
MCDelay == [c \in EveryExprs |-> 2]
=============================================================================
