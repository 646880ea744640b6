------------------------------- MODULE Scheduler -------------------------------
(***************************************************************************)
(* The recorder's schedule (common/Scheduler).  Time is an integer number  *)
(* of ticks; the code counts in whole seconds of Second ticks.             *)
(***************************************************************************)
EXTENDS Integers

CONSTANTS Second, StartTime, StopTime

ASSUME ScheduleAssumption ==
  Second \in Nat \ {0} /\ StartTime \in Nat /\ StopTime \in Nat /\ StartTime < StopTime

\* duration_cast to seconds drops the fraction, towards zero.
TimeUntil(now, time) ==
  IF now <= time THEN (time - now) \div Second ELSE -((now - time) \div Second)

DateIsPast(now) == TimeUntil(now, StopTime) < 0

\* What sleep_for is given.
SleepTime(now) == IF TimeUntil(now, StartTime) > 0 THEN TimeUntil(now, StartTime) * Second ELSE 0

=============================================================================
