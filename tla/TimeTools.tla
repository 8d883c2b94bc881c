----------------------------- MODULE TimeTools -----------------------------
(***************************************************************************)
(* The intervals the manager is given as text (mapchete_hub/timetools.py):  *)
(* a number, here in tenths, and a unit.                                    *)
(***************************************************************************)
EXTENDS Integers

SecondsPerDay == 86400

Units == [w |-> 7 * SecondsPerDay, d |-> SecondsPerDay, h |-> 3600, m |-> 60, s |-> 1]

\* interval_to_timedelta(), in tenths of a second.
IntervalToTimedelta(interval) == interval.tenths * Units[interval.unit]

\* timedelta.seconds leaves out the days, and what is less than a second.
SecondsSlept(interval) == (IntervalToTimedelta(interval) \div 10) % SecondsPerDay

(***************************************************************************)
(* What watch announces, "next check in ...", before it sleeps: it sleeps   *)
(* no longer than that, and less than a second shorter.                     *)
(***************************************************************************)
SleepsAsAnnounced(interval) ==
    LET announced == IntervalToTimedelta(interval)
        slept == 10 * SecondsSlept(interval)
    IN  slept <= announced /\ announced - slept < 10

=============================================================================
