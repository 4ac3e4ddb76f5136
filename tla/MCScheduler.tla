----------------------------- MODULE MCScheduler -----------------------------
\* Small instances of the scheduler.  Cron schedules are multiples of a period.
EXTENDS Scheduler, TLC

Multiple(n, t) == ((t \div n) + 1) * n

MCOccurs == [s \in Schedule |-> [t \in Time |-> Multiple(IF s = "often" THEN 1 ELSE 2, t)]]

\* Manual runs at any instant, or only before the first Cron occurrence.
AnyTime == Time
AtTheStart == {0}

Executors == Permutations(Worker)
=============================================================================
