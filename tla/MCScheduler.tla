---------------------------- MODULE MCScheduler ----------------------------
(* Configurations that make Scheduler small. *)
EXTENDS Scheduler

Job(interval) ==
  [schedule |-> Unset, interval |-> interval, enabled |-> TRUE, jitter |-> 0,
   zone |-> "utc", immediate |-> FALSE]
At(ticks)       == [Job(Unset) EXCEPT !.schedule = Cron(ticks, FALSE)]
Jittered(job, j) == [job EXCEPT !.jitter = j]
Off(job)        == [job EXCEPT !.enabled = FALSE]
In(zone, job)   == [job EXCEPT !.zone = zone]
AtOnce(job)     == [job EXCEPT !.immediate = TRUE]

\* A clock that is ahead of UTC by some minutes, and from one moment to
\* another by more; where it is turned back, readings come twice.
Clock(ahead, from, to, more, found) ==
  [reads |-> [t \in Moments |-> (t + ahead + IF t \in from..to THEN more ELSE 0) % Cycle],
   found |-> found]
Twice(to, more) == to + 1 - more..to + more

\* Turned by an hour at midnight, by an hour and by a part of it; of readings
\* that come twice none is found, or each.
MCZones ==
  [utc    |-> Clock(0, 1, 0, 0, Moments),
   east   |-> Clock(7, 41, 99, HourLen, Moments \ Twice(99, HourLen)),
   west   |-> Clock(-5, 20, 110, HourLen, Moments),
   island |-> Clock(2, 50, 120, 2, Moments \ Twice(120, 2))]

\* Every interval there is, the first that is too long, and one too short.
LoneJobs ==
  {<<Job(Every(n, "m"))>> : n \in 1..HourLen} \cup
  {<<Job(Every(n, "h"))>> : n \in 1..DayLen} \cup
  {<<Job(Every(n, "d"))>> : n \in 1..MonthLen} \cup {<<Job(Every(30, "s"))>>}

\* Jobs that meet at some of their ticks, at all or at none, in both orders.
Crowds ==
  {<<Job(Every(2, "m")), Job(Every(3, "m"))>>, <<Job(Every(3, "m")), Job(Every(2, "m"))>>,
   <<Job(Every(1, "m")), In("east", Job(Every(2, "h"))), AtOnce(At({5}))>>,
   <<Job(Every(2, "h")), In("east", Job(Every(1, "h"))), Job(Every(4, "m"))>>,
   <<Off(Job(Every(1, "m"))), Job(Every(2, "d")), At({1, 8, 40})>>,
   <<At({}), AtOnce(At({70})), Job(Every(1, "d"))>>}

\* Intervals under a clock that is turned; ticks the turn takes away, be it
\* the only one, and ticks at readings that come twice.
Abroad ==
  {<<In(zone, Job(Every(2, unit)))>> : zone \in {"east", "west", "island"}, unit \in {"m", "h", "d"}}
    \cup {<<In("east", Job(Every(1, "d"))), In("west", Job(Every(1, "d")))>>,
          <<In("east", At({44, 50, 108})), In("west", At({108}))>>,
          <<In("east", At({50}))>>,
          <<In("east", At({50})), In("island", Job(Every(3, "h")))>>}

Jitters ==
  {<<Jittered(Job(Every(3, "m")), 4), Job(Every(2, "m"))>>,
   <<Jittered(At({10}), 3), Jittered(At({11}), 2), Job(Every(3, "h"))>>,
   <<Jittered(Job(Every(1, "m")), 7)>>}

\* A blank schedule hides an interval; a day name looks like one.
Skipped ==
  {<<[Job(Every(2, "m")) EXCEPT !.schedule = Blank], Job(Every(5, "m"))>>,
   <<AtOnce([Job(Unset) EXCEPT !.schedule = Cron({3}, TRUE)])>>}

MCJobLists == LoneJobs \cup Crowds \cup Abroad \cup Jitters \cup Skipped

\* Two jobs with the same interval.
Twins == {<<Job(Every(5, "m")), Job(Every(5, "m"))>>}
=============================================================================
