----------------------------- MODULE Scheduler -----------------------------
(***************************************************************************)
(* The clock side of the daemon: how a job's schedule becomes ticks, how   *)
(* the scheduling loop picks one job, sleeps until its tick and its jitter *)
(* are over, hands out the trigger, and looks for the next tick strictly   *)
(* after that moment.                                                      *)
(*                                                                         *)
(* Time runs in minutes of UTC around one calendar cycle of Months months, *)
(* each of MonthLen days; the code's lengths are 60, 24, 31 and 12.  Each  *)
(* time zone reads that time on a clock of its own, which jumps where it   *)
(* is turned forward and reads the same twice where it is turned back.  A  *)
(* sleep that wakes late is one with a larger jitter.  What becomes of a   *)
(* trigger is DaemonRuntime.                                               *)
(***************************************************************************)
EXTENDS Integers, Sequences, FiniteSets

CONSTANTS HourLen, DayLen, MonthLen, Months,  \* minutes, hours, days, months
          Zones,                      \* the clock of each time zone
          JobLists,                   \* the [[jobs]] of a configuration
          Starts                      \* when the daemon may start

ASSUME CalendarAssumption ==
  {HourLen, DayLen, MonthLen} \subseteq Nat \ {0, 1} /\ Months \in Nat \ {0}

VARIABLES jobs,       \* the configuration the daemon was started with
          clock,      \* minutes since the cycle began, in UTC
          pc,         \* where the loop is
          wait,       \* the job it sleeps for, minutes to its tick and to its timer
          scheduled,  \* positions of the jobs that were registered
          triggered   \* positions of the jobs the last step triggered

vars == <<jobs, clock, pc, wait, scheduled, triggered>>

Day     == HourLen * DayLen
Cycle   == Day * MonthLen * Months
Moments == 0..Cycle - 1

\* What a zone's clock reads at each moment, and the moments at which the
\* search for a cron tick finds that reading: it may pass over readings that
\* come twice.
ASSUME ZonesAssumption ==
  Zones \in [DOMAIN Zones -> [reads : [Moments -> Moments], found : SUBSET Moments]]

Invalid == {-1}   \* no set of moments
Unset   == [form |-> "unset"]
Blank   == [form |-> "blank"]
Every(n, unit) == [form |-> "every", n |-> n, unit |-> unit]
\* A cron expression is the set of moments it names; letter says that it ends
\* in d, h, m or s, as a day name may.
Cron(ticks, letter) == [form |-> "cron", ticks |-> ticks, letter |-> letter]

\* What a [[jobs]] table holds of a job's time; a schedule or an interval is
\* text of any of these forms.
Schedules ==
  {Unset, Blank} \cup [form : {"every"}, n : Nat, unit : {"m", "h", "d", "s"}]
    \cup [form : {"cron"}, ticks : SUBSET Moments, letter : BOOLEAN]

Jobs == [schedule : Schedules, interval : Schedules, enabled : BOOLEAN, jitter : Nat,
         zone : DOMAIN Zones, immediate : BOOLEAN]

ASSUME ScheduleAssumption == JobLists \subseteq Seq(Jobs) /\ Starts \subseteq Moments

-----------------------------------------------------------------------------
(* Schedules *)

Minute(t) == t % HourLen
Hour(t)   == (t \div HourLen) % DayLen
DayOf(t)  == (t \div Day) % MonthLen

\* Slip: the step is put one field too high.
StepsOneFieldUp(n, unit) ==
  CASE unit = "m" -> {t \in Moments : Minute(t) = 0 /\ Hour(t) % n = 0}
    [] unit \in {"h", "d"} -> {t \in Moments : t % Day = 0 /\ DayOf(t) % n = 0}

\* The moments that */n names in the field of a unit, all lower fields zero.
Steps(n, unit) ==
  CASE unit = "m" -> {t \in Moments : Minute(t) % n = 0}
    [] unit = "h" -> {t \in Moments : Minute(t) = 0 /\ Hour(t) % n = 0}
    [] unit = "d" -> {t \in Moments : Minute(t) = 0 /\ Hour(t) = 0 /\ DayOf(t) % n = 0}

\* The largest interval of a unit; seconds are too short to be scheduled.
Longest(unit) ==
  CASE unit = "m" -> HourLen - 1
    [] unit = "h" -> DayLen - 1
    [] unit = "d" -> MonthLen
    [] unit = "s" -> 0

try_parse_interval(text) ==
  IF text.n \in 1..Longest(text.unit) THEN Steps(text.n, text.unit) ELSE Invalid

\* Any text that ends in the letter of a unit is taken for an interval.
parse_schedule(text) ==
  CASE text.form = "every" -> try_parse_interval(text)
    [] text.form = "cron" -> IF text.letter THEN Invalid ELSE text.ticks
    [] text.form = "blank" -> Invalid

\* The schedule wins over the interval, be it blank.
Text(job) ==
  IF job.schedule # Unset THEN job.schedule
  ELSE IF job.interval # Unset THEN job.interval ELSE Every(5, "m")

AllJobs == UNION {{list[n] : n \in DOMAIN list} : list \in JobLists}
Ticks   == [job \in AllJobs |-> parse_schedule(Text(job))]

\* Exactly one of the two has to be there when the file is loaded.
Accepted(job) ==
  (job.schedule \in {Unset, Blank}) # (job.interval \in {Unset, Blank})

ASSUME JobListsAssumption == \A job \in AllJobs : Accepted(job)

\* The moments at which what a job's time zone reads is a tick; a reading that
\* is skipped when the clock is turned is a tick that never comes.
Occurrences ==
  [job \in AllJobs |-> {t \in Zones[job.zone].found : Zones[job.zone].reads[t] \in Ticks[job]}]

Due(job, t) == t % Cycle \in Occurrences[job]

\* Slip: the tick that was just triggered counts once more.
NextAtOrAfter(job, t) ==
  CHOOSE d \in 0..Cycle : Due(job, t + d) /\ \A e \in 0..d - 1 : ~Due(job, t + e)

\* Slip: the cron expression is read in UTC.
NextInUtc(job, t) ==
  CHOOSE d \in 1..Cycle :
    /\ (t + d) % Cycle \in Ticks[job]
    /\ \A e \in 1..d - 1 : (t + e) % Cycle \notin Ticks[job]

\* Minutes to the next tick, which is strictly after t.
next_after(job, t) ==
  CHOOSE d \in 1..Cycle : Due(job, t + d) /\ \A e \in 1..d - 1 : ~Due(job, t + e)

-----------------------------------------------------------------------------
(* The loop *)

NoWait == [job |-> 0, due |-> 0, left |-> 0]

Init ==
  /\ jobs \in JobLists
  /\ clock \in Starts
  /\ pc = "start" /\ wait = NoWait /\ scheduled = {} /\ triggered = {}

\* Jobs whose schedule cannot be parsed are skipped; run_immediately does not
\* ask whether a job was registered.
Start ==
  /\ pc = "start"
  /\ scheduled' = {n \in DOMAIN jobs : Ticks[jobs[n]] # Invalid}
  /\ triggered' = {n \in DOMAIN jobs : jobs[n].immediate /\ jobs[n].enabled}
  /\ pc' = "select"
  /\ UNCHANGED <<jobs, clock, wait>>

\* Slip: a job that was switched off is still looked at.
ActiveOrNot == {n \in scheduled : Occurrences[jobs[n]] # {}}

\* Jobs next_job_to_fire chooses from: enabled, with a tick to come.
Active == {n \in scheduled : jobs[n].enabled /\ Occurrences[jobs[n]] # {}}

\* The soonest tick; of several at the same moment the job listed first.
next_job_to_fire ==
  LET next == [n \in Active |-> next_after(jobs[n], clock)]
  IN  CHOOSE n \in Active :
        \A m \in Active : next[n] < next[m] \/ (next[n] = next[m] /\ n <= m)

\* The jitter is less than its maximum, and not there if that is zero.
Jitter(job) == IF job.jitter = 0 THEN {0} ELSE 0..job.jitter - 1

Select ==
  /\ pc = "select"
  /\ Active # {}
  /\ LET n == next_job_to_fire
         d == next_after(jobs[n], clock)
     IN \E j \in Jitter(jobs[n]) : wait' = [job |-> n, due |-> d, left |-> d + j]
  /\ pc' = "sleep"
  /\ triggered' = {}
  /\ UNCHANGED <<jobs, clock, scheduled>>

\* With nothing to wait for, the loop waits for the shutdown alone.
Park ==
  /\ pc = "select"
  /\ Active = {}
  /\ pc' = "parked"
  /\ triggered' = {}
  /\ UNCHANGED <<jobs, clock, wait, scheduled>>

Pass ==
  /\ pc = "sleep"
  /\ wait.left > 0
  /\ clock' = (clock + 1) % Cycle
  /\ wait' = [wait EXCEPT !.due = @ - 1, !.left = @ - 1]
  /\ UNCHANGED <<jobs, pc, scheduled, triggered>>

Fire ==
  /\ pc = "sleep"
  /\ wait.left = 0
  /\ triggered' = {wait.job}
  /\ wait' = NoWait
  /\ pc' = "select"
  /\ UNCHANGED <<jobs, clock, scheduled>>

Cancel ==
  /\ pc \in {"sleep", "parked"}
  /\ pc' = "down"
  /\ wait' = NoWait
  /\ UNCHANGED <<jobs, clock, scheduled, triggered>>

Loop == Start \/ Select \/ Park \/ Pass \/ Fire
Next == Loop \/ Cancel

\* The loop is a task of its own and its timer fires; nothing forces a shutdown.
Spec == Init /\ [][Next]_vars /\ WF_vars(Loop)

-----------------------------------------------------------------------------
TypeOK ==
  /\ clock \in Moments
  /\ pc \in {"start", "select", "sleep", "parked", "down"}
  /\ scheduled \subseteq DOMAIN jobs
  /\ triggered \subseteq {n \in DOMAIN jobs : jobs[n].enabled}
  /\ pc = "sleep" =>
       /\ wait.job \in scheduled
       /\ wait.due \in Int /\ wait.left \in Nat
       /\ wait.left >= wait.due

\* How many minutes an interval stands for.
Length(text) ==
  text.n * (CASE text.unit = "m" -> 1 [] text.unit = "h" -> HourLen [] text.unit = "d" -> Day)

\* Does a zone's clock run on at a moment: one minute later than the moment
\* before, and not at a reading that is passed over?
RunsOn(zone, t) ==
  /\ t % Cycle \in Zones[zone].found
  /\ Zones[zone].reads[t % Cycle] = (Zones[zone].reads[(t - 1) % Cycle] + 1) % Cycle

\* The loop never sleeps for a tick through as much time as the interval of a
\* job that is enabled, although intervals are cron steps that start over with
\* each hour, day and month: if it sleeps longer, the clock of the job's zone
\* is turned within every stretch of the sleep that is as long as the interval.
NoIntervalOverslept ==
  pc = "sleep" =>
    \A n \in scheduled : jobs[n].enabled /\ Text(jobs[n]).form = "every" =>
      \A e \in 0..wait.due - Length(Text(jobs[n])) - 1 :
        \E d \in 1..Length(Text(jobs[n])) : ~RunsOn(jobs[n].zone, clock + e + d)

\* A tick of an enabled job is passed over only while the trigger of a tick
\* that came before or together with it is on its way: the loop sleeps
\* through no tick on the way to a later one.
MissedOnlyBehindAnother ==
  [][\A n \in DOMAIN jobs :
       clock' # clock /\ jobs[n].enabled /\ Due(jobs[n], clock') => wait'.due <= 0]_vars

Triggered(n) == n \in triggered

\* Without jitter anywhere: the jobs with a tick that no job listed before has.
Unshadowed ==
  [list \in JobLists |->
    {n \in DOMAIN list :
       /\ list[n].enabled
       /\ \A m \in DOMAIN list : list[m].enabled => list[m].jitter = 0
       /\ \E t \in Moments :
            /\ Due(list[n], t)
            /\ \A m \in 1..n - 1 : list[m].enabled => ~Due(list[m], t)}]

\* Without jitter, a job that has a tick of its own, one that no job listed
\* before it shares, is triggered again and again.
RunsUnlessShadowed ==
  \A n \in 1..3 : n \in Unshadowed[jobs] => <>(pc = "down") \/ []<>Triggered(n)

\* "Schedules and triggers jobs per configuration": every enabled job with a
\* schedule is triggered again and again.
EveryJobRuns ==
  \A n \in 1..3 :
    n \in DOMAIN jobs /\ jobs[n].enabled /\ Occurrences[jobs[n]] # {}
    => <>(pc = "down") \/ []<>Triggered(n)
=============================================================================
