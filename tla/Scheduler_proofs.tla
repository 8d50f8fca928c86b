-------------------------- MODULE Scheduler_proofs --------------------------
(***************************************************************************)
(* Proofs about Scheduler, for hours, days, months and years of any        *)
(* length, time zones whose clocks are turned anyhow and any lists of jobs *)
(* and jitters: the loop oversleeps an interval only where a clock is      *)
(* turned, and passes over a tick only behind another trigger.             *)
(*                                                                         *)
(* The first part is the arithmetic of a calendar, the second the minutes  *)
(* to a job's next tick, the third the loop.                               *)
(***************************************************************************)
EXTENDS Scheduler, SequenceTheorems, WellFoundedInduction, TLAPS

-----------------------------------------------------------------------------
(* The least of a set of numbers, division with a remainder *)

\* A set of natural numbers that is not empty has a least element: a soonest
\* time and a first job exist.
LEMMA NatMin ==
  ASSUME NEW S \in SUBSET Nat, S # {}
  PROVE  \E m \in S : \A k \in S : m <= k
<1> DEFINE R == OpToRel(<, Nat)
<1>1. IsWellFoundedOn(R, Nat)
  BY NatLessThanWellFounded
<1>2. \A x, y \in Nat : <<x, y>> \in R <=> x < y
  BY DEF OpToRel
<1> HIDE DEF R
<1>3. PICK m \in S : \A k \in S : ~(<<k, m>> \in R)
  BY <1>1, WFMin
<1>4. ASSUME NEW k \in S PROVE m <= k
  <2>1. m \in Nat /\ k \in Nat
    OBVIOUS
  <2>2. ~(<<k, m>> \in R)
    BY <1>3
  <2>3. ~(k < m)
    BY <1>2, <2>1, <2>2
  <2> QED
    BY <2>1, <2>3
<1> QED
  BY <1>4

LEMMA DivMod ==
  ASSUME NEW x \in Int, NEW m \in Nat \ {0}
  PROVE  /\ x \div m \in Int /\ x % m \in 0..m - 1
         /\ x = m * (x \div m) + (x % m)
  OBVIOUS

LEMMA DivModUnique ==
  ASSUME NEW x \in Int, NEW m \in Nat \ {0}, NEW q \in Int, NEW r \in 0..m - 1,
         x = m * q + r
  PROVE  x % m = r /\ x \div m = q
  OBVIOUS

LEMMA Product ==
  ASSUME NEW a \in Nat \ {0}, NEW b \in Nat \ {0} PROVE a * b \in Nat \ {0}
  OBVIOUS

\* Whole rounds do not change a remainder.
LEMMA ModRounds ==
  ASSUME NEW x \in Int, NEW m \in Nat \ {0}, NEW q \in Int
  PROVE  (x + m * q) % m = x % m
<1> DEFINE a == x \div m
           r == x % m
<1>1. x = m * a + r /\ a \in Int /\ r \in 0..m - 1
  BY DivMod
<1> HIDE DEF a, r
<1>2. m * a + m * q = m * (a + q)
  BY <1>1
<1>3. x + m * q = m * (a + q) + r /\ x + m * q \in Int /\ a + q \in Int
  BY <1>1, <1>2
<1>4. (x + m * q) % m = r
  BY <1>1, <1>3, DivModUnique
<1> QED
  BY <1>4 DEF r

LEMMA ModPlus ==
  ASSUME NEW x \in Int, NEW m \in Nat \ {0}, NEW y \in Int
  PROVE  ((x % m) + y) % m = (x + y) % m
<1> DEFINE a == x \div m
           r == x % m
<1>1. x = m * a + r /\ a \in Int /\ r \in 0..m - 1
  BY DivMod
<1> HIDE DEF a, r
<1> DEFINE z == r + y
<1>2. z \in Int /\ x + y = z + m * a
  BY <1>1
<1> HIDE DEF z
<1>3. (z + m * a) % m = z % m
  BY <1>1, <1>2, ModRounds, Zenon
<1>4. (x + y) % m = z % m
  BY <1>2, <1>3, Zenon
<1> QED
  BY <1>4 DEF r, z

LEMMA ModSmall ==
  ASSUME NEW m \in Nat \ {0}, NEW x \in 0..m - 1 PROVE x % m = x /\ x \div m = 0
  BY DivModUnique

\* In a field of length L a step of n comes, or the field is over, within n.
LEMMA FieldStep ==
  ASSUME NEW L \in Nat \ {0}, NEW n \in Nat \ {0}, NEW r \in 0..L - 1
  PROVE  \E f \in 1..n : r + f <= L /\ (r + f = L \/ (r + f) % n = 0)
<1> DEFINE a == r \div n
           b == r % n
<1>1. r = n * a + b /\ a \in Int /\ b \in 0..n - 1
  BY DivMod
<1> HIDE DEF a, b
<1>2. n - b \in 1..n /\ r + (n - b) = n * (a + 1) + 0
  BY <1>1
<1>3. (r + (n - b)) % n = 0
  BY <1>1, <1>2, DivModUnique
<1>4. CASE r + (n - b) <= L
  BY <1>2, <1>3, <1>4
<1>5. CASE ~(r + (n - b) <= L)
  <2>0. PICK f : f = L - r
    OBVIOUS
  <2>1. f \in 1..n /\ r + f = L /\ r + f <= L
    BY <1>1, <1>5, <2>0
  <2> QED
    BY <2>1
<1> QED
  BY <1>4, <1>5

\* Within n units of size s, counted from u, one starts at which the field of
\* that unit, of length L, is at one of its steps of n.
StepComes(s, L, n, cycle, u) ==
  \E e \in 1..n * s : /\ ((u + e) % cycle) % s = 0
                     /\ ((((u + e) % cycle) \div s) % L) % n = 0

\* The same in a calendar whose cycle has K rounds of L units of size s.
LEMMA UnitStep ==
  ASSUME NEW s \in Nat \ {0}, NEW L \in Nat \ {0}, NEW K \in Nat \ {0},
         NEW n \in Nat \ {0}, NEW cycle, cycle = s * (L * K), NEW u \in 0..cycle - 1
  PROVE  StepComes(s, L, n, cycle, u)
<1> DEFINE M == L * K
           p == u \div s
           x == u % s
           q == p \div L
           r == p % L
<1>1. M \in Nat \ {0} /\ s * M \in Nat \ {0}
  BY Product
<1>2. u = s * p + x /\ p \in Int /\ x \in 0..s - 1
  <2>1. u \in Int
    BY <1>1
  <2> QED
    BY <2>1, DivMod
<1> HIDE DEF p, x
<1>3. p \in 0..M - 1
  <2>1. u \in 0..(s * M) - 1
    OBVIOUS
  <2> HIDE DEF M
  <2>2. s * p <= u /\ u < s * M /\ u < s * (p + 1)
    BY <1>1, <1>2, <2>1
  <2>3. p < M
    <3>1. s * p < s * M
      BY <1>1, <1>2, <2>2
    <3> QED
      BY <1>1, <1>2, <3>1
  <2>4. 0 < s * (p + 1)
    BY <1>1, <1>2, <2>1, <2>2
  <2>5. 0 < p + 1
    BY <1>2, <2>4
  <2> QED
    BY <1>1, <1>2, <2>3, <2>5
<1>4. p = L * q + r /\ q \in Int /\ r \in 0..L - 1
  BY <1>2, DivMod
<1> HIDE DEF q, r
<1>5. q + 1 <= K
  <2>1. L * q < L * K
    BY <1>1, <1>3, <1>4
  <2>2. q < K
    BY <1>4, <2>1
  <2> QED
    BY <1>4, <2>2
<1>6. PICK f \in 1..n : r + f <= L /\ (r + f = L \/ (r + f) % n = 0)
  BY <1>4, FieldStep
<1>7. p + f <= M /\ p + f \in Nat
  <2>1. p + f <= L * (q + 1)
    BY <1>4, <1>6
  <2>2. L * (q + 1) <= L * K
    BY <1>4, <1>5
  <2> QED
    BY <1>3, <1>4, <1>6, <2>1, <2>2
<1> HIDE DEF M
<1> DEFINE e == s * f - x
<1>8. e \in 1..n * s /\ u + e = s * (p + f)
  <2>1. s * f \in Nat /\ s <= s * f /\ s * f <= s * n
    BY <1>6
  <2> QED
    BY <1>2, <1>6, <2>1
<1> HIDE DEF e
<1> DEFINE v == (u + e) % (s * M)
<1>9. v % s = 0 /\ ((v \div s) % L) % n = 0
  <2>0. 0 % n = 0 /\ 0 % s = 0 /\ 0 \div s = 0 /\ 0 % L = 0
    BY ModSmall
  <2>1. CASE p + f = M
    <3>1. u + e = (s * M) * 1 + 0 /\ u + e \in Int
      BY <1>1, <1>8, <2>1
    <3>2. v = 0
      BY <1>1, <3>1, DivModUnique
    <3> QED
      BY <2>0, <3>2
  <2>2. CASE p + f # M
    <3>1. s * (p + f) \in 0..(s * M) - 1
      <4>1. s * (p + f) < s * M
        BY <1>1, <1>7, <2>2
      <4> QED
        BY <1>1, <1>7, <4>1
    <3>2. v = s * (p + f)
      BY <1>1, <1>8, <3>1, ModSmall
    <3>3. v % s = 0 /\ v \div s = p + f
      <4>1. v = s * (p + f) + 0 /\ v \in Int
        BY <1>7, <3>2
      <4> HIDE DEF v
      <4> QED
        BY <1>7, <4>1, DivModUnique
    <3>4. CASE r + f = L
      <4>1. p + f = L * (q + 1) + 0 /\ q + 1 \in Int /\ 0 \in 0..L - 1 /\ p + f \in Int
        BY <1>4, <1>7, <3>4
      <4>2. (p + f) % L = 0
        BY <4>1, DivModUnique
      <4> QED
        BY <2>0, <3>3, <4>2
    <3>5. CASE r + f # L
      <4>0. PICK y : y = r + f
        OBVIOUS
      <4>1. /\ p + f = L * q + y /\ y \in 0..L - 1
            /\ p + f \in Int /\ q \in Int
        BY <1>4, <1>6, <1>7, <3>5, <4>0
      <4>2. (p + f) % L = r + f
        BY <4>0, <4>1, DivModUnique
      <4> QED
        BY <1>6, <3>3, <3>5, <4>2
    <3> QED
      BY <3>4, <3>5
  <2> QED
    BY <2>1, <2>2
<1>10. v = (u + e) % cycle
  BY DEF M
<1> HIDE DEF v
<1> QED
  BY <1>8, <1>9, <1>10 DEF StepComes

-----------------------------------------------------------------------------
(* The calendar and the ticks of a job *)

LEMMA CalendarLengths ==
  /\ HourLen \in Nat \ {0} /\ DayLen \in Nat \ {0} /\ MonthLen \in Nat \ {0}
  /\ Months \in Nat \ {0} /\ Day \in Nat \ {0} /\ Cycle \in Nat \ {0}
  /\ Cycle = 1 * (HourLen * (DayLen * (MonthLen * Months)))
  /\ Cycle = HourLen * (DayLen * (MonthLen * Months))
  /\ Cycle = Day * (MonthLen * Months)
<1>1. HourLen \in Nat \ {0} /\ DayLen \in Nat \ {0} /\ MonthLen \in Nat \ {0} /\ Months \in Nat \ {0}
  BY CalendarAssumption
<1>2. Day \in Nat \ {0}
  BY <1>1, Product DEF Day
<1> DEFINE K == MonthLen * Months
<1>3. K \in Nat \ {0} /\ Cycle = Day * K
  BY <1>1, <1>2, Product DEF Cycle
<1> HIDE DEF K
<1>4. Cycle \in Nat \ {0}
  BY <1>2, <1>3, Product
<1>5. Cycle = HourLen * (DayLen * K)
  BY <1>1, <1>3 DEF Day
<1>6. HourLen * (DayLen * K) \in Nat
  BY <1>4, <1>5
<1>7. Cycle = 1 * (HourLen * (DayLen * K))
  BY <1>5, <1>6
<1> QED
  BY <1>1, <1>2, <1>3, <1>4, <1>5, <1>7 DEF K

Units == {"m", "h", "d"}
Size(unit) == CASE unit = "m" -> 1 [] unit = "h" -> HourLen [] unit = "d" -> Day

\* From any moment the next step of n units comes within n units, over the
\* end of an hour, a day or a month too, where the steps start again.
LEMMA StepWithinInterval ==
  ASSUME NEW unit \in Units, NEW n \in Nat \ {0}, NEW u \in Moments
  PROVE  \E e \in 1..n * Size(unit) : (u + e) % Cycle \in Steps(n, unit)
<1>0. u \in 0..Cycle - 1 /\ Cycle \in Nat \ {0}
  BY CalendarLengths DEF Moments
<1>1. CASE unit = "m"
  <2> DEFINE K == DayLen * (MonthLen * Months)
  <2>1. K \in Nat \ {0} /\ 1 \in Nat \ {0} /\ HourLen \in Nat \ {0} /\ Cycle = 1 * (HourLen * K)
    <3>1. MonthLen * Months \in Nat \ {0}
      BY CalendarLengths, Product
    <3> QED
      BY <3>1, CalendarLengths, Product
  <2> HIDE DEF K
  <2>2. PICK e \in 1..n * 1 :
          /\ ((u + e) % Cycle) % 1 = 0
          /\ ((((u + e) % Cycle) \div 1) % HourLen) % n = 0
    <3>1. StepComes(1, HourLen, n, Cycle, u)
      BY <1>0, <2>1, UnitStep
    <3> QED
      BY <3>1 DEF StepComes
  <2> DEFINE v == (u + e) % Cycle
  <2>3. v \in Moments /\ v \in Int
    <3>1. u + e \in Int
      BY <1>0, <2>2
    <3> QED
      BY <1>0, <3>1, DivMod DEF Moments
  <2>4. ((v \div 1) % HourLen) % n = 0
    BY <2>1, <2>2
  <2> HIDE DEF v
  <2>5. v = 1 * v + 0 /\ 0 \in 0..1 - 1 /\ 1 \in Nat \ {0}
    BY <2>3
  <2>6. v \div 1 = v
    BY <2>3, <2>5, DivModUnique
  <2>7. v \in Steps(n, unit)
    BY <1>1, <2>3, <2>4, <2>6 DEF Steps, Minute
  <2> QED
    BY <1>1, <2>7 DEF Size, v
<1>2. CASE unit = "h"
  <2> DEFINE K == MonthLen * Months
  <2>1. K \in Nat \ {0} /\ DayLen \in Nat \ {0} /\ HourLen \in Nat \ {0}
        /\ Cycle = HourLen * (DayLen * K)
    BY CalendarLengths, Product
  <2> HIDE DEF K
  <2>2. PICK e \in 1..n * HourLen :
          /\ ((u + e) % Cycle) % HourLen = 0
          /\ ((((u + e) % Cycle) \div HourLen) % DayLen) % n = 0
    <3>1. StepComes(HourLen, DayLen, n, Cycle, u)
      BY <1>0, <2>1, UnitStep
    <3> QED
      BY <3>1 DEF StepComes
  <2> DEFINE v == (u + e) % Cycle
  <2>3. v \in Moments
    BY <1>0, <2>1, <2>2, DivMod DEF Moments
  <2>4. v % HourLen = 0 /\ ((v \div HourLen) % DayLen) % n = 0
    BY <2>1, <2>2
  <2> HIDE DEF v
  <2>5. v \in Steps(n, unit)
    BY <1>2, <2>3, <2>4 DEF Steps, Minute, Hour
  <2> QED
    BY <1>2, <2>5 DEF Size, v
<1>3. CASE unit = "d"
  <2>1. MonthLen \in Nat \ {0} /\ DayLen \in Nat \ {0} /\ HourLen \in Nat \ {0}
        /\ Day \in Nat \ {0} /\ Months \in Nat \ {0} /\ Cycle = Day * (MonthLen * Months)
    BY CalendarLengths
  <2>2. PICK e \in 1..n * Day :
          /\ ((u + e) % Cycle) % Day = 0
          /\ ((((u + e) % Cycle) \div Day) % MonthLen) % n = 0
    <3>1. StepComes(Day, MonthLen, n, Cycle, u)
      BY <1>0, <2>1, UnitStep
    <3> QED
      BY <3>1 DEF StepComes
  <2> DEFINE v == (u + e) % Cycle
  <2>3. v \in Moments
    BY <1>0, <2>1, <2>2, DivMod DEF Moments
  <2>4. v % Day = 0 /\ ((v \div Day) % MonthLen) % n = 0
    BY <2>1, <2>2
  <2> HIDE DEF v
  <2> DEFINE w == v \div Day
  <2>5. v = Day * w /\ w \in Int /\ v \in 0..Cycle - 1
    BY <2>1, <2>3, <2>4, DivMod DEF Moments
  <2> HIDE DEF w
  <2>8. DayOf(v) % n = 0
    BY <2>4 DEF DayOf
  <2>9. v = HourLen * (DayLen * w) + 0 /\ DayLen * w \in Int /\ 0 \in 0..HourLen - 1
        /\ DayLen * w = DayLen * w + 0 /\ 0 \in 0..DayLen - 1
    BY <2>1, <2>5 DEF Day
  <2>10. v % HourLen = 0 /\ v \div HourLen = DayLen * w
    <3> DEFINE x == DayLen * w
    <3>1. x \in Int /\ v = HourLen * x + 0 /\ v \in Int
      BY <2>5, <2>9
    <3> HIDE DEF x
    <3>2. v % HourLen = 0 /\ v \div HourLen = x
      BY <2>1, <2>9, <3>1, DivModUnique
    <3> QED
      BY <3>2 DEF x
  <2>11. (DayLen * w) % DayLen = 0
    <3> DEFINE x == DayLen * w
    <3>1. x \in Int /\ x = DayLen * w + 0
      BY <2>9
    <3> HIDE DEF x
    <3>2. x % DayLen = 0
      BY <2>1, <2>5, <2>9, <3>1, DivModUnique
    <3> QED
      BY <3>2 DEF x
  <2>12. v \in Steps(n, unit)
    BY <1>3, <2>3, <2>8, <2>10, <2>11 DEF Steps, Minute, Hour
  <2> QED
    BY <1>3, <2>12 DEF Size, v
<1> QED
  BY <1>1, <1>2, <1>3 DEF Units

LEMMA JobOfList ==
  ASSUME NEW list \in JobLists, NEW n \in DOMAIN list
  PROVE  list[n] \in AllJobs /\ list[n] \in Jobs /\ n \in Nat
<1>1. list \in Seq(Jobs)
  BY ScheduleAssumption
<1> QED
  BY <1>1, ElementOfSeq, LenProperties DEF AllJobs

LEMMA JobTypes == AllJobs \subseteq Jobs
  BY JobOfList DEF AllJobs

LEMMA ScheduleText ==
  ASSUME NEW job \in AllJobs
  PROVE  /\ Text(job) \in Schedules
         /\ Text(job).form \in {"every", "cron", "blank"}
         /\ Ticks[job] = parse_schedule(Text(job))
<1>1. job \in Jobs
  BY JobTypes
<1>2. Every(5, "m") \in Schedules
  BY DEF Every, Schedules
<1>3. Text(job) \in Schedules /\ Text(job) # Unset
  BY <1>1, <1>2 DEF Text, Jobs, Every, Unset
<1>4. Text(job).form \in {"every", "cron", "blank"}
  BY <1>3 DEF Schedules, Unset, Blank
<1> QED
  BY <1>3, <1>4 DEF Ticks

\* A schedule names moments, or it is no schedule.
LEMMA TicksAreMoments ==
  ASSUME NEW job \in AllJobs PROVE Ticks[job] = Invalid \/ Ticks[job] \subseteq Moments
<1> DEFINE text == Text(job)
<1>1. text \in Schedules /\ text.form \in {"every", "cron", "blank"}
      /\ Ticks[job] = parse_schedule(text)
  BY ScheduleText
<1> HIDE DEF text
<1>2. CASE text.form = "every"
  <2>1. text \in [form : {"every"}, n : Nat, unit : {"m", "h", "d", "s"}]
    BY <1>1, <1>2 DEF Schedules, Unset, Blank
  <2>2. CASE text.n \in 1..Longest(text.unit)
    <3>1. text.unit \in {"m", "h", "d"}
      BY <2>1, <2>2 DEF Longest
    <3>2. Steps(text.n, text.unit) \subseteq Moments
      BY <3>1 DEF Steps
    <3> QED
      BY <1>1, <1>2, <2>2, <3>2 DEF parse_schedule, try_parse_interval
  <2> QED
    BY <1>1, <1>2, <2>2 DEF parse_schedule, try_parse_interval
<1>3. CASE text.form = "cron"
  <2>1. text \in [form : {"cron"}, ticks : SUBSET Moments, letter : BOOLEAN]
    BY <1>1, <1>3 DEF Schedules, Unset, Blank
  <2> QED
    BY <1>1, <1>3, <2>1 DEF parse_schedule
<1>4. CASE text.form = "blank"
  BY <1>1, <1>4 DEF parse_schedule
<1> QED
  BY <1>1, <1>2, <1>3, <1>4

\* A job that is looked at has ticks to come, and next_after finds the first.
Ticking(job) == Occurrences[job] # {}

LEMMA OccurrencesAreMoments ==
  ASSUME NEW job \in AllJobs
  PROVE  /\ job.zone \in DOMAIN Zones
         /\ Zones[job.zone].reads \in [Moments -> Moments]
         /\ Zones[job.zone].found \subseteq Moments
         /\ Occurrences[job] \subseteq Moments
         /\ \A t \in Moments : t \in Occurrences[job] <=>
              t \in Zones[job.zone].found /\ Zones[job.zone].reads[t] \in Ticks[job]
<1>1. job.zone \in DOMAIN Zones
  BY JobTypes DEF Jobs
<1>2. Zones[job.zone] \in [reads : [Moments -> Moments], found : SUBSET Moments]
  BY <1>1, ZonesAssumption
<1> QED
  BY <1>1, <1>2 DEF Occurrences

LEMMA NextIsFirst ==
  ASSUME NEW job \in AllJobs, Ticking(job), NEW t \in Nat
  PROVE  /\ next_after(job, t) \in 1..Cycle
         /\ Due(job, t + next_after(job, t))
         /\ \A e \in 1..next_after(job, t) - 1 : ~Due(job, t + e)
<1> DEFINE S == {d \in 1..Cycle : Due(job, t + d)}
<1>0. Cycle \in Nat \ {0}
  BY CalendarLengths
<1>1. PICK k \in Occurrences[job] : k \in 0..Cycle - 1
  BY OccurrencesAreMoments DEF Ticking, Moments
<1>2. S # {}
  <2> DEFINE d == ((k - t - 1) % Cycle) + 1
             q == (k - t - 1) \div Cycle
  <2>1. /\ (k - t - 1) = Cycle * q + ((k - t - 1) % Cycle) /\ q \in Int
        /\ (k - t - 1) % Cycle \in 0..Cycle - 1
    <3>1. k - t - 1 \in Int
      BY <1>0, <1>1
    <3> QED
      BY <1>0, <3>1, DivMod
  <2>2. d \in 1..Cycle
    BY <1>0, <2>1
  <2>3. t + d = Cycle * (-q) + k /\ t + d \in Int /\ -q \in Int
    <3>1. Cycle * (-q) = -(Cycle * q) /\ Cycle * q \in Int
      BY <1>0, <2>1
    <3> HIDE DEF q
    <3> QED
      BY <1>0, <1>1, <2>1, <3>1
  <2> HIDE DEF d, q
  <2>4. (t + d) % Cycle = k
    BY <1>0, <1>1, <2>3, DivModUnique
  <2>5. Due(job, t + d)
    BY <1>1, <2>4 DEF Due
  <2> QED
    BY <2>2, <2>5
<1>3. PICK d \in S : \A e \in S : d <= e
  <2>1. S \in SUBSET Nat
    OBVIOUS
  <2> HIDE DEF S
  <2> QED
    BY <1>2, <2>1, NatMin
<1>4. d \in 1..Cycle /\ Due(job, t + d) /\ \A e \in 1..d - 1 : ~Due(job, t + e)
  <2>1. d \in 1..Cycle /\ Due(job, t + d)
    BY <1>3
  <2>2. ASSUME NEW e \in 1..d - 1, Due(job, t + e) PROVE FALSE
    <3>1. e \in S
      BY <1>0, <2>1, <2>2
    <3> QED
      BY <1>3, <2>1, <2>2, <3>1
  <2> QED
    BY <2>1, <2>2
<1> QED
  BY <1>4 DEF next_after

LEMMA NoneBeforeNext ==
  ASSUME NEW job \in AllJobs, Ticking(job), NEW t \in Nat, NEW e \in Nat \ {0}, Due(job, t + e)
  PROVE  next_after(job, t) <= e
<1> DEFINE d == next_after(job, t)
<1>1. d \in 1..Cycle /\ \A i \in 1..d - 1 : ~Due(job, t + i)
  BY NextIsFirst
<1> HIDE DEF d
<1>2. d <= e
  BY <1>1, CalendarLengths
<1> QED
  BY <1>2 DEF d

\* While a zone's clock runs on, its reading moves on as time does.
LEMMA RunningClock ==
  ASSUME NEW zone \in DOMAIN Zones, NEW t \in Nat, NEW L \in Nat,
         \A d \in 1..L : RunsOn(zone, t + d), NEW d \in 0..L
  PROVE  Zones[zone].reads[(t + d) % Cycle] = (Zones[zone].reads[t % Cycle] + d) % Cycle
<1> DEFINE At(i) == Zones[zone].reads[(t + i) % Cycle]
           u == Zones[zone].reads[t % Cycle]
           S == {i \in 0..L : At(i) # (u + i) % Cycle}
<1>1. Cycle \in Nat \ {0} /\ t % Cycle \in Moments
  <2>1. Cycle \in Nat \ {0} /\ t \in Int
    BY CalendarLengths
  <2> QED
    BY <2>1, DivMod DEF Moments
<1>2. Zones[zone].reads \in [Moments -> Moments]
  BY ZonesAssumption
<1>3. u \in 0..Cycle - 1
  BY <1>1, <1>2 DEF Moments
<1>4. ASSUME S # {} PROVE FALSE
  <2>1. S \in SUBSET Nat
    OBVIOUS
  <2>2. PICK i \in S : \A k \in S : i <= k
    <3> HIDE DEF S
    <3> QED
      BY <1>4, <2>1, NatMin
  <2>3. i # 0
    <3>1. t + 0 = t
      OBVIOUS
    <3>2. At(0) = u
      BY <3>1
    <3>3. u + 0 = u /\ u % Cycle = u
      <4> HIDE DEF u
      <4>1. u % Cycle = u
        BY <1>1, <1>3, ModSmall
      <4> QED
        BY <1>3, <4>1
    <3>4. At(0) = (u + 0) % Cycle
      <4> HIDE DEF u, At
      <4> QED
        BY <3>2, <3>3
    <3>5. 0 \notin S
      <4> HIDE DEF u, At
      <4> QED
        BY <3>4
    <3> QED
      BY <2>2, <3>5
  <2>4. i \in 1..L /\ i - 1 \in 0..L /\ i - 1 \in Nat
    BY <2>2, <2>3
  <2>5. At(i - 1) = (u + (i - 1)) % Cycle
    BY <2>2, <2>4
  <2>6. At(i) = (At(i - 1) + 1) % Cycle
    <3>1. RunsOn(zone, t + i) /\ (t + i) - 1 = t + (i - 1)
      BY <2>4
    <3> QED
      BY <3>1 DEF RunsOn
  <2> HIDE DEF u, At
  <2>7. (((u + (i - 1)) % Cycle) + 1) % Cycle = ((u + (i - 1)) + 1) % Cycle
    <3> DEFINE x == u + (i - 1)
    <3>1. x \in Int
      BY <1>3, <2>4
    <3> HIDE DEF x
    <3>2. ((x % Cycle) + 1) % Cycle = (x + 1) % Cycle
      BY <1>1, <3>1, ModPlus
    <3> QED
      BY <3>2 DEF x
  <2>8. (u + (i - 1)) + 1 = u + i
    BY <1>3, <2>4
  <2>9. At(i) = (u + i) % Cycle
    BY <2>5, <2>6, <2>7, <2>8, Zenon
  <2> QED
    BY <2>2, <2>9
<1> QED
  BY <1>4

\* While the clock of its zone runs on for an interval, a job has a tick.
LEMMA TickInStretch ==
  ASSUME NEW job \in AllJobs, Text(job).form = "every", Ticks[job] # Invalid, NEW t \in Nat,
         \A d \in 1..Length(Text(job)) : RunsOn(job.zone, t + d)
  PROVE  \E d \in 1..Length(Text(job)) : Due(job, t + d)
<1> DEFINE text == Text(job)
           L == Length(text)
           u == Zones[job.zone].reads[t % Cycle]
<1>1. text \in [form : {"every"}, n : Nat, unit : {"m", "h", "d", "s"}]
  BY ScheduleText DEF Schedules, Unset, Blank
<1>2. text.n \in 1..Longest(text.unit) /\ Ticks[job] = Steps(text.n, text.unit)
  BY ScheduleText DEF parse_schedule, try_parse_interval
<1>3. text.unit \in Units /\ text.n \in Nat \ {0}
  BY <1>1, <1>2 DEF Longest, Units
<1>4. L = text.n * Size(text.unit) /\ Size(text.unit) \in Nat \ {0}
  BY <1>3, CalendarLengths DEF Length, Size, Units
<1>5. L \in Nat
  BY <1>3, <1>4, Product
<1>6. Cycle \in Nat \ {0} /\ t % Cycle \in Moments
  BY CalendarLengths, DivMod DEF Moments
<1>7. u \in Moments
  BY <1>6, OccurrencesAreMoments
<1>8. PICK d \in 1..L : (u + d) % Cycle \in Steps(text.n, text.unit)
  BY <1>3, <1>4, <1>7, StepWithinInterval
<1>9. Zones[job.zone].reads[(t + d) % Cycle] = (u + d) % Cycle
  <2>1. job.zone \in DOMAIN Zones /\ d \in 0..L /\ \A i \in 1..L : RunsOn(job.zone, t + i)
    BY <1>5, <1>8, OccurrencesAreMoments
  <2> HIDE DEF L
  <2> QED
    BY <1>5, <2>1, RunningClock
<1>10. (t + d) % Cycle \in Zones[job.zone].found
  BY <1>8 DEF RunsOn
<1>11. (t + d) % Cycle \in Occurrences[job]
  BY <1>2, <1>8, <1>9, <1>10, OccurrencesAreMoments
<1> QED
  BY <1>8, <1>11 DEF Due

LEMMA IntervalLength ==
  ASSUME NEW job \in AllJobs, Text(job).form = "every", Ticks[job] # Invalid
  PROVE  Length(Text(job)) \in Nat
<1> DEFINE text == Text(job)
<1>1. text \in [form : {"every"}, n : Nat, unit : {"m", "h", "d", "s"}]
  BY ScheduleText DEF Schedules, Unset, Blank
<1>2. text.n \in 1..Longest(text.unit)
  BY ScheduleText DEF parse_schedule, try_parse_interval
<1>3. text.unit \in Units /\ text.n \in Nat \ {0}
  BY <1>1, <1>2 DEF Longest, Units
<1> QED
  BY <1>3, CalendarLengths, Product DEF Length, Units

-----------------------------------------------------------------------------
(* The loop *)

Parsed == {n \in DOMAIN jobs : Ticks[jobs[n]] # Invalid}

\* While the loop sleeps, it does so for an active job, and until its tick or
\* longer.
SleepInv == pc = "sleep" => wait.job \in Active /\ wait.left >= wait.due

TypeInv ==
  /\ jobs \in JobLists
  /\ clock \in Moments
  /\ pc \in {"start", "select", "sleep", "parked", "down"}
  /\ wait \in [job : Nat, due : Int, left : Nat]
  /\ scheduled = IF pc = "start" THEN {} ELSE Parsed
  /\ triggered \subseteq {n \in DOMAIN jobs : jobs[n].enabled}
  /\ SleepInv

\* On the way to the tick it sleeps for, no enabled job has one.
QuietInv ==
  pc = "sleep" =>
    \A n \in DOMAIN jobs : jobs[n].enabled =>
      \A e \in Nat \ {0} : e < wait.due => ~Due(jobs[n], clock + e)

LEMMA JobFacts ==
  ASSUME TypeInv, NEW n \in DOMAIN jobs
  PROVE  /\ n \in Nat /\ jobs[n] \in AllJobs
         /\ jobs[n].zone \in DOMAIN Zones /\ jobs[n].jitter \in Nat /\ jobs[n].enabled \in BOOLEAN
  BY JobOfList DEF TypeInv, Jobs

LEMMA ClockFacts ==
  ASSUME TypeInv
  PROVE  clock \in Nat /\ Cycle \in Nat \ {0} /\ clock + 1 \in Nat
         /\ (clock + 1) % Cycle \in Moments
<1>1. clock \in Nat /\ Cycle \in Nat \ {0} /\ clock + 1 \in Int
  BY CalendarLengths DEF TypeInv, Moments
<1> QED
  BY <1>1, DivMod DEF Moments

\* An active job has a tick to come; a job that is enabled and not active has none.
LEMMA ActiveFacts ==
  ASSUME TypeInv, pc # "start", NEW n \in DOMAIN jobs, jobs[n].enabled
  PROVE  /\ n \in Active <=> Ticking(jobs[n])
         /\ ~Ticking(jobs[n]) => \A t \in Int : ~Due(jobs[n], t)
<1>1. jobs[n] \in AllJobs
  BY JobFacts
<1>2. Ticks[jobs[n]] = Invalid => ~Ticking(jobs[n])
  <2> SUFFICES ASSUME Ticks[jobs[n]] = Invalid, NEW t \in Occurrences[jobs[n]] PROVE FALSE
    BY DEF Ticking
  <2>1. t \in Moments /\ Zones[jobs[n].zone].reads[t] \in Invalid
    BY <1>1, OccurrencesAreMoments
  <2>2. Zones[jobs[n].zone].reads[t] \in 0..Cycle - 1 /\ Cycle \in Nat
    BY <1>1, <2>1, OccurrencesAreMoments, CalendarLengths DEF Moments
  <2> QED
    BY <2>1, <2>2 DEF Invalid
<1>3. n \in Active <=> Ticking(jobs[n])
  BY <1>2 DEF TypeInv, Active, Parsed, Ticking
<1> QED
  BY <1>3 DEF Due, Ticking

\* The choice of the next job has an outcome, and no active job is sooner.
LEMMA ChosenIsSoonest ==
  ASSUME TypeInv, pc = "select", Active # {}
  PROVE  /\ next_job_to_fire \in Active
         /\ \A m \in Active :
              next_after(jobs[next_job_to_fire], clock) <= next_after(jobs[m], clock)
<1> DEFINE next == [n \in Active |-> next_after(jobs[n], clock)]
           S == {next[n] : n \in Active}
<1>0. \A n \in Active : n \in Nat /\ next[n] \in Nat /\ next[n] = next_after(jobs[n], clock)
  <2> TAKE n \in Active
  <2>1. n \in DOMAIN jobs /\ jobs[n].enabled
    BY DEF Active, TypeInv, Parsed
  <2>2. Ticking(jobs[n]) /\ jobs[n] \in AllJobs /\ n \in Nat /\ clock \in Nat
    BY <2>1, ActiveFacts, JobFacts, ClockFacts
  <2>3. next_after(jobs[n], clock) \in 1..Cycle
    BY <2>2, NextIsFirst
  <2> QED
    BY <2>2, <2>3, CalendarLengths
<1>1. S \in SUBSET Nat /\ S # {}
  BY <1>0
<1>2. PICK v \in S : \A k \in S : v <= k
  <2> HIDE DEF S
  <2> QED
    BY <1>1, NatMin
<1> DEFINE F == {n \in Active : next[n] = v}
<1>3. F \in SUBSET Nat /\ F # {}
  BY <1>0, <1>2
<1>4. PICK k \in F : \A m \in F : k <= m
  <2> HIDE DEF F
  <2> QED
    BY <1>3, NatMin
<1>5. \A m \in Active : next[k] < next[m] \/ (next[k] = next[m] /\ k <= m)
  <2> TAKE m \in Active
  <2>1. next[k] = v /\ v <= next[m] /\ v \in Nat /\ next[m] \in Nat
    BY <1>0, <1>2, <1>4
  <2>2. CASE next[m] = v
    BY <1>4, <2>1, <2>2
  <2>3. CASE next[m] # v
    BY <2>1, <2>3
  <2> QED
    BY <2>2, <2>3
<1> DEFINE Soonest(n) == \A m \in Active : next[n] < next[m] \/ (next[n] = next[m] /\ n <= m)
<1>6. next_job_to_fire = CHOOSE n \in Active : Soonest(n)
  BY DEF next_job_to_fire
<1>7. k \in Active /\ Soonest(k)
  BY <1>4, <1>5
<1>8. next_job_to_fire \in Active /\ Soonest(next_job_to_fire)
  <2> HIDE DEF Soonest
  <2> QED
    BY <1>6, <1>7
<1>9. \A m \in Active : next[next_job_to_fire] <= next[m]
  <2> HIDE DEF next
  <2> QED
    BY <1>0, <1>8
<1> QED
  BY <1>0, <1>8, <1>9

\* A moment later is the next moment of the cycle, or the first of the next.
LEMMA RoundTheClock ==
  ASSUME TypeInv, NEW e \in Int
  PROVE  (((clock + 1) % Cycle) + e) % Cycle = (clock + (e + 1)) % Cycle
<1> DEFINE c == clock + 1
<1>1. c \in Int /\ clock \in Nat /\ Cycle \in Nat \ {0}
  BY ClockFacts
<1>2. c + e = clock + (e + 1)
  BY <1>1
<1> HIDE DEF c
<1>3. ((c % Cycle) + e) % Cycle = (c + e) % Cycle
  BY <1>1, ModPlus
<1>4. ((c % Cycle) + e) % Cycle = (clock + (e + 1)) % Cycle
  BY <1>2, <1>3, Zenon
<1> QED
  BY <1>4 DEF c

LEMMA DueLater ==
  ASSUME TypeInv, NEW n \in DOMAIN jobs, NEW e \in Nat
  PROVE  Due(jobs[n], ((clock + 1) % Cycle) + e) <=> Due(jobs[n], clock + (e + 1))
<1>1. (((clock + 1) % Cycle) + e) % Cycle = (clock + (e + 1)) % Cycle
  BY RoundTheClock
<1> QED
  BY <1>1, Zenon DEF Due

LEMMA RunsOnLater ==
  ASSUME TypeInv, NEW zone, NEW e \in Nat, NEW d \in Nat
  PROVE  RunsOn(zone, ((clock + 1) % Cycle) + e + d) <=> RunsOn(zone, clock + (e + 1) + d)
<1> DEFINE c == (clock + 1) % Cycle
<1>1. c \in Int /\ clock \in Int /\ e + d \in Int /\ (e + d) - 1 \in Int
  BY ClockFacts DEF Moments
<1>2. (c + (e + d)) % Cycle = (clock + ((e + d) + 1)) % Cycle
      /\ (c + ((e + d) - 1)) % Cycle = (clock + (((e + d) - 1) + 1)) % Cycle
  BY <1>1, RoundTheClock
<1> HIDE DEF c
<1>3. /\ c + (e + d) = c + e + d
      /\ clock + ((e + d) + 1) = clock + (e + 1) + d
      /\ c + ((e + d) - 1) = (c + e + d) - 1
      /\ clock + (((e + d) - 1) + 1) = (clock + (e + 1) + d) - 1
  BY <1>1
<1>4. /\ (c + e + d) % Cycle = (clock + (e + 1) + d) % Cycle
      /\ ((c + e + d) - 1) % Cycle = ((clock + (e + 1) + d) - 1) % Cycle
  BY <1>2, <1>3, Zenon
<1>5. RunsOn(zone, c + e + d) <=> RunsOn(zone, clock + (e + 1) + d)
  BY <1>4, Zenon DEF RunsOn
<1> QED
  BY <1>5 DEF c

LEMMA InitInv == Init => TypeInv /\ QuietInv
  BY ScheduleAssumption DEF Init, TypeInv, SleepInv, QuietInv, NoWait

LEMMA SelectTypes ==
  ASSUME TypeInv, Select PROVE TypeInv' /\ QuietInv' /\ NoIntervalOverslept'
<1> DEFINE n == next_job_to_fire
<1>1. /\ n \in Active
      /\ \A m \in Active : next_after(jobs[n], clock) <= next_after(jobs[m], clock)
  BY ChosenIsSoonest DEF Select
<1>2. PICK d : d = next_after(jobs[n], clock)
  OBVIOUS
<1>3. PICK j \in Jitter(jobs[n]) : wait' = [job |-> n, due |-> d, left |-> d + j]
  BY <1>2 DEF Select
<1>4. UNCHANGED <<jobs, clock, scheduled>> /\ pc = "select" /\ pc' = "sleep" /\ triggered' = {}
  BY DEF Select
<1> HIDE DEF n
<1>5. n \in DOMAIN jobs /\ jobs[n].enabled
  BY <1>1 DEF Active, TypeInv, Parsed
<1>6. Ticking(jobs[n]) /\ jobs[n] \in AllJobs /\ n \in Nat /\ clock \in Nat
      /\ jobs[n].jitter \in Nat /\ Cycle \in Nat
  BY <1>1, <1>4, <1>5, ActiveFacts, JobFacts, ClockFacts
<1>7. d \in 1..Cycle /\ j \in Nat
  BY <1>2, <1>6, NextIsFirst DEF Jitter
<1>8. wait'.job = n /\ wait'.due = d /\ wait'.left = d + j
      /\ wait' \in [job : Nat, due : Int, left : Nat]
  BY <1>3, <1>6, <1>7
<1>9. Active' = Active /\ Parsed' = Parsed
  BY <1>4 DEF Active, Parsed
<1>10. SleepInv'
  BY <1>1, <1>7, <1>8, <1>9 DEF SleepInv
<1>11. TypeInv'
  BY <1>4, <1>8, <1>9, <1>10 DEF TypeInv
<1>12. ASSUME NEW m \in DOMAIN jobs, jobs[m].enabled,
              NEW e \in Nat \ {0}, Due(jobs[m], clock + e)
       PROVE  d <= e
  <2>1. m \in Active /\ Ticking(jobs[m]) /\ jobs[m] \in AllJobs
    <3>1. clock + e \in Int
      BY <1>6
    <3> QED
      BY <1>4, <1>12, <3>1, ActiveFacts, JobFacts
  <2>2. next_after(jobs[m], clock) <= e /\ next_after(jobs[m], clock) \in 1..Cycle
    BY <1>6, <1>12, <2>1, NoneBeforeNext, NextIsFirst
  <2>3. d <= next_after(jobs[m], clock)
    BY <1>1, <1>2, <2>1
  <2> QED
    BY <1>6, <1>7, <2>2, <2>3
<1>13. QuietInv'
  <2> SUFFICES ASSUME NEW m \in DOMAIN jobs, jobs[m].enabled, NEW e \in Nat \ {0}, e < d
               PROVE  ~Due(jobs[m], clock + e)
    BY <1>4, <1>8 DEF QuietInv
  <2>1. ~(d <= e)
    BY <1>6, <1>7
  <2> QED
    BY <1>12, <2>1
<1>14. ASSUME NEW m \in scheduled, jobs[m].enabled, Text(jobs[m]).form = "every",
              NEW e \in 0..d - Length(Text(jobs[m])) - 1
       PROVE  \E f \in 1..Length(Text(jobs[m])) : ~RunsOn(jobs[m].zone, clock + e + f)
  <2>1. m \in DOMAIN jobs /\ Ticks[jobs[m]] # Invalid /\ jobs[m] \in AllJobs
    BY <1>4, <1>14, JobFacts DEF TypeInv, Parsed
  <2>2. PICK L \in Nat : L = Length(Text(jobs[m]))
    BY <1>14, <2>1, IntervalLength
  <2>3. clock + e \in Nat /\ e \in Nat /\ e + L < d
    BY <1>6, <1>7, <1>14, <2>2
  <2>4. ASSUME \A f \in 1..L : RunsOn(jobs[m].zone, (clock + e) + f) PROVE FALSE
    <3>1. PICK f \in 1..L : Due(jobs[m], (clock + e) + f)
      BY <1>14, <2>1, <2>2, <2>3, <2>4, TickInStretch
    <3>2. (clock + e) + f = clock + (e + f) /\ e + f \in Nat \ {0} /\ e + f < d
      BY <1>6, <1>7, <2>2, <2>3
    <3>3. Due(jobs[m], clock + (e + f))
      BY <3>1, <3>2
    <3>4. d <= e + f
      BY <1>12, <1>14, <2>1, <3>2, <3>3
    <3> QED
      BY <1>7, <3>2, <3>4
  <2> QED
    BY <2>2, <2>4
<1>15. NoIntervalOverslept'
  BY <1>4, <1>8, <1>14 DEF NoIntervalOverslept
<1> QED
  BY <1>11, <1>13, <1>15

LEMMA PassTypes ==
  ASSUME TypeInv, QuietInv, NoIntervalOverslept, Pass
  PROVE  TypeInv' /\ QuietInv' /\ NoIntervalOverslept'
<1>1. /\ pc = "sleep" /\ pc' = "sleep" /\ wait.left > 0
      /\ UNCHANGED <<jobs, scheduled, triggered>>
      /\ clock' = (clock + 1) % Cycle
      /\ wait \in [job : Nat, due : Int, left : Nat]
  BY DEF Pass, TypeInv
<1>2. /\ wait'.job = wait.job /\ wait'.due = wait.due - 1 /\ wait'.left = wait.left - 1
      /\ wait' \in [job : Nat, due : Int, left : Nat]
  <2>1. wait' = [wait EXCEPT !.due = @ - 1, !.left = @ - 1]
    BY DEF Pass
  <2>2. wait.due - 1 \in Int /\ wait.left - 1 \in Nat
    BY <1>1
  <2>3. wait' = [job |-> wait.job, due |-> wait.due - 1, left |-> wait.left - 1]
    BY <1>1, <2>1
  <2> QED
    BY <1>1, <2>2, <2>3
<1>3. Active' = Active /\ Parsed' = Parsed
  BY <1>1 DEF Active, Parsed
<1>4. SleepInv'
  BY <1>1, <1>2, <1>3 DEF SleepInv, TypeInv
<1>5. TypeInv'
  BY <1>1, <1>2, <1>3, <1>4, ClockFacts DEF TypeInv
<1>6. QuietInv'
  <2> SUFFICES ASSUME NEW m \in DOMAIN jobs, jobs[m].enabled,
                      NEW e \in Nat \ {0}, e < wait.due - 1
               PROVE  ~Due(jobs[m], clock' + e)
    BY <1>1, <1>2 DEF QuietInv
  <2>1. e + 1 \in Nat \ {0} /\ e + 1 < wait.due
    BY <1>1
  <2>2. ~Due(jobs[m], clock + (e + 1))
    BY <1>1, <2>1 DEF QuietInv
  <2> QED
    BY <1>1, <2>2, DueLater
<1>7. NoIntervalOverslept'
  <2> SUFFICES ASSUME NEW m \in scheduled, jobs[m].enabled, Text(jobs[m]).form = "every",
                      NEW e \in 0..(wait.due - 1) - Length(Text(jobs[m])) - 1
               PROVE  \E f \in 1..Length(Text(jobs[m])) : ~RunsOn(jobs[m].zone, clock' + e + f)
    BY <1>1, <1>2 DEF NoIntervalOverslept
  <2>1. m \in DOMAIN jobs /\ Ticks[jobs[m]] # Invalid /\ jobs[m] \in AllJobs
    BY <1>1, JobFacts DEF TypeInv, Parsed
  <2>2. PICK L \in Nat : L = Length(Text(jobs[m]))
    BY <2>1, IntervalLength
  <2>3. e + 1 \in 0..wait.due - L - 1 /\ wait.due \in Int /\ e \in Nat
    BY <1>1, <2>2
  <2>4. PICK f \in 1..L : ~RunsOn(jobs[m].zone, clock + (e + 1) + f)
    BY <1>1, <2>2, <2>3 DEF NoIntervalOverslept
  <2>5. ~RunsOn(jobs[m].zone, ((clock + 1) % Cycle) + e + f)
    BY <2>3, <2>4, RunsOnLater
  <2> QED
    BY <1>1, <2>2, <2>4, <2>5
<1> QED
  BY <1>5, <1>6, <1>7

\* The other steps do not end in a sleep.
LEMMA AwakeTypes ==
  ASSUME TypeInv, Start \/ Park \/ Fire \/ Cancel
  PROVE  TypeInv' /\ QuietInv' /\ NoIntervalOverslept'
<1>1. pc' \in {"select", "parked", "down"} /\ UNCHANGED <<jobs, clock>>
  BY DEF Start, Park, Fire, Cancel
<1>2. scheduled' = Parsed'
  <2>1. Parsed' = Parsed
    BY <1>1 DEF Parsed
  <2> QED
    BY <2>1 DEF Start, Park, Fire, Cancel, TypeInv, Parsed
<1>3. wait' \in [job : Nat, due : Int, left : Nat]
  BY DEF Start, Park, Fire, Cancel, TypeInv, NoWait
<1>4. triggered' \subseteq {n \in DOMAIN jobs : jobs[n].enabled}
  <2>1. CASE Fire
    <3>1. wait.job \in Active /\ triggered' = {wait.job}
      BY <2>1 DEF Fire, TypeInv, SleepInv
    <3> QED
      BY <2>1, <3>1 DEF Active, TypeInv, Parsed, Fire
  <2>2. CASE Start \/ Park \/ Cancel
    BY <2>2 DEF Start, Park, Cancel, TypeInv
  <2> QED
    BY <2>1, <2>2
<1>5. TypeInv'
  BY <1>1, <1>2, <1>3, <1>4 DEF TypeInv, SleepInv
<1> QED
  BY <1>1, <1>5 DEF QuietInv, NoIntervalOverslept

LoopInv == TypeInv /\ QuietInv /\ NoIntervalOverslept

LEMMA StepInv == LoopInv /\ [Next]_vars => LoopInv'
<1> SUFFICES ASSUME LoopInv, [Next]_vars PROVE LoopInv'
  OBVIOUS
<1>1. CASE UNCHANGED vars
  BY <1>1 DEF vars, LoopInv, TypeInv, SleepInv, QuietInv, NoIntervalOverslept, Active, Parsed
<1>2. CASE Select
  BY <1>2, SelectTypes DEF LoopInv
<1>3. CASE Pass
  BY <1>3, PassTypes DEF LoopInv
<1>4. CASE Start \/ Park \/ Fire \/ Cancel
  BY <1>4, AwakeTypes DEF LoopInv
<1> QED
  BY <1>1, <1>2, <1>3, <1>4 DEF Next, Loop

LEMMA AlwaysInv == Spec => []LoopInv
<1>1. Init => LoopInv
  BY InitInv DEF LoopInv, NoIntervalOverslept, Init
<1> QED
  BY <1>1, StepInv, PTL DEF Spec

\* Every trigger is for an enabled job, and the loop sleeps for a job that was
\* registered and never wakes before its tick.
THEOREM LoopTypes == Spec => []TypeOK
<1>1. LoopInv => TypeOK
  <2> SUFFICES ASSUME LoopInv PROVE TypeOK
    OBVIOUS
  <2>1. scheduled \subseteq DOMAIN jobs
    BY DEF LoopInv, TypeInv, Parsed
  <2> QED
    BY <2>1 DEF LoopInv, TypeInv, SleepInv, TypeOK, Active
<1> QED
  BY <1>1, AlwaysInv, PTL

\* However long hours, days and months are, whichever intervals are mixed and
\* however the clocks of the time zones are turned: a cron expression that
\* starts over with each hour, day or month makes an enabled job wait longer
\* than its interval only where the clock of its zone is turned meanwhile.
THEOREM IntervalsAreKept == Spec => []NoIntervalOverslept
<1>1. LoopInv => NoIntervalOverslept
  BY DEF LoopInv
<1> QED
  BY <1>1, AlwaysInv, PTL

\* The loop sleeps through a tick of an enabled job only once the tick it
\* waits for has come: jitter, and nothing else, makes it miss one.
THEOREM TicksAreNotSleptThrough == Spec => MissedOnlyBehindAnother
<1> DEFINE Missed ==
      \A n \in DOMAIN jobs :
        clock' # clock /\ jobs[n].enabled /\ Due(jobs[n], clock') => wait'.due <= 0
<1>1. LoopInv /\ [Next]_vars => [Missed]_vars
  <2> SUFFICES ASSUME LoopInv, [Next]_vars, clock' # clock, NEW n \in DOMAIN jobs,
                      jobs[n].enabled, Due(jobs[n], clock')
               PROVE  wait'.due <= 0
    OBVIOUS
  <2>1. Pass
    BY DEF Next, Loop, Start, Select, Park, Fire, Cancel, vars
  <2>2. /\ pc = "sleep" /\ clock' = (clock + 1) % Cycle /\ wait.due \in Int
        /\ wait'.due = wait.due - 1
    BY <2>1 DEF Pass, LoopInv, TypeInv
  <2>3. Due(jobs[n], clock + 1)
    <3>1. Due(jobs[n], ((clock + 1) % Cycle) + 0)
      BY <2>2, ClockFacts DEF LoopInv, Moments
    <3>2. Due(jobs[n], clock + (0 + 1))
      BY <3>1, DueLater DEF LoopInv
    <3> QED
      BY <3>2
  <2>4. ~(1 < wait.due)
    BY <2>2, <2>3 DEF LoopInv, QuietInv
  <2> QED
    BY <2>2, <2>4
<1>2. Spec => [][Missed]_vars
  BY <1>1, AlwaysInv, PTL DEF Spec
<1> QED
  BY <1>2 DEF MissedOnlyBehindAnother
=============================================================================
