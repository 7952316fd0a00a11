-------------------------------- MODULE CronTimes --------------------------------
(***************************************************************************)
(* Five-field cron (src/src/syros/cron.py): what the fields of an          *)
(* expression admit and when it fires next in a timezone that may jump.    *)
(* Operators only, over a calendar of any shape: the code's has 60         *)
(* minutes, 24 hours, 31 days, 12 months and 7 weekdays.                   *)
(*                                                                         *)
(* A field is a set of parts, as a comma list is.  Wall-clock times and    *)
(* instants are numbered in minutes from the first day of the calendar.    *)
(***************************************************************************)
EXTENDS Integers, FiniteSets

CONSTANTS MinutesPerHour, HoursPerDay, MonthDays, Months, WeekDays,
          DateOf,     \* the month and the day of the month of each day
          Lookahead   \* MAX_LOOKAHEAD_DAYS

NoTime == -1     \* CronError
Days == DOMAIN DateOf

ASSUME CalendarAssumption ==
  /\ {MinutesPerHour, HoursPerDay, MonthDays, Months, WeekDays, Lookahead} \subseteq Nat \ {0}
  /\ Days \subseteq Nat /\ \A d \in Days : DateOf[d].day \in 1..MonthDays

MinutesPerDay == MinutesPerHour * HoursPerDay

(* _field.  A part is [kind, from, to, step] with kind "star", "range" or  *)
(* "value"; a value with a step reaches to the top.                        *)
Bounds(part, low, high) ==
  IF part.kind = "star" THEN <<low, high>>
  ELSE IF part.kind = "range" THEN <<part.from, part.to>>
  ELSE <<part.from, IF part.step > 1 THEN high ELSE part.from>>

Valid(field, low, high) ==
  /\ field # {}
  /\ \A part \in field :
       LET b == Bounds(part, low, high) IN
       part.step >= 1 /\ low <= b[1] /\ b[1] <= b[2] /\ b[2] <= high

Field(field, low, high) ==
  UNION {LET b == Bounds(part, low, high) IN
         {v \in b[1]..b[2] : (v - b[1]) % part.step = 0} : part \in field}

(* A lone star restricts nothing; a star with a step does.                 *)
Restricted(field) == ~\E part \in field : field = {part} /\ part.kind = "star" /\ part.step = 1

(* parse: Sunday may be written as the day after the last.                 *)
Parses(expr) ==
  /\ Valid(expr.minute, 0, MinutesPerHour - 1) /\ Valid(expr.hour, 0, HoursPerDay - 1)
  /\ Valid(expr.day, 1, MonthDays) /\ Valid(expr.month, 1, Months)
  /\ Valid(expr.weekday, 0, WeekDays)

WeekdaysOf(expr) == {d % WeekDays : d \in Field(expr.weekday, 0, WeekDays)}

(* Cron.matches_day: if both day fields are restricted either one will do. *)
MatchesDay(expr, d) ==
  LET byMonth == DateOf[d].day \in Field(expr.day, 1, MonthDays)
      byWeek == d % WeekDays \in WeekdaysOf(expr)
  IN  /\ DateOf[d].month \in Field(expr.month, 1, Months)
      /\ IF Restricted(expr.day) /\ Restricted(expr.weekday) THEN byMonth \/ byWeek
         ELSE byMonth /\ byWeek

(* What parse reads the numbers of a part into; an expression restricts    *)
(* hours and minutes by them.                                              *)
Numbered(expr) ==
  \A part \in expr.minute \cup expr.hour : {part.from, part.to, part.step} \subseteq Nat

-----------------------------------------------------------------------------
(* A zone jumps once, at a wall-clock time, forward or back.  A time that  *)
(* is jumped over is read with the offset before the jump, one that comes  *)
(* twice as the first.                                                     *)
Instant(zone, wall) ==
  IF wall < zone.at + (IF zone.jump > 0 THEN zone.jump ELSE 0) THEN wall ELSE wall - zone.jump

WallAt(zone, instant) == IF instant < zone.at THEN instant ELSE instant + zone.jump

(* next_after: day by day from the local day of `after`, in each by hour   *)
(* and minute, the first whose instant is later.                           *)
(* Mutant: the wall clocks are compared.                                   *)
LaterOnTheWall(zone, wall, after) == wall > WallAt(zone, after)
Later(zone, wall, after) == Instant(zone, wall) > after

(* The minutes of a day an expression admits, by wall clock.               *)
Walls(expr, d) ==
  {d * MinutesPerDay + h * MinutesPerHour + m :
     h \in Field(expr.hour, 0, HoursPerDay - 1), m \in Field(expr.minute, 0, MinutesPerHour - 1)}

NextAfter(expr, zone, after) ==
  LET today == WallAt(zone, after) \div MinutesPerDay
      on(d) == IF MatchesDay(expr, d) THEN {w \in Walls(expr, d) : Later(zone, w, after)} ELSE {}
      found == {d \in Days : d \in today..(today + Lookahead - 1) /\ on(d) # {}}
      first == CHOOSE d \in found : \A e \in found : d <= e
  IN  IF found = {} THEN NoTime
      ELSE Instant(zone, CHOOSE w \in on(first) : \A v \in on(first) : w <= v)
=============================================================================
