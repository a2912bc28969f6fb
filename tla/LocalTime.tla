----------------------------- MODULE LocalTime -----------------------------
(***************************************************************************)
(* Wall-clock times of the schedule's form and its calendar, and the UTC   *)
(* instants they are stored as (timeutil.py, blueprints/schedule.py), in a *)
(* zone whose clocks go forward and back.                                  *)
(*                                                                         *)
(* Data.  A naive time and a UTC instant are numbers of seconds, a zone is *)
(* its offset before and the changes, [at, before, after], in order.  The  *)
(* standard library's zoneinfo is external: Offset and Utc say what it     *)
(* answers.  An assignment is its period; the rest of the form is left to  *)
(* the module of the schedule.                                             *)
(***************************************************************************)
EXTENDS Integers, Sequences

CONSTANTS
  Zones,       (* [base, changes]                                             *)
  Minute,      (* seconds: what the form can say                              *)
  DayLength,   (* seconds of a day without a change                           *)
  Days,        (* the days of the calendar, 0 .. Days - 1                     *)
  Instants,    (* the instants at which anything happens                      *)
  NoTime,      (* no end                                                      *)
  MaxResaves   (* bound: form saves and ends after the first                  *)

VARIABLES
  zone,     (* the settings' time zone                                        *)
  period,   (* the assignment: [start, end]                                   *)
  typed,    (* what the last form said, naive, and what came of it:           *)
            (* [start, end, accepted, noted]                                  *)
  resaves   (* what remains of the bound                                      *)

localTimeVars == <<zone, period, typed, resaves>>

-----------------------------------------------------------------------------
(* zoneinfo.                                                               *)

Greater(a, b) == IF a > b THEN a ELSE b

Lesser(a, b) == IF a < b THEN a ELSE b

(* What the clock shows when a change comes: one reading before, one after.*)
LaterReading(c) == c.at + Greater(c.before, c.after)

EarlierReading(c) == c.at + Lesser(c.before, c.after)

(* The changes come in order, each from the offset the last one left, and  *)
(* are farther apart than they jump.                                       *)
IsZone(z) ==
  /\ z.base \in Int
  /\ z.changes \in Seq([at : Int, before : Int, after : Int])
  /\ \A i \in DOMAIN z.changes :
       z.changes[i].before = IF i = 1 THEN z.base ELSE z.changes[i - 1].after
  /\ \A i, j \in DOMAIN z.changes : i < j =>
       /\ z.changes[i].at < z.changes[j].at
       /\ LaterReading(z.changes[i]) < EarlierReading(z.changes[j])

(* No change jumps over a midnight (it may begin or end at one) or a day.  *)
KeepsMidnights(z) ==
  \A i \in DOMAIN z.changes :
    /\ \A day \in 0 .. Days :
         \/ day * DayLength <= EarlierReading(z.changes[i])
         \/ LaterReading(z.changes[i]) <= day * DayLength
    /\ LaterReading(z.changes[i]) - EarlierReading(z.changes[i]) < DayLength

ASSUME LocalTimeAssumption ==
  /\ {Minute, DayLength} \subseteq Nat \ {0}
  /\ {Days, MaxResaves} \subseteq Nat
  /\ Instants \subseteq Int
  /\ NoTime \notin Int
  /\ \A z \in Zones : IsZone(z)

(* So do Europe/Lisbon, which the panel is written for, and the Azores,    *)
(* whose clocks change between 0:00 and 2:00.                              *)
ASSUME MidnightsAssumption == \A z \in Zones : KeepsMidnights(z)

After(changes) ==
  IF changes = {} THEN zone.base
  ELSE zone.changes[CHOOSE i \in changes : \A j \in changes : j <= i].after

Offset(t) == After({i \in DOMAIN zone.changes : zone.changes[i].at <= t})

ToLocal(t) == t + Offset(t)

(* The offset of a naive time: the change counts from the later of its two *)
(* wall-clock times with fold 0, from the earlier with fold 1.             *)
NaiveOffset(n, fold) ==
  LET counts(c) == IF fold = 0 THEN LaterReading(c) ELSE EarlierReading(c)
  IN After({i \in DOMAIN zone.changes : counts(zone.changes[i]) <= n})

Utc(n, fold) == n - NaiveOffset(n, fold)

-----------------------------------------------------------------------------
(* timeutil.                                                               *)

(* Mutant: the second of the two instants is used.                         *)
ToUtcLate(n) ==
  [exists |-> ToLocal(Utc(n, 1)) = n, at |-> Utc(n, 1),
   ambiguous |-> NaiveOffset(n, 0) # NaiveOffset(n, 1)]

(* local_to_utc.                                                           *)
ToUtc(n) ==
  [exists |-> ToLocal(Utc(n, 0)) = n, at |-> Utc(n, 0),
   ambiguous |-> NaiveOffset(n, 0) # NaiveOffset(n, 1)]

(* What the form shows of an instant: minutes.                             *)
Shown(t) == ToLocal(t) - (ToLocal(t) % Minute)

-----------------------------------------------------------------------------
(* The form.                                                               *)

(* Mutant: the end may come before the start.                              *)
AcceptableInAnyOrder(start, end) ==
  ToUtc(start).exists /\ (end # NoTime => ToUtc(end).exists)

(* _apply_form: both times exist, and the end comes after the start.       *)
Acceptable(start, end) ==
  /\ ToUtc(start).exists
  /\ end # NoTime => (ToUtc(end).exists /\ ToUtc(end).at > ToUtc(start).at)

(* A form is refused whole, or stored with a note of each ambiguous time.  *)
Save(start, end) ==
  /\ typed' = [start |-> start, end |-> end, accepted |-> Acceptable(start, end),
               noted |-> {n \in {start, end} \ {NoTime} : ToUtc(n).ambiguous}]
  /\ period' =
       IF Acceptable(start, end)
         THEN [start |-> ToUtc(start).at, end |-> IF end = NoTime THEN NoTime ELSE ToUtc(end).at]
         ELSE period

(* The wall-clock times of the calendar's days, those in a gap included.   *)
Typeable == {n \in 0 .. Days * DayLength - 1 : n % Minute = 0}

LocalTimeInit ==
  /\ zone \in Zones
  /\ period = NoTime
  /\ typed = NoTime
  /\ resaves = MaxResaves

(* The form of a new assignment, filled in once.                           *)
Create(start, end) ==
  /\ period = NoTime
  /\ typed = NoTime
  /\ Save(start, end)
  /\ UNCHANGED <<zone, resaves>>

(* The form is opened and saved with the times it shows (a note or the     *)
(* video was changed, say): a time loses its seconds, and one in the       *)
(* second pass of the repeated hour moves to the first.                    *)
Resave ==
  /\ period # NoTime
  /\ resaves > 0
  /\ resaves' = resaves - 1
  /\ Save(Shown(period.start), IF period.end = NoTime THEN NoTime ELSE Shown(period.end))
  /\ UNCHANGED zone

(* "Terminar": an assignment that has not begun is left a second long.     *)
EndNow(now) ==
  /\ period # NoTime
  /\ resaves > 0
  /\ resaves' = resaves - 1
  /\ period.end # NoTime => period.end > now
  /\ period' = [start |-> IF period.start >= now THEN now - 1 ELSE period.start, end |-> now]
  /\ typed' = NoTime
  /\ UNCHANGED zone

LocalTimeNext ==
  \/ \E start \in Typeable, end \in Typeable \cup {NoTime} : Create(start, end)
  \/ Resave
  \/ \E now \in {t \in Instants : ToLocal(t) \in 0 .. Days * DayLength - 1} : EndNow(now)

-----------------------------------------------------------------------------
(* The calendar.                                                           *)

Midnight(day) == Utc(day * DayLength, 0)

(* On air at some time between two instants.                               *)
OnAir(from, to) == period.start < to /\ (period.end = NoTime \/ period.end > from)

(* Mutant: a day is always as long as one without a change.                *)
ListedBySeconds(day) ==
  /\ OnAir(Midnight(0), Midnight(Days))
  /\ OnAir(Midnight(day), Midnight(day) + DayLength)

(* What the page selects for all its days, then what each day lists.       *)
Listed(day) ==
  /\ OnAir(Midnight(0), Midnight(Days))
  /\ OnAir(Midnight(day), Midnight(day + 1))

-----------------------------------------------------------------------------
(* Properties                                                              *)

LocalTimeTypeOK ==
  /\ zone \in Zones
  /\ period # NoTime /\ period.end # NoTime => period.end > period.start

ShownAt(n) == {t \in Instants : ToLocal(t) = n}

FirstShown(n, t) == t \in ShownAt(n) /\ \A u \in ShownAt(n) : t <= u

(* A stored time is the first instant at which the clock shows what was    *)
(* typed; it is noted exactly when the clock shows it twice; and a form is *)
(* refused only when the clock never shows a time of it, or the end would  *)
(* not come after the start.                                               *)
PeriodAsTyped ==
  typed # NoTime =>
    IF typed.accepted
      THEN /\ FirstShown(typed.start, period.start)
           /\ typed.end # NoTime => FirstShown(typed.end, period.end)
           /\ \A n \in {typed.start, typed.end} \ {NoTime} :
                n \in typed.noted <=> \E t, u \in ShownAt(n) : t # u
      ELSE \/ \E n \in {typed.start, typed.end} \ {NoTime} : ShownAt(n) = {}
           \/ \E t \in ShownAt(typed.start), u \in ShownAt(typed.end) : u <= t

(* The calendar lists an assignment on a day exactly when it is on air at  *)
(* some instant of that local day, 23, 24 or 25 hours long.                *)
CalendarShowsOnAir ==
  period # NoTime => \A day \in 0 .. Days - 1 :
    Listed(day) <=> \E t \in Instants :
      /\ ToLocal(t) \div DayLength = day
      /\ period.start <= t
      /\ period.end # NoTime => t < period.end
=============================================================================
