------------------------------- MODULE Expiry -------------------------------
(***************************************************************************)
(* When access ends.  Times are kept as text (formatTime, parseTime in     *)
(* src/internal/store/store.go) and SQL compares the texts: HasAccess      *)
(* (store/entitlements.go) and UserBySession (store/sessions.go).  The     *)
(* pages read the text back and compare times (scanEntitlement).  What the *)
(* admin enters goes through parseExpiry (api/api.go).                     *)
(***************************************************************************)
EXTENDS Integers, Sequences, FiniteSetsExt

CONSTANTS Base,    \* digits are 0 .. Base - 1 (10 in the code)
          Digits,  \* how many there are of a second's fraction (9)
          Day,     \* how many seconds a day has (86400)
          Midnight,\* the second of a UTC day at which the server's day begins
          FarSec,  \* the second, in UTC, at which the year 10000 begins
          TTL,     \* cfg.SessionTTL, in ticks
          NoRow,   \* there is no row
          Never    \* NULL: it never ends

ASSUME DigitsAssumption == Base \in Nat \ {0, 1} /\ Digits \in Nat \ {0}
ASSUME CalendarAssumption == Day \in Nat \ {0} /\ Midnight \in Int /\ FarSec \in Nat \ {0}
ASSUME TTLAssumption == TTL \in Nat \ {0}

Pow[n \in 0 .. Digits] == IF n = 0 THEN 1 ELSE Base * Pow[n - 1]
Tick == Pow[Digits]         \* how many ticks a second has
Second(t) == t \div Tick
Fraction(t) == t % Tick

VARIABLES clock,   \* what time.Now returns
          expires, \* the column expires_at of an entitlement
          until,   \* history: when the admin has said it ends
          session, \* the column expires_at of a session
          lasts    \* history: when its login has said it ends

vars == <<clock, expires, until, session, lasts>>

(* BOUND: the clock stops before the year 10000; what lies after it is not *)
(* told apart beyond a day.                                                *)
Clock == 0 .. FarSec * Tick - 1
Time == 0 .. (FarSec + Day) * Tick

-----------------------------------------------------------------------------
(* Text.  The date and time of day have a fixed width, so that they        *)
(* compare as seconds do, up to the year 9999; "10000-..." sorts before    *)
(* "20..".  The rest is a point and the fraction, if there is one, and Z.  *)

Dot == 0
Digit(d) == 1 + d
Zed == 1 + Base
Char == Dot .. Zed

DigitAt(f, i) == (f \div Pow[Digits - i]) % Base

(* Slips: the digits after the first zero are dropped; all are kept. *)
Kept_ToFirstZero(f) ==
    Max({i \in 0 .. Digits : \A j \in 1 .. i : DigitAt(f, j) # 0})
Kept_All(f) == Digits

(* time.RFC3339Nano drops the zeros at the end. *)
Kept(f) == Max({0} \cup {i \in 1 .. Digits : DigitAt(f, i) # 0})
Text(f) == IF f = 0 THEN <<Zed>>
           ELSE <<Dot>> \o [i \in 1 .. Kept(f) |-> Digit(DigitAt(f, i))] \o <<Zed>>

FormatTime(t) == [far |-> Second(t) >= FarSec, sec |-> Second(t), tail |-> Text(Fraction(t))]

Sorts(s, t) ==
    \E i \in 1 .. Len(s) :
        /\ \A j \in 1 .. i - 1 : j <= Len(t) /\ s[j] = t[j]
        /\ i > Len(t) \/ s[i] > t[i]

(* SQL's a > b *)
After(a, b) ==
    IF a.far # b.far THEN b.far
    ELSE a.sec > b.sec \/ (a.sec = b.sec /\ Sorts(a.tail, b.tail))

(* time.Parse takes four digits for the year; parseTime makes the zero     *)
(* time, which is long past, of what it cannot read.                       *)
Zero == -1
Value(tail) ==
    LET n == Len(tail) - 2
        v[i \in 0 .. Digits] ==
            IF i = 0 THEN 0 ELSE v[i - 1] * Base + IF i <= n THEN tail[i + 1] - 1 ELSE 0
    IN v[Digits]
ParseTime(text) == IF text.far THEN Zero ELSE text.sec * Tick + Value(text.tail)

-----------------------------------------------------------------------------
Row == [far : BOOLEAN, sec : Nat, tail : Seq(Char)]
IsText(x) ==
    /\ x \in Row
    /\ \/ x.tail = <<Zed>>
       \/ LET n == Len(x.tail) IN
            /\ n \in 3 .. Digits + 2
            /\ x.tail[1] = Dot /\ x.tail[n - 1] # Digit(0) /\ x.tail[n] = Zed

(* What was said: until the end of a date, or until a time. *)
Said == [by : {"date", "time"}, at : Int]

ASSUME MarksAssumption == NoRow # Never /\ {NoRow, Never} \cap (Row \cup Said) = {}

TypeOK ==
    /\ clock \in Clock
    /\ expires \in {NoRow, Never} \/ IsText(expires)
    /\ until \in Said \cup {NoRow, Never}
    /\ session = NoRow \/ IsText(session)
    /\ lasts \in Said \cup {NoRow}
    /\ until \in {NoRow, Never} <=> expires \in {NoRow, Never}

Init ==
    /\ clock \in Clock
    /\ expires = NoRow /\ until = NoRow
    /\ session = NoRow /\ lasts = NoRow

Grant(row, said) ==
    /\ expires' = row
    /\ until' = said
    /\ UNCHANGED <<clock, session, lasts>>

(* Slip: without the AddDate, the day does not count. *)
EndOfDay_Start(d) == (d * Day + Midnight) * Tick

(* parseExpiry of "YYYY-MM-DD": the midnight, in the server's zone, that   *)
(* ends the day.                                                           *)
EndOfDay(d) == ((d + 1) * Day + Midnight) * Tick

GrantByDate ==
    \E d \in 0 .. FarSec \div Day :
        /\ EndOfDay(d) \in Time
        /\ Grant(FormatTime(EndOfDay(d)), [by |-> "date", at |-> d])

(* A full RFC 3339 timestamp, with or without a fraction. *)
GrantByTime == \E t \in Time : Grant(FormatTime(t), [by |-> "time", at |-> t])

GrantForEver == Grant(Never, Never)

Revoke == Grant(NoRow, NoRow)

Login ==
    /\ session' = FormatTime(clock + TTL)
    /\ lasts' = [by |-> "time", at |-> clock + TTL]
    /\ UNCHANGED <<clock, expires, until>>

Advance ==
    /\ clock + 1 \in Clock
    /\ clock' = clock + 1
    /\ UNCHANGED <<expires, until, session, lasts>>

Next == GrantByDate \/ GrantByTime \/ GrantForEver \/ Revoke \/ Login \/ Advance

Spec == Init /\ [][Next]_vars

-----------------------------------------------------------------------------
(* What is answered at the moment.                                         *)

(* Slip: the row of access for ever compares as NULL, which is not true. *)
HasAccess_NoNull == expires \notin {NoRow, Never} /\ After(expires, FormatTime(clock))

HasAccess ==
    \/ expires = Never
    \/ expires \notin {NoRow, Never} /\ After(expires, FormatTime(clock))

Active ==
    \/ expires = Never
    \/ expires \notin {NoRow, Never} /\ ParseTime(expires) > clock

LoggedIn == session # NoRow /\ After(session, FormatTime(clock))

-----------------------------------------------------------------------------
(* Properties.                                                             *)

LocalDay(t) == (Second(t) - Midnight) \div Day

(* Whether at t what was said grants access. *)
Lasts(said, t) ==
    CASE said = NoRow -> FALSE
      [] said = Never -> TRUE
      [] OTHER -> IF said.by = "date" THEN LocalDay(t) <= said.at ELSE t < said.at

(* It ends before the year 10000, which its text can hold. *)
Holdable(said) == said \notin {NoRow, Never} => ~ Lasts(said, FarSec * Tick - 1)

(* It ends during the current second, or as it begins. *)
EndsNow(said) ==
    LET first == Second(clock) * Tick
    IN Lasts(said, first - 1) /\ ~ Lasts(said, first + Tick - 1)

(* "HasAccess reports whether the user holds an unexpired entitlement"     *)
(* (entitlements.go:54), and UserBySession whether the session is expired: *)
(* the order of texts differs from that of times (store.go:103), but only  *)
(* during the second in which the entitlement or the session ends.         *)
WithinTheSecond ==
    /\ Holdable(until) => (HasAccess <=> Lasts(until, clock)) \/ EndsNow(until)
    /\ Holdable(lasts) => (LoggedIn <=> Lasts(lasts, clock)) \/ EndsNow(lasts)

(* "YYYY-MM-DD (end of that day in server local time)" (api.go:151): who   *)
(* has access until a date has it throughout that day of the server's      *)
(* zone, to its last instant.                                              *)
DatesNeverEndEarly ==
    until \in Said /\ until.by = "date" /\ Holdable(until) /\ Lasts(until, clock)
    => HasAccess

(* What the pages show (entitlements.go:38) is exact, whatever fraction    *)
(* the expiry has: the text gives back the time it was made of.            *)
PageIsExact == Holdable(until) => (Active <=> Lasts(until, clock))
=============================================================================
