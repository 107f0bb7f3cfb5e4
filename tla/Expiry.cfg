\* Seconds of nine ticks, days of two seconds, the year 10000 after three days.
SPECIFICATION Spec
CONSTANTS
    Base = 3
    Digits = 2
    Day = 2
    Midnight = 1
    FarSec = 6
    TTL = 13
    NoRow = NoRow
    Never = Never
INVARIANTS
    TypeOK
    WithinTheSecond
    DatesNeverEndEarly
    PageIsExact
