------------------------------ MODULE Calendar ------------------------------
(* The days the tariffs are told in: weekdays, the holidays every utility     *)
(* observes and on which day (utility/holidays.go and the holiday function of *)
(* each utility), and the tables that stand in for a computation: the Good    *)
(* Fridays and the Sundays on which Duke Indiana's winter turns. A walk over  *)
(* the days of some years compares them with what they stand for.             *)
EXTENDS Integers, FiniteSets, FiniteSetsExt, TLC

CONSTANTS FirstYear, LastYear       \* bounds: the years walked over

(* What the constants are, assumed by what instantiates this module.          *)
Assumptions == FirstYear \in 2025..2035 /\ LastYear \in FirstYear..2035

VARIABLES year, month, day, dow     \* dow: 1 is Monday
date == <<year, month, day, dow>>

Leap(y) == y % 4 = 0 /\ (y % 100 # 0 \/ y % 400 = 0)
Days(y, m) == CASE m = 2 -> (IF Leap(y) THEN 29 ELSE 28)
                [] m \in {4, 6, 9, 11} -> 30
                [] OTHER -> 31

(* time.Weekday of a date, counted from Wednesday the 1st of January 2025.    *)
DaysBefore(y, m) ==
    MapThenSumSet(LAMBDA v : IF Leap(v) THEN 366 ELSE 365, 2025..(y - 1))
    + MapThenSumSet(LAMBDA v : Days(y, v), 1..(m - 1))
Dow(y, m, d) == ((DaysBefore(y, m) + d + 1) % 7) + 1

(* The day of the n-th weekday w of a month, the last one, AddDate by a day.  *)
Nth(y, m, w, n) == CHOOSE d \in (7 * n - 6)..(7 * n) : Dow(y, m, d) = w
Last(y, m, w) == CHOOSE d \in (Days(y, m) - 6)..Days(y, m) : Dow(y, m, d) = w
Tomorrow(y, m, d) ==
    IF d < Days(y, m) THEN <<y, m, d + 1>> ELSE IF m < 12 THEN <<y, m + 1, 1>> ELSE <<y + 1, 1, 1>>
Yesterday(y, m, d) ==
    IF d > 1 THEN <<y, m, d - 1>> ELSE IF m > 1 THEN <<y, m - 1, Days(y, m - 1)>> ELSE <<y - 1, 12, 31>>

SlipGoodFridays == [y \in 2025..2035 |-> <<4, 18>>]
GoodFridays ==
    (2025 :> <<4, 18>>) @@ (2026 :> <<4, 3>>) @@ (2027 :> <<3, 26>>) @@ (2028 :> <<4, 14>>)
    @@ (2029 :> <<3, 30>>) @@ (2030 :> <<4, 19>>) @@ (2031 :> <<4, 11>>) @@ (2032 :> <<3, 26>>)
    @@ (2033 :> <<4, 15>>) @@ (2034 :> <<4, 7>>) @@ (2035 :> <<3, 23>>)

(* A holiday of a year; NextNewYear is the coming year's, AfterThanksgiving   *)
(* the Friday.                                                                *)
Holiday(h, y) ==
    CASE h = "NewYear" -> <<y, 1, 1>>
      [] h = "NextNewYear" -> <<y + 1, 1, 1>>
      [] h = "MartinLutherKing" -> <<y, 1, Nth(y, 1, 1, 3)>>
      [] h = "Presidents" -> <<y, 2, Nth(y, 2, 1, 3)>>
      [] h = "CesarChavez" -> <<y, 3, 31>>
      [] h = "GoodFriday" -> <<y, GoodFridays[y][1], GoodFridays[y][2]>>
      [] h = "Memorial" -> <<y, 5, Last(y, 5, 1)>>
      [] h = "Juneteenth" -> <<y, 6, 19>>
      [] h = "Independence" -> <<y, 7, 4>>
      [] h = "Pioneer" -> <<y, 7, 24>>
      [] h = "Labor" -> <<y, 9, Nth(y, 9, 1, 1)>>
      [] h = "Columbus" -> <<y, 10, Nth(y, 10, 1, 2)>>
      [] h = "Veterans" -> <<y, 11, 11>>
      [] h = "Thanksgiving" -> <<y, 11, Nth(y, 11, 4, 4)>>
      [] h = "AfterThanksgiving" -> <<y, 11, Nth(y, 11, 4, 4) + 1>>
      [] h = "ChristmasEve" -> <<y, 12, 24>>
      [] h = "Christmas" -> <<y, 12, 25>>
      [] h = "NewYearsEve" -> <<y, 12, 31>>

(* A holiday on a Sunday is observed on Monday; on a Saturday, by most, on    *)
(* Friday.                                                                    *)
SundayShift(t) == IF Dow(t[1], t[2], t[3]) = 7 THEN Tomorrow(t[1], t[2], t[3]) ELSE t
WeekendShift(t) == IF Dow(t[1], t[2], t[3]) = 6 THEN Yesterday(t[1], t[2], t[3]) ELSE SundayShift(t)

(* formatHolidays keeps those observed in the year asked for.                 *)
Observed(names, y) ==
    {t \in {WeekendShift(Holiday(h, y)) : h \in names.weekend}
           \union {SundayShift(Holiday(h, y)) : h \in names.sunday}
           \union {Holiday(h, y) : h \in names.plain} : t[1] = y}

-----------------------------------------------------------------------------
(* What each utility shifts, and what it takes as it falls.                   *)
Names(weekend, sunday, plain) == [weekend |-> weekend, sunday |-> sunday, plain |-> plain]

SlipYearly == {"NewYear", "Independence", "Christmas"}
Yearly == {"NewYear", "Independence", "Christmas", "NextNewYear"}
Summery == {"Memorial", "Labor", "Thanksgiving"}
Plain6 == Names(Yearly, {}, Summery)
IndianaNames == Plain6
DLCNames == Plain6
FPLNames == Plain6
JEANames == Plain6
PortlandNames == Plain6
SECONames == Plain6
WENames == Plain6
SRPNames == Plain6
PECONames == Plain6

DukeNames == Names(Yearly, {}, Summery \union {"GoodFriday", "AfterThanksgiving"})
XcelNames == Names(Yearly, {}, Summery \union {"GoodFriday"})
XcelWINames == Names(Yearly \union {"ChristmasEve", "NewYearsEve"}, {}, Summery \union {"GoodFriday", "AfterThanksgiving"})
XcelCONames == Names(Yearly \union {"Juneteenth", "Veterans"}, {},
                     Summery \union {"MartinLutherKing", "Presidents", "Columbus"})
DominionNames == Names(Yearly \union Summery, {}, {})
DominionNCNames == Names(Yearly \union {"ChristmasEve"}, {}, Summery \union {"GoodFriday", "AfterThanksgiving"})
APSNames == Names(Yearly \union {"CesarChavez", "Juneteenth", "Veterans"}, {},
                  Summery \union {"MartinLutherKing", "Presidents", "Columbus", "ChristmasEve", "NewYearsEve"})
PepcoNames == XcelCONames
EPBNames == XcelCONames
PSEGLINames == XcelCONames
PSENames == Names(Yearly \union {"Juneteenth", "Veterans"}, {},
                  Summery \union {"MartinLutherKing", "Presidents", "AfterThanksgiving"})
RockyNames == Names(Yearly \union {"Presidents", "Pioneer"}, {}, Summery)
PGENames == Names(Yearly \union {"Presidents", "Veterans"}, {}, Summery)
GPNames == Names({"Independence"}, {}, {"Labor"})
SundayFixed == {"NewYear", "Independence", "Christmas"}
EdisonNames == Names({}, SundayFixed \union {"Presidents", "Veterans"}, Summery)
BGENames == Names({}, SundayFixed \union Summery \union {"Presidents", "GoodFriday"}, {})
EversourceNames == Names({}, SundayFixed \union {"Veterans"},
                         Summery \union {"MartinLutherKing", "Presidents", "Columbus"})
IdahoNames == Names({}, SundayFixed, Summery)
BWPNames == Names({}, SundayFixed \union {"CesarChavez", "Juneteenth", "Veterans"},
                  Summery \union {"MartinLutherKing", "Presidents", "AfterThanksgiving"})
SawneeNames == Names({}, {}, {"Independence"})

WeekendCalendars == {Plain6, DukeNames, XcelNames, XcelWINames, XcelCONames, DominionNames, DominionNCNames,
                     APSNames, PSENames, RockyNames, PGENames, GPNames}
Calendars == WeekendCalendars \union {EdisonNames, BGENames, EversourceNames, IdahoNames, BWPNames, SawneeNames}

(* isDEIWinter: from the first Sunday of November to the second of March.     *)
WinterTurns ==      \* the day of November, the day of March
    (2025 :> <<2, 9>>) @@ (2026 :> <<1, 8>>) @@ (2027 :> <<7, 14>>) @@ (2028 :> <<5, 12>>)
    @@ (2029 :> <<4, 11>>) @@ (2030 :> <<3, 10>>) @@ (2031 :> <<2, 9>>)
SlipWinter(y, m, d) == m \in {12, 1, 2} \/ (m = 11 /\ d > WinterTurns[y][1]) \/ (m = 3 /\ d < WinterTurns[y][2])
Winter(y, m, d) == \/ m \in {12, 1, 2}
                   \/ m = 11 /\ d >= WinterTurns[y][1]
                   \/ m = 3 /\ d < WinterTurns[y][2]

-----------------------------------------------------------------------------
Init == year = FirstYear /\ month = 1 /\ day = 1 /\ dow = Dow(FirstYear, 1, 1)

NextDay ==
    LET t == Tomorrow(year, month, day) IN
    /\ t[1] <= LastYear
    /\ year' = t[1] /\ month' = t[2] /\ day' = t[3]
    /\ dow' = (dow % 7) + 1

Spec == Init /\ [][NextDay]_date

-----------------------------------------------------------------------------
Today == <<year, month, day>>

(* The days the code takes for Good Fridays are: two days before the Sunday   *)
(* that the Gregorian computus gives.                                         *)
Easter(y) ==
    LET a == y % 19
        b == y \div 100
        c == y % 100
        h == (19 * a + b - (b \div 4) - ((b - ((b + 8) \div 25) + 1) \div 3) + 15) % 30
        l == (32 + 2 * (b % 4) + 2 * (c \div 4) - h - (c % 4)) % 7
        n == (h + l + 114) - 7 * ((a + 11 * h + 22 * l) \div 451) IN
    <<y, n \div 31, (n % 31) + 1>>
GoodFridayIsBeforeEaster ==
    Today = Easter(year) =>
        LET s == Yesterday(year, month, day) IN Holiday("GoodFriday", year) = Yesterday(s[1], s[2], s[3])

(* "To ensure this observed holiday is captured": a weekday on which a        *)
(* calendar's holiday of last year, this year or the next is observed is one. *)
EveryHolidayIsObserved ==
    \A h \in UNION {c.weekend : c \in WeekendCalendars} \ {"NextNewYear"} :
        (\E y \in (year - 1)..(year + 1) : y >= 2025 /\ WeekendShift(Holiday(h, y)) = Today) =>
            \A c \in WeekendCalendars : h \in c.weekend => Today \in Observed(c, year)

(* Tariffs that price a weekend and a holiday each on its own rely on it: a   *)
(* shifted holiday never falls on a weekend.                                  *)
HolidaysAreWeekdays ==
    \A c \in WeekendCalendars \ {APSNames} : Today \in Observed(c, year) => dow \in 1..5

(* The winter of Duke Indiana's tariff turns on the first Sunday of November  *)
(* and the second of March.                                                   *)
WinterTurnsOnSundays ==
    year <= 2031 =>
        (Winter(year, month, day) <=> CASE month \in {12, 1, 2} -> TRUE
                                        [] month = 11 -> day >= Nth(year, 11, 7, 1)
                                        [] month = 3 -> day < Nth(year, 3, 7, 2)
                                        [] OTHER -> FALSE)
=============================================================================
