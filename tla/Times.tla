------------------------------- MODULE Times --------------------------------
(***************************************************************************)
(* Points and spans of time: the macros of src/src/timespec.h and the      *)
(* conversions at the end of src/src/util.c.  A timespec is its seconds    *)
(* and nanoseconds, a timeval its seconds and microseconds.                *)
(***************************************************************************)
EXTENDS Integers

CONSTANT Thousand   \* 1000: milliseconds per second, and so on

ASSUME TimesAssumption == Thousand \in Nat \ {0, 1}

Million == Thousand * Thousand      \* microseconds per second

Billion == Thousand * Million       \* nanoseconds per second

Timespec == [sec : Int, nsec : 0..(Billion - 1)]

Timeval == [sec : Int, usec : 0..(Million - 1)]

\* Mutant: only the seconds are compared.
CompareSeconds(t, u) == t.sec > u.sec

\* With >, the only comparison the loops make.
timespeccmp(t, u) == IF t.sec = u.sec THEN t.nsec > u.nsec ELSE t.sec > u.sec

timespecadd(t, u) ==
    LET nsec == t.nsec + u.nsec
    IN IF nsec >= Billion
       THEN [sec |-> t.sec + u.sec + 1, nsec |-> nsec - Billion]
       ELSE [sec |-> t.sec + u.sec, nsec |-> nsec]

\* Mutant: no borrow.
SubtractFields(t, u) == [sec |-> t.sec - u.sec, nsec |-> t.nsec - u.nsec]

timespecsub(t, u) ==
    LET nsec == t.nsec - u.nsec
    IN IF nsec < 0
       THEN [sec |-> t.sec - u.sec - 1, nsec |-> nsec + Billion]
       ELSE [sec |-> t.sec - u.sec, nsec |-> nsec]

tv2us(tv) == tv.sec * Million + tv.usec

tv2ms(tv) == tv.sec * Thousand + tv.usec \div Thousand

ms2tv(ms) == [sec |-> ms \div Thousand, usec |-> (ms % Thousand) * Thousand]

ms2ts(ms) == [sec |-> ms \div Thousand, nsec |-> (ms % Thousand) * Million]

ts2us(ts) == ts.sec * Million + ts.nsec \div Thousand

ts2ms(ts) == ts.sec * Thousand + ts.nsec \div Million

ts2ns(ts) == ts.sec * Billion + ts.nsec
=============================================================================
