-------------------------- MODULE NfsDfLoopProofs ---------------------------
(***************************************************************************)
(* Proofs about module NfsDfLoop: the macros of timespec.h are exact, the  *)
(* rounds keep to their frequency, and the sizes of the rows are right,    *)
(* for every number of nanoseconds in a second and every unit.             *)
(***************************************************************************)
EXTENDS NfsDfLoop, WellFoundedInduction, TLAPS

-----------------------------------------------------------------------------
(* Arithmetic.                                                             *)

LEMMA MulNat == ASSUME NEW a \in Nat, NEW b \in Nat PROVE a * b \in Nat
  BY SMT

LEMMA MulGrows ==
    ASSUME NEW x \in Int, NEW y \in Int, NEW b \in Nat, x < y
    PROVE  x * b + b <= y * b
<1>1. PICK d \in Nat : y = x + 1 + d
  BY y - x - 1 \in Nat
<1>2. d * b \in Nat
  BY MulNat
<1>3. y * b = x * b + b + d * b
  BY <1>1
<1> QED
  BY <1>2, <1>3

\* The quotient is the only one with a remainder smaller than the divisor.
LEMMA QuotientUnique ==
    ASSUME NEW b \in Nat \ {0}, NEW q \in Int, NEW r \in 0..(b - 1)
    PROVE  (q * b + r) \div b = q /\ (q * b + r) % b = r
  BY SMT

LEMMA QuotientRemainder ==
    ASSUME NEW b \in Nat \ {0}, NEW n \in Int
    PROVE  /\ n \div b \in Int
           /\ n % b \in 0..(b - 1)
           /\ n = (n \div b) * b + (n % b)
  BY SMT

-----------------------------------------------------------------------------
(* Times.                                                                  *)

LEMMA Units ==
    /\ Thousand \in Nat \ {0} /\ Million \in Nat \ {0} /\ Billion \in Nat \ {0}
    /\ Billion = Million * Thousand
<1>1. Thousand \in Nat \ {0, 1}
  BY TimesAssumption
<1>2. Million \in Nat /\ Million >= Thousand
  BY <1>1, SMT DEF Million
<1>3. Billion \in Nat /\ Billion >= Million /\ Billion = Million * Thousand
  BY <1>1, <1>2, SMT DEF Billion
<1> QED
  BY <1>1, <1>2, <1>3

\* A time is its nanoseconds: none are lost, and no two times have the same.
LEMMA NanosecondsOf ==
    ASSUME NEW t \in Timespec
    PROVE  /\ ts2ns(t) \in Int
           /\ t.sec \in Int /\ t.nsec \in 0..(Billion - 1)
           /\ t.sec = ts2ns(t) \div Billion
           /\ t.nsec = ts2ns(t) % Billion
<1>1. t.sec \in Int /\ t.nsec \in 0..(Billion - 1)
  BY DEF Timespec
<1>2. ts2ns(t) = t.sec * Billion + t.nsec
  BY DEF ts2ns
<1>3. ts2ns(t) \in Int
  BY <1>1, <1>2, Units
<1>4. /\ (t.sec * Billion + t.nsec) \div Billion = t.sec
      /\ (t.sec * Billion + t.nsec) % Billion = t.nsec
  BY <1>1, Units, QuotientUnique
<1> QED
  BY <1>1, <1>2, <1>3, <1>4

\* timespecadd() and timespecsub(): a time again, and the exact sum and
\* difference.
LEMMA AddsExactly ==
    ASSUME NEW t \in Timespec, NEW u \in Timespec
    PROVE  /\ timespecadd(t, u) \in Timespec
           /\ ts2ns(timespecadd(t, u)) = ts2ns(t) + ts2ns(u)
<1> DEFINE s == timespecadd(t, u)
<1>1. /\ t.sec \in Int /\ t.nsec \in 0..(Billion - 1)
      /\ u.sec \in Int /\ u.nsec \in 0..(Billion - 1)
      /\ Billion \in Nat \ {0}
  BY Units DEF Timespec
<1>2. CASE t.nsec + u.nsec >= Billion
  <2>1. s = [sec |-> t.sec + u.sec + 1, nsec |-> t.nsec + u.nsec - Billion]
    BY <1>1, <1>2 DEF timespecadd
  <2>2. s \in Timespec
    BY <1>1, <1>2, <2>1 DEF Timespec
  <2>3. (t.sec + u.sec + 1) * Billion = t.sec * Billion + u.sec * Billion + Billion
    BY <1>1
  <2> QED
    BY <1>1, <2>1, <2>2, <2>3 DEF ts2ns
<1>3. CASE ~(t.nsec + u.nsec >= Billion)
  <2>1. s = [sec |-> t.sec + u.sec, nsec |-> t.nsec + u.nsec]
    BY <1>1, <1>3 DEF timespecadd
  <2>2. s \in Timespec
    BY <1>1, <1>3, <2>1 DEF Timespec
  <2>3. (t.sec + u.sec) * Billion = t.sec * Billion + u.sec * Billion
    BY <1>1
  <2> QED
    BY <1>1, <2>1, <2>2, <2>3 DEF ts2ns
<1> QED
  BY <1>2, <1>3

LEMMA SubtractsExactly ==
    ASSUME NEW t \in Timespec, NEW u \in Timespec
    PROVE  /\ timespecsub(t, u) \in Timespec
           /\ ts2ns(timespecsub(t, u)) = ts2ns(t) - ts2ns(u)
<1> DEFINE s == timespecsub(t, u)
<1>1. /\ t.sec \in Int /\ t.nsec \in 0..(Billion - 1)
      /\ u.sec \in Int /\ u.nsec \in 0..(Billion - 1)
      /\ Billion \in Nat \ {0}
  BY Units DEF Timespec
<1>2. CASE t.nsec - u.nsec < 0
  <2>1. s = [sec |-> t.sec - u.sec - 1, nsec |-> t.nsec - u.nsec + Billion]
    BY <1>2 DEF timespecsub
  <2>2. s \in Timespec
    BY <1>1, <1>2, <2>1 DEF Timespec
  <2>3. (t.sec - u.sec - 1) * Billion = t.sec * Billion - u.sec * Billion - Billion
    BY <1>1
  <2> QED
    BY <1>1, <2>1, <2>2, <2>3 DEF ts2ns
<1>3. CASE ~(t.nsec - u.nsec < 0)
  <2>1. s = [sec |-> t.sec - u.sec, nsec |-> t.nsec - u.nsec]
    BY <1>3 DEF timespecsub
  <2>2. s \in Timespec
    BY <1>1, <1>3, <2>1 DEF Timespec
  <2>3. (t.sec - u.sec) * Billion = t.sec * Billion - u.sec * Billion
    BY <1>1
  <2> QED
    BY <1>1, <2>1, <2>2, <2>3 DEF ts2ns
<1> QED
  BY <1>2, <1>3

\* timespeccmp() with > compares the nanoseconds.
LEMMA ComparesExactly ==
    ASSUME NEW t \in Timespec, NEW u \in Timespec
    PROVE  timespeccmp(t, u) <=> ts2ns(t) > ts2ns(u)
<1> SUFFICES (IF t.sec = u.sec THEN t.nsec > u.nsec ELSE t.sec > u.sec)
             <=> ts2ns(t) > ts2ns(u)
  BY DEF timespeccmp
<1>1. /\ t.sec \in Int /\ t.nsec \in 0..(Billion - 1)
      /\ u.sec \in Int /\ u.nsec \in 0..(Billion - 1)
      /\ Billion \in Nat \ {0}
  BY Units DEF Timespec
<1>2. t.sec * Billion \in Int /\ u.sec * Billion \in Int
  BY <1>1
<1>3. CASE t.sec = u.sec
  BY <1>1, <1>2, <1>3 DEF ts2ns
<1>4. CASE t.sec > u.sec
  <2>1. u.sec * Billion + Billion <= t.sec * Billion
    BY <1>1, <1>4, MulGrows
  <2> QED
    BY <1>1, <1>2, <1>4, <2>1 DEF ts2ns
<1>5. CASE t.sec < u.sec
  <2>1. t.sec * Billion + Billion <= u.sec * Billion
    BY <1>1, <1>5, MulGrows
  <2> QED
    BY <1>1, <1>2, <1>5, <2>1 DEF ts2ns
<1>6. t.sec = u.sec \/ t.sec > u.sec \/ t.sec < u.sec
  BY <1>1
<1> QED
  BY <1>3, <1>4, <1>5, <1>6

\* A time without a sign is one that nanosleep() takes.
LEMMA ValidTimes ==
    ASSUME NEW t \in Timespec, ts2ns(t) >= 0
    PROVE  Valid(t)
<1>1. /\ t.sec \in Int /\ t.nsec \in 0..(Billion - 1)
      /\ Billion \in Nat \ {0}
  BY Units DEF Timespec
<1>2. ASSUME t.sec < 0 PROVE FALSE
  <2>1. t.sec * Billion + Billion <= 0 * Billion
    BY <1>1, <1>2, MulGrows
  <2>2. t.sec * Billion \in Int
    BY <1>1
  <2> QED
    BY <1>1, <2>1, <2>2 DEF ts2ns
<1> QED
  BY <1>1, <1>2 DEF Valid

LEMMA SpanIsExact ==
    ASSUME NEW ns \in Nat
    PROVE  Span(ns) \in Timespec /\ ts2ns(Span(ns)) = ns
<1>1. ns \in Int /\ Billion \in Nat \ {0}
  BY Units
<1>2. /\ ns \div Billion \in Int /\ ns % Billion \in 0..(Billion - 1)
      /\ ns = (ns \div Billion) * Billion + (ns % Billion)
  BY <1>1, QuotientRemainder
<1> QED
  BY <1>2 DEF Span, Timespec, ts2ns

\* ts2us() cuts off what is no full microsecond.
LEMMA Microseconds ==
    ASSUME NEW t \in Timespec
    PROVE  ts2us(t) = ts2ns(t) \div Thousand
<1> DEFINE us == t.nsec \div Thousand
           r == t.nsec % Thousand
<1>1. t.sec \in Int /\ t.nsec \in Int
  BY Units DEF Timespec
<1>2. us \in Int /\ r \in 0..(Thousand - 1) /\ t.nsec = us * Thousand + r
  BY <1>1, Units, QuotientRemainder
<1>3. t.sec * Million \in Int /\ t.sec * Billion = (t.sec * Million) * Thousand
  BY <1>1, Units
<1>4. ts2ns(t) = (t.sec * Million + us) * Thousand + r
  BY <1>1, <1>2, <1>3, Units DEF ts2ns
<1>5. t.sec * Million + us \in Int
  BY <1>2, <1>3
<1> HIDE DEF us, r
<1>6. ts2ns(t) \div Thousand = t.sec * Million + us
  BY <1>2, <1>4, <1>5, Units, QuotientUnique
<1> QED
  BY <1>6 DEF ts2us, us
-----------------------------------------------------------------------------
(* The loop.                                                               *)

\* The times are times, the round has begun, and a sleep ends when a period
\* after the start of the round is over.
LoopInv ==
    /\ hertz \in Hertz
    /\ now \in Timespec /\ loop_start \in Timespec /\ sleepy \in Timespec
    /\ ts2ns(loop_start) <= ts2ns(now)
    /\ took \in Nat /\ usec = took \div Thousand
    /\ gap \in Nat
    /\ pc = "sleep" =>
         /\ ts2ns(sleepy) \in 0..ts2ns(sleep_time)
         /\ ts2ns(now) + ts2ns(sleepy) = ts2ns(loop_start) + ts2ns(sleep_time)
    /\ KeepsFrequency

LEMMA PeriodIsTime ==
    ASSUME hertz \in Hertz
    PROVE  sleep_time \in Timespec /\ ts2ns(sleep_time) \in Nat
<1>1. hertz \in Nat /\ Billion \in Nat \ {0}
  BY Units, NfsDfLoopAssumption
<1>2. CASE hertz > 1
  <2> DEFINE q == Billion \div hertz
  <2>1. q \in 0..(Billion - 1)
    <3>1. q \in Int /\ Billion % hertz \in 0..(hertz - 1)
          /\ Billion = q * hertz + (Billion % hertz)
      BY <1>1, <1>2, QuotientRemainder
    <3> HIDE DEF q
    <3>2. ASSUME q < 0 PROVE FALSE
      <4>1. q * hertz + hertz <= 0 * hertz
        BY <1>1, <3>1, <3>2, MulGrows
      <4>2. q * hertz \in Int
        BY <1>1, <3>1
      <4> QED
        BY <1>1, <1>2, <3>1, <4>1, <4>2
    <3>3. ASSUME q >= Billion PROVE FALSE
      <4>1. q \in Nat /\ 1 * q + q <= hertz * q
        BY <1>1, <1>2, <3>1, <3>3, MulGrows
      <4>2. hertz * q = q * hertz /\ q * hertz \in Int
        BY <1>1, <3>1
      <4> QED
        BY <1>1, <1>2, <3>1, <3>3, <4>1, <4>2
    <3> QED
      BY <1>1, <3>1, <3>2, <3>3
  <2>2. sleep_time = [sec |-> 0, nsec |-> q]
    BY <1>2 DEF sleep_time
  <2> HIDE DEF q
  <2>3. sleep_time \in Timespec /\ ts2ns(sleep_time) = 0 * Billion + q
    BY <2>1, <2>2 DEF Timespec, ts2ns
  <2> QED
    BY <1>1, <2>1, <2>3
<1>3. CASE ~(hertz > 1)
  <2>1. sleep_time = [sec |-> 1, nsec |-> 0]
    BY <1>3 DEF sleep_time
  <2>2. sleep_time \in Timespec /\ ts2ns(sleep_time) = 1 * Billion + 0
    BY <1>1, <2>1 DEF Timespec, ts2ns
  <2> QED
    BY <1>1, <2>2
<1> QED
  BY <1>2, <1>3

LEMMA InitLoop == Init => LoopInv
<1> SUFFICES ASSUME Init PROVE LoopInv
  OBVIOUS
<1>1. /\ now \in Timespec /\ loop_start = now /\ hertz \in Hertz
      /\ took = 0 /\ usec = 0 /\ gap = 0
  BY NfsDfLoopAssumption DEF Init
<1>2. sleepy \in Timespec
  BY Units DEF Init, Zero, Timespec
<1>3. ts2ns(now) \in Int
  BY <1>1, NanosecondsOf
<1>4. usec = took \div Thousand
  BY <1>1, Units, SMT
<1>5. KeepsFrequency
  BY DEF Init, KeepsFrequency
<1> QED
  BY <1>1, <1>2, <1>3, <1>4, <1>5 DEF Init, LoopInv

LEMMA NextLoop == LoopInv /\ [Next]_vars => LoopInv'
<1> SUFFICES ASSUME LoopInv, [Next]_vars
             PROVE  LoopInv'
  OBVIOUS
<1> DEFINE n == ts2ns(now)
           b == ts2ns(loop_start)
           z == ts2ns(sleepy)
           p == ts2ns(sleep_time)
<1>1. /\ now \in Timespec /\ loop_start \in Timespec /\ sleepy \in Timespec
      /\ sleep_time \in Timespec
      /\ n \in Int /\ b \in Int /\ z \in Int /\ p \in Nat /\ b <= n
  BY NanosecondsOf, PeriodIsTime DEF LoopInv
<1>2. hertz' = hertz /\ sleep_time' = sleep_time
  <2>1. hertz' = hertz
    BY DEF Next, Loop, Call, PrintRow, Stop, SlowPoll, Sleep, WakeUp, StartRound,
           Interrupt, Done, vars
  <2> QED
    BY <2>1 DEF sleep_time
<1>3. CASE Call
  <2>1. /\ took' \in Nat /\ now' = timespecadd(now, Span(took'))
        /\ usec' = ts2us(timespecsub(now', now))
        /\ UNCHANGED <<loop_start, sleepy, pause, gap>> /\ pc' = "print"
    BY <1>3, NfsDfLoopAssumption DEF Call
  <2>2. now' \in Timespec /\ ts2ns(now') = n + took'
    BY <1>1, <2>1, SpanIsExact, AddsExactly
  <2>3. /\ timespecsub(now', now) \in Timespec
        /\ ts2ns(timespecsub(now', now)) = took'
    BY <1>1, <2>1, <2>2, SubtractsExactly
  <2>4. usec' = took' \div Thousand
    BY <2>1, <2>3, Microseconds
  <2>5. ts2ns(loop_start') <= ts2ns(now')
    BY <1>1, <2>1, <2>2
  <2>6. KeepsFrequency'
    BY <1>2, <2>1 DEF LoopInv, KeepsFrequency
  <2> QED
    BY <1>2, <2>1, <2>2, <2>4, <2>5, <2>6 DEF LoopInv
<1>4. CASE PrintRow \/ Stop \/ Done \/ UNCHANGED vars
  <2>1. /\ UNCHANGED <<now, loop_start, sleepy, usec, took, pause, gap>>
        /\ pc' = "sleep" => pc = "sleep"
    BY <1>4 DEF PrintRow, Stop, Done, vars
  <2>2. KeepsFrequency'
    BY <1>2, <2>1 DEF LoopInv, KeepsFrequency
  <2> QED
    BY <1>2, <2>1, <2>2 DEF LoopInv
<1>5. CASE SlowPoll
  <2>1. /\ UNCHANGED <<now, sleepy, usec, took>> /\ loop_start' = now
        /\ pc' = "call" /\ pause' = "slow" /\ gap' = n - b
        /\ timespeccmp(loop_elapsed, sleep_time)
    BY <1>5 DEF SlowPoll, StartRound
  <2>2. loop_elapsed \in Timespec /\ ts2ns(loop_elapsed) = n - b
    BY <1>1, SubtractsExactly DEF loop_elapsed
  <2>3. n - b > p
    BY <1>1, <2>1, <2>2, ComparesExactly
  <2>4. KeepsFrequency'
    BY <1>2, <2>1, <2>3 DEF KeepsFrequency
  <2>5. now' = now /\ loop_start' = now /\ sleepy' = sleepy
    BY <2>1
  <2>6. ts2ns(loop_start') = n /\ ts2ns(now') = n
    BY <2>5
  <2>7. ts2ns(loop_start') <= ts2ns(now')
    BY <1>1, <2>6
  <2>8. gap' \in Nat
    <3> HIDE DEF n, b
    <3>1. n - b \in Nat
      BY <1>1
    <3> QED
      BY <2>1, <3>1
  <2> QED
    BY <1>1, <1>2, <2>1, <2>4, <2>5, <2>7, <2>8 DEF LoopInv
<1>6. CASE Sleep
  <2>1. /\ UNCHANGED <<now, loop_start, usec, took, pause, gap>>
        /\ sleepy' = timespecsub(sleep_time, loop_elapsed)
        /\ ~timespeccmp(loop_elapsed, sleep_time)
    BY <1>6 DEF Sleep
  <2>2. loop_elapsed \in Timespec /\ ts2ns(loop_elapsed) = n - b
    BY <1>1, SubtractsExactly DEF loop_elapsed
  <2>3. n - b <= p
    <3>1. ~(ts2ns(loop_elapsed) > p)
      BY <1>1, <2>1, <2>2, ComparesExactly
    <3> QED
      BY <1>1, <2>2, <3>1
  <2>4. sleepy' \in Timespec /\ ts2ns(sleepy') = p - (n - b)
    <3>1. /\ timespecsub(sleep_time, loop_elapsed) \in Timespec
          /\ ts2ns(timespecsub(sleep_time, loop_elapsed)) = p - ts2ns(loop_elapsed)
      BY <1>1, <2>2, SubtractsExactly
    <3> QED
      BY <2>1, <2>2, <3>1
  <2>5. KeepsFrequency'
    BY <1>2, <2>1 DEF LoopInv, KeepsFrequency
  <2>6. ts2ns(sleepy') \in 0..p /\ n + ts2ns(sleepy') = b + p
    BY <1>1, <2>3, <2>4
  <2> QED
    BY <1>2, <2>1, <2>4, <2>5, <2>6 DEF LoopInv
<1>7. CASE WakeUp
  <2>1. PICK late \in 0..MaxLate :
           /\ now' = IF Valid(sleepy)
                     THEN timespecadd(timespecadd(now, sleepy), Span(late)) ELSE now
           /\ pause' = IF late = 0 THEN "slept" ELSE "late"
           /\ gap' = ts2ns(now') - b
           /\ loop_start' = now' /\ pc' = "call"
           /\ UNCHANGED <<sleepy, usec, took>>
    BY <1>7 DEF WakeUp, StartRound
  <2>2. pc = "sleep" /\ z \in 0..p /\ n + z = b + p
    BY <1>7 DEF WakeUp, LoopInv
  <2>3. Valid(sleepy)
    BY <1>1, <2>2, ValidTimes
  <2>4. late \in Nat /\ late <= MaxLate /\ MaxLate \in Nat
    BY NfsDfLoopAssumption
  <2>5. now' \in Timespec /\ ts2ns(now') = n + z + late
    <3>1. timespecadd(now, sleepy) \in Timespec /\ ts2ns(timespecadd(now, sleepy)) = n + z
      BY <1>1, AddsExactly
    <3>2. Span(late) \in Timespec /\ ts2ns(Span(late)) = late
      BY <2>4, SpanIsExact
    <3> QED
      BY <2>1, <2>3, <3>1, <3>2, AddsExactly
  <2>6. gap' = p + late
    BY <1>1, <2>1, <2>2, <2>4, <2>5
  <2>7. KeepsFrequency'
    <3>1. p' = p
      BY <1>2
    <3> QED
      BY <1>1, <3>1, <2>1, <2>4, <2>6 DEF KeepsFrequency
  <2>8. ts2ns(loop_start') <= ts2ns(now')
    BY <1>1, <2>1, <2>4, <2>5
  <2>9. gap' \in Nat
    BY <1>1, <2>4, <2>6
  <2> QED
    BY <1>2, <2>1, <2>5, <2>7, <2>8, <2>9 DEF LoopInv
<1>8. CASE Interrupt /\ pc # "sleep"
  <2>1. UNCHANGED <<now, loop_start, sleepy, usec, took, pause, gap, pc>>
    BY <1>8 DEF Interrupt
  <2>2. KeepsFrequency'
    BY <1>2, <2>1 DEF LoopInv, KeepsFrequency
  <2> QED
    BY <1>2, <2>1, <2>2 DEF LoopInv
<1>9. CASE Interrupt /\ pc = "sleep"
  <2>1. PICK t \in 0..z :
           /\ now' = timespecadd(now, Span(t))
           /\ pause' = "interrupted" /\ loop_start' = now' /\ pc' = "call"
           /\ gap' = ts2ns(now') - b
           /\ UNCHANGED <<sleepy, usec, took>>
    BY <1>9 DEF Interrupt, StartRound
  <2>2. t \in Nat
    BY <1>1
  <2>3. now' \in Timespec /\ ts2ns(now') = n + t
    BY <1>1, <2>1, <2>2, SpanIsExact, AddsExactly
  <2>4. KeepsFrequency'
    BY <2>1 DEF KeepsFrequency
  <2>5. ts2ns(now') \in Int
    BY <2>3, NanosecondsOf
  <2>6. gap' \in Nat
    BY <1>1, <2>1, <2>2, <2>3
  <2> QED
    BY <1>2, <2>1, <2>3, <2>4, <2>5, <2>6 DEF LoopInv
<1> QED
  BY <1>3, <1>4, <1>5, <1>6, <1>7, <1>8, <1>9 DEF Next, Loop

\* Rounds start one period apart, whatever a call takes: never early, and late
\* only by a call that was longer or by what the sleep was.
THEOREM KeepsThePeriod == Spec => []KeepsFrequency
<1>1. LoopInv => KeepsFrequency
  BY DEF LoopInv
<1> QED
  BY <1>1, InitLoop, NextLoop, PTL DEF Spec

-----------------------------------------------------------------------------
(* Sizes.                                                                  *)

LEMMA LargestOf ==
    ASSUME NEW n \in Nat, NEW S, S \subseteq 0..n, S # {}
    PROVE  \E x \in S : \A y \in S : y <= x
<1> DEFINE R == {ss \in Nat \X Nat : ss[1] < ss[2]}
           T == {n - x : x \in S}
<1>1. IsWellFoundedOn(R, Nat)
  BY NatLessThanWellFounded DEF OpToRel
<1>2. T \subseteq Nat /\ T # {}
  <2>1. \A x \in S : n - x \in Nat
    OBVIOUS
  <2> QED
    BY <2>1
<1> HIDE DEF T
<1>3. PICK t \in T : \A u \in T : ~(<<u, t>> \in R)
  BY <1>1, <1>2, WFMin
<1>4. \A u \in T : ~(u < t)
  BY <1>2, <1>3
<1>5. PICK x \in S : t = n - x
  BY DEF T
<1>6. ASSUME NEW y \in S PROVE y <= x
  <2>1. n - y \in T /\ x \in 0..n /\ y \in 0..n
    BY DEF T
  <2>2. ~(n - y < n - x)
    BY <1>4, <1>5, <2>1
  <2> QED
    BY <2>1, <2>2
<1> QED
  BY <1>6

\* The human readable prefix leaves two digits, or is bytes; the next larger
\* one would not.
LEMMA BestPrefixIs ==
    ASSUME NEW input \in Size
    PROVE  LET p == BestPrefix(input)
           IN /\ p \in 0..Largest
              /\ p = 0 \/ input \div Unit[p] >= 10
              /\ p + 1 \in 0..Largest => ~(input \div Unit[p + 1] >= 10)
<1> DEFINE fits == {p \in 0..Largest : input \div Unit[p] >= 10}
           best == CHOOSE p \in fits : \A q \in fits : q <= p
<1>1. Largest \in Nat /\ 0 \in 0..Largest
  BY SizesAssumption
<1>2. CASE fits = {}
  <2>1. BestPrefix(input) = 0
    BY <1>2 DEF BestPrefix
  <2> QED
    BY <1>1, <1>2, <2>1
<1>3. CASE fits # {}
  <2>1. BestPrefix(input) = best
    BY <1>3 DEF BestPrefix
  <2>2. \E p \in fits : \A q \in fits : q <= p
    BY <1>1, <1>3, LargestOf
  <2>3. best \in fits /\ \A q \in fits : q <= best
    BY <2>2
  <2> HIDE DEF best
  <2>4. best + 1 \notin fits
    BY <1>1, <2>3
  <2> QED
    BY <1>1, <2>1, <2>3, <2>4
<1> QED
  BY <1>2, <1>3

LEMMA UnitOf ==
    ASSUME NEW p \in 0..Largest
    PROVE  Unit[p] \in Nat \ {0}
  BY SizesAssumption

\* A human readable size has less than ten times Kilo units, and what is cut
\* off is less than a tenth.
LEMMA HumanSize ==
    ASSUME NEW input \in Size
    PROVE  LET printed == prefix_print(input, HUMAN)
           IN /\ printed.shifted < 10 * Kilo
              /\ Shown(printed, HUMAN) <= input
              /\ 10 * (input - Shown(printed, HUMAN)) <= input
<1> DEFINE p == BestPrefix(input)
           U == Unit[p]
           shifted == input \div U
<1>1. /\ p \in 0..Largest
      /\ p = 0 \/ shifted >= 10
      /\ p + 1 \in 0..Largest => ~(input \div Unit[p + 1] >= 10)
  BY BestPrefixIs
<1>2. input \in Nat /\ input <= MaxSize /\ MaxSize < 16 * Unit[Largest]
      /\ Kilo \in Nat /\ Kilo >= 2 /\ Largest \in Nat /\ Unit[0] = 1
  BY SizesAssumption DEF Size
<1> HIDE DEF p
<1>3. U \in Nat \ {0}
  BY <1>1, UnitOf
<1>4. shifted \in Int /\ input % U \in 0..(U - 1) /\ input = shifted * U + (input % U)
  <2>1. input \in Int
    BY <1>2
  <2> QED
    BY <1>3, <2>1, QuotientRemainder
<1>5. prefix_print(input, HUMAN) =
        [shifted |-> shifted, greater |-> FALSE, label |-> IF input > 0 THEN p ELSE 0]
  BY DEF prefix_print, ShiftedPrefix, p
<1>6. Shown(prefix_print(input, HUMAN), HUMAN) = shifted * U
  <2>1. CASE input > 0
    BY <1>5, <2>1 DEF Shown
  <2>2. CASE input = 0
    <3>1. shifted = 0
      BY <1>3, <2>2, SMT
    <3>2. Shown(prefix_print(input, HUMAN), HUMAN) = 0 * Unit[0]
      BY <1>5, <2>2, <3>1 DEF Shown
    <3> QED
      BY <1>2, <1>3, <3>1, <3>2
  <2> QED
    BY <1>2, <2>1, <2>2
<1>7. input < (10 * Kilo) * U
  <2>1. CASE p = Largest
    <3>1. 16 * U <= (10 * Kilo) * U
      <4>1. 16 \in Int /\ 10 * Kilo \in Int /\ 16 < 10 * Kilo
        BY <1>2
      <4>2. 16 * U + U <= (10 * Kilo) * U
        BY <1>3, <4>1, MulGrows
      <4> QED
        BY <1>2, <1>3, <4>2
    <3>2. input < 16 * U
      <4>1. U = Unit[Largest] /\ MaxSize \in Nat /\ 16 * U \in Nat
        BY <1>3, <2>1, SizesAssumption
      <4> QED
        BY <1>2, <4>1
    <3>3. 16 * U \in Int /\ (10 * Kilo) * U \in Int /\ input \in Int
      BY <1>2, <1>3
    <3> QED
      BY <3>1, <3>2, <3>3
  <2>2. CASE p # Largest
    <3> DEFINE V == Unit[p + 1]
    <3>1. p + 1 \in 1..Largest /\ p + 1 \in 0..Largest /\ (p + 1) - 1 = p
      BY <1>1, <1>2, <2>2
    <3>2. V = Kilo * U /\ V \in Nat \ {0}
      BY <3>1, SizesAssumption
    <3>3. /\ input \div V \in Int /\ input % V \in 0..(V - 1)
          /\ input = (input \div V) * V + (input % V)
      <4>1. input \in Int
        BY <1>2
      <4> HIDE DEF V
      <4> QED
        BY <3>2, <4>1, QuotientRemainder
    <3>4. input \div V < 10
      BY <1>1, <3>1, <3>3
    <3>5. (input \div V) * V + V <= 10 * V
      BY <3>2, <3>3, <3>4, MulGrows
    <3>6. input < 10 * V
      <4> HIDE DEF V
      <4>1. (input \div V) * V \in Int /\ 10 * V \in Int
        BY <3>2, <3>3
      <4> QED
        BY <3>2, <3>3, <3>5, <4>1
    <3>7. 10 * V = (10 * Kilo) * U
      BY <1>2, <1>3, <3>2
    <3> QED
      BY <3>6, <3>7
  <2> QED
    BY <2>1, <2>2
<1> HIDE DEF shifted, U
<1>8. shifted < 10 * Kilo
  <2>1. ASSUME shifted >= 10 * Kilo PROVE FALSE
    <3>1. 10 * Kilo \in Int
      BY <1>2
    <3>2. CASE shifted = 10 * Kilo
      BY <1>2, <1>3, <1>4, <1>7, <3>2
    <3>3. CASE shifted > 10 * Kilo
      <4>1. (10 * Kilo) * U + U <= shifted * U
        BY <1>3, <1>4, <3>1, <3>3, MulGrows
      <4>2. (10 * Kilo) * U \in Int /\ shifted * U \in Int
        BY <1>3, <1>4, <3>1
      <4> QED
        BY <1>2, <1>3, <1>4, <1>7, <4>1, <4>2
    <3> QED
      BY <1>4, <2>1, <3>1, <3>2, <3>3
  <2> QED
    BY <1>2, <1>4, <2>1
<1>9. shifted * U <= input /\ 10 * (input - shifted * U) <= input
  <2>1. shifted * U \in Int
    BY <1>3, <1>4
  <2>2. CASE p = 0
    BY <1>2, <1>3, <1>4, <2>1, <2>2 DEF U
  <2>3. CASE shifted >= 10
    <3>1. 10 * U <= shifted * U
      <4>1. CASE shifted = 10
        BY <1>3, <4>1
      <4>2. CASE shifted > 10
        BY <1>3, <1>4, <2>1, <4>2, MulGrows
      <4> QED
        BY <1>4, <2>3, <4>1, <4>2
    <3> QED
      BY <1>2, <1>3, <1>4, <2>1, <3>1
  <2> QED
    BY <1>1, <2>2, <2>3 DEF shifted, U
<1> QED
  BY <1>5, <1>6, <1>8, <1>9

-----------------------------------------------------------------------------
(* Rows.                                                                   *)

\* A quotient of a number that is not negative.
LEMMA QuotientNat ==
    ASSUME NEW b \in Nat \ {0}, NEW n \in Nat
    PROVE  n \div b \in Nat
<1>1. n \div b \in Int /\ n % b \in 0..(b - 1) /\ n = (n \div b) * b + (n % b)
  BY QuotientRemainder
<1>2. ASSUME n \div b < 0 PROVE FALSE
  <2>1. (n \div b) * b + b <= 0 * b
    BY <1>1, <1>2, MulGrows
  <2>2. (n \div b) * b \in Int
    BY <1>1
  <2> QED
    BY <1>1, <2>1, <2>2
<1> QED
  BY <1>1, <1>2

\* Two parts rounded down are together at most one short of the whole.
LEMMA PartsOfQuotient ==
    ASSUME NEW b \in Nat \ {0}, NEW m \in Nat, NEW n \in Nat
    PROVE  (m + n) \div b - m \div b - n \div b \in {0, 1}
<1> DEFINE x == m \div b
           y == n \div b
           w == (m + n) \div b
           d == w - x - y
<1>1. /\ x \in Int /\ m % b \in 0..(b - 1) /\ m = x * b + (m % b)
      /\ y \in Int /\ n % b \in 0..(b - 1) /\ n = y * b + (n % b)
  BY QuotientRemainder
<1>2. w \in Int /\ (m + n) % b \in 0..(b - 1) /\ m + n = w * b + ((m + n) % b)
  <2>1. m + n \in Int
    OBVIOUS
  <2> QED
    BY <2>1, QuotientRemainder
<1> HIDE DEF x, y, w
<1>3. d \in Int /\ d * b = w * b - x * b - y * b
  BY <1>1, <1>2
<1>4. d * b \in Int /\ x * b \in Int /\ y * b \in Int /\ w * b \in Int
  BY <1>1, <1>2, <1>3
<1>5. d * b > 0 - b /\ d * b < 2 * b
  BY <1>1, <1>2, <1>3, <1>4
<1> HIDE DEF d
<1>6. ASSUME d < 0 PROVE FALSE
  <2>1. d * b + b <= 0 * b
    BY <1>3, <1>6, MulGrows
  <2> QED
    BY <1>4, <1>5, <2>1
<1>7. ASSUME d > 1 PROVE FALSE
  <2>1. CASE d = 2
    BY <1>5, <2>1
  <2>2. CASE d > 2
    <3>1. 2 * b + b <= d * b
      BY <1>3, <2>2, MulGrows
    <3> QED
      BY <1>4, <1>5, <3>1
  <2> QED
    BY <1>3, <1>7, <2>1, <2>2
<1>8. d \in {0, 1}
  BY <1>3, <1>6, <1>7
<1> QED
  BY <1>8 DEF d, w, x, y

LEMMA MinusIsDifference ==
    ASSUME NEW t \in Size, NEW f \in Size, f <= t
    PROVE  Minus(t, f) = t - f
<1>1. t \in Nat /\ f \in Nat /\ t <= MaxSize /\ MaxSize + 1 \in Nat \ {0}
      /\ 0 \in Int /\ t - f \in 0..((MaxSize + 1) - 1)
  BY SizesAssumption DEF Size
<1>2. (0 * (MaxSize + 1) + (t - f)) % (MaxSize + 1) = t - f
  BY <1>1, QuotientUnique
<1>3. 0 * (MaxSize + 1) + (t - f) = t - f
  BY <1>1
<1> QED
  BY <1>2, <1>3 DEF Minus

LEMMA PercentIsShare ==
    ASSUME NEW t \in Nat, NEW f \in Nat, f <= t
    PROVE  Percent(f, t) \subseteq 0..100
<1> SUFFICES ASSUME t # 0 PROVE ((t - f) * 100) \div t \in 0..100
  BY DEF Percent
<1> DEFINE n == (t - f) * 100
           q == n \div t
<1>1. n \in Nat /\ n <= 100 * t
  OBVIOUS
<1> HIDE DEF n
<1>2. q \in Nat
  BY <1>1, QuotientNat
<1>3. n % t \in 0..(t - 1) /\ n = q * t + (n % t)
  <2>1. n \in Int
    BY <1>1
  <2> QED
    BY <2>1, QuotientRemainder
<1> HIDE DEF q
<1>4. ASSUME q > 100 PROVE FALSE
  <2>1. 100 * t + t <= q * t
    BY <1>2, <1>4, MulGrows
  <2>2. q * t \in Int
    BY <1>2
  <2> QED
    BY <1>1, <1>3, <2>1, <2>2
<1>5. q \in 0..100
  BY <1>2, <1>4
<1> QED
  BY <1>5 DEF q, n

\* Only nothing is printed as a bare zero.
LEMMA BareZero ==
    ASSUME NEW input \in Size, NEW pre \in Prefix
    PROVE  LET printed == prefix_print(input, pre)
           IN printed.shifted = 0 /\ ~printed.greater <=> input = 0
<1> DEFINE p == ShiftedPrefix(input, pre)
           shifted == input \div Unit[p]
<1>1. input \in Nat /\ Largest \in Nat
  BY SizesAssumption DEF Size
<1>2. /\ prefix_print(input, pre).shifted = shifted
      /\ prefix_print(input, pre).greater =
           (pre # HUMAN /\ input > 0 /\ shifted = 0)
  BY DEF prefix_print
<1>3. p \in 0..Largest
  BY BestPrefixIs DEF ShiftedPrefix, Prefix
<1>4. Unit[p] \in Nat \ {0}
  BY <1>3, UnitOf
<1>5. input = 0 => shifted = 0
  BY <1>4, SMT
<1>6. ASSUME pre = HUMAN, shifted = 0 PROVE input = 0
  <2>1. p = 0
    BY <1>6, BestPrefixIs DEF ShiftedPrefix
  <2>2. shifted = input \div 1
    BY <2>1, SizesAssumption
  <2> HIDE DEF shifted
  <2> QED
    BY <1>1, <1>6, <2>2
<1> HIDE DEF shifted
<1>7. shifted = 0 /\ ~(pre # HUMAN /\ input > 0 /\ shifted = 0) <=> input = 0
  BY <1>1, <1>5, <1>6
<1> QED
  BY <1>2, <1>7

LEMMA RowIsRight ==
    ASSUME NEW a \in Answer, NEW pre \in Prefix
    PROVE  LET row == print_df(a, pre)
           IN /\ pre # HUMAN =>
                   row.total.shifted - row.used.shifted - row.avail.shifted \in {0, 1}
              /\ row.avail.shifted = 0 /\ ~row.avail.greater <=> a.fbytes = 0
              /\ row.used.shifted = 0 /\ ~row.used.greater <=> a.fbytes = a.tbytes
              /\ row.capacity \subseteq 0..100
<1> DEFINE t == a.tbytes
           f == a.fbytes
           row == print_df(a, pre)
<1>1. t \in Size /\ f \in Size /\ f <= t
  BY NfsDfLoopAssumption
<1>2. t \in Nat /\ f \in Nat /\ t - f \in Size /\ t - f \in Nat
  BY <1>1, SizesAssumption DEF Size
<1>3. /\ row.total = prefix_print(t, pre)
      /\ row.used = prefix_print(t - f, pre)
      /\ row.avail = prefix_print(f, pre)
      /\ row.capacity = Percent(f, t)
  BY <1>1, MinusIsDifference DEF print_df
<1> HIDE DEF t, f, row
<1>4. ASSUME pre # HUMAN
      PROVE  row.total.shifted - row.used.shifted - row.avail.shifted \in {0, 1}
  <2>1. pre \in 0..Largest
    BY <1>4 DEF Prefix
  <2>2. Unit[pre] \in Nat \ {0}
    BY <2>1, UnitOf
  <2>3. /\ row.total.shifted = t \div Unit[pre]
        /\ row.used.shifted = (t - f) \div Unit[pre]
        /\ row.avail.shifted = f \div Unit[pre]
    BY <1>3, <1>4 DEF prefix_print, ShiftedPrefix
  <2>4. (t - f) + f = t
    BY <1>2
  <2>5. ((t - f) + f) \div Unit[pre] - (t - f) \div Unit[pre] - f \div Unit[pre]
          \in {0, 1}
    BY <1>2, <2>2, PartsOfQuotient
  <2> QED
    BY <2>3, <2>4, <2>5
<1>5. row.avail.shifted = 0 /\ ~row.avail.greater <=> f = 0
  BY <1>1, <1>3, BareZero
<1>6. row.used.shifted = 0 /\ ~row.used.greater <=> f = t
  <2>1. row.used.shifted = 0 /\ ~row.used.greater <=> t - f = 0
    BY <1>2, <1>3, BareZero
  <2> QED
    BY <1>2, <2>1
<1>7. row.capacity \subseteq 0..100
  BY <1>1, <1>2, <1>3, PercentIsShare
<1> QED
  BY <1>4, <1>5, <1>6, <1>7 DEF row, t, f

LEMMA InodeRowIsRight ==
    ASSUME NEW a \in Answer
    PROVE  LET row == print_inodes(a) IN row.iused + row.ifree = row.inodes
<1>1. a.tfiles \in Size /\ a.ffiles \in Size /\ a.ffiles <= a.tfiles
  BY NfsDfLoopAssumption
<1>2. Minus(a.tfiles, a.ffiles) = a.tfiles - a.ffiles
  BY <1>1, MinusIsDifference
<1> QED
  BY <1>1, <1>2, SizesAssumption DEF print_inodes, Size

-----------------------------------------------------------------------------
\* What is printed comes from an answer.
AnswerInv == prefix \in Prefix /\ fsstat \subseteq Answer

LEMMA AlwaysAnswers == Spec => []AnswerInv
<1>1. Init => AnswerInv
  BY DEF Init, AnswerInv
<1>2. AnswerInv /\ [Next]_vars => AnswerInv'
  <2> SUFFICES ASSUME AnswerInv, [Next]_vars PROVE AnswerInv'
    OBVIOUS
  <2>1. CASE Call
    BY <2>1 DEF Call, AnswerInv
  <2>2. CASE PrintRow \/ Stop \/ Sleep
    BY <2>2 DEF PrintRow, Stop, Sleep, AnswerInv
  <2>3. CASE SlowPoll \/ WakeUp
    BY <2>3 DEF SlowPoll, WakeUp, StartRound, AnswerInv
  <2>4. CASE Interrupt
    BY <2>4 DEF Interrupt, StartRound, AnswerInv
  <2>5. CASE Done \/ UNCHANGED vars
    BY <2>5 DEF Done, vars, AnswerInv
  <2> QED
    BY <2>1, <2>2, <2>3, <2>4, <2>5 DEF Next, Loop
<1> QED
  BY <1>1, <1>2, PTL DEF Spec

\* A human readable size has less than ten times the step between the units,
\* and less than a tenth of it is cut off.
LEMMA SizesAreShortAndClose == AnswerInv => HumanIsShortAndClose
<1> SUFFICES ASSUME AnswerInv, NEW a \in fsstat,
                    NEW input \in {a.tbytes, a.fbytes, a.tbytes - a.fbytes}
             PROVE  LET printed == prefix_print(input, HUMAN)
                    IN /\ printed.shifted < 10 * Kilo
                       /\ Shown(printed, HUMAN) <= input
                       /\ 10 * (input - Shown(printed, HUMAN)) <= input
  BY DEF HumanIsShortAndClose
<1>1. a.tbytes \in Size /\ a.fbytes \in Size /\ a.fbytes <= a.tbytes
  BY NfsDfLoopAssumption DEF AnswerInv
<1>2. input \in Size
  BY <1>1, SizesAssumption DEF Size
<1> QED
  BY <1>2, HumanSize

\* The sizes of a row are short and close and its columns agree with each
\* other, for every unit and whatever the server answers.
THEOREM PrintsRightRows == Spec => []RowsAreRight
<1>1. AnswerInv => RowAddsUp
  BY RowIsRight, InodeRowIsRight DEF AnswerInv, RowAddsUp
<1>2. AnswerInv => RowsAreRight
  BY <1>1, SizesAreShortAndClose DEF RowsAreRight
<1> QED
  BY <1>2, AlwaysAnswers, PTL

-----------------------------------------------------------------------------
\* The rest of the type invariant.
CountInv ==
    /\ pc \in {"call", "print", "end", "sleep", "done"}
    /\ df_sent \in Nat /\ df_ok \in Nat
    /\ quitting \in BOOLEAN
    /\ pause \in {"none", "slow", "slept", "late", "interrupted"}

LEMMA AlwaysCounts == Spec => []CountInv
<1>1. Init => CountInv
  <2>1. Init => quitting \in BOOLEAN
    BY Zenon DEF Init
  <2> QED
    BY <2>1 DEF Init, CountInv
<1>2. CountInv /\ [Next]_vars => CountInv'
  <2> SUFFICES ASSUME CountInv, [Next]_vars PROVE CountInv'
    OBVIOUS
  <2> USE DEF CountInv
  <2>1. CASE Call
    BY <2>1 DEF Call
  <2>2. CASE PrintRow \/ Stop \/ Sleep
    BY <2>2 DEF PrintRow, Stop, Sleep
  <2>3. CASE SlowPoll
    BY <2>3 DEF SlowPoll, StartRound
  <2>4. CASE WakeUp
    <3>1. PICK late \in 0..MaxLate : StartRound(IF late = 0 THEN "slept" ELSE "late")
      BY <2>4 DEF WakeUp
    <3> QED
      BY <3>1, <2>4 DEF WakeUp, StartRound
  <2>5. CASE Interrupt
    <3>1. quitting' \in BOOLEAN
      BY <2>5, Zenon DEF Interrupt
    <3> QED
      BY <3>1, <2>5 DEF Interrupt, StartRound
  <2>6. CASE Done \/ UNCHANGED vars
    BY <2>6 DEF Done, vars
  <2> QED
    BY <2>1, <2>2, <2>3, <2>4, <2>5, <2>6 DEF Next, Loop
<1> QED
  BY <1>1, <1>2, PTL DEF Spec

\* nanosleep() is never asked for anything but a time of at most a period, and
\* the response time is what the call took, in full microseconds.
THEOREM ClockInvariant == Spec => []ClockInv
<1>1. LoopInv /\ AnswerInv /\ CountInv => TypeOK
  <2> SUFFICES ASSUME LoopInv, AnswerInv, CountInv PROVE TypeOK
    OBVIOUS
  <2>1. usec \in Nat
    BY Units, QuotientNat DEF LoopInv
  <2> QED
    BY <2>1 DEF LoopInv, AnswerInv, CountInv, TypeOK
<1>2. LoopInv => SleepIsValid
  BY ValidTimes DEF LoopInv, SleepIsValid
<1>3. LoopInv => UsecIsElapsed
  BY DEF LoopInv, UsecIsElapsed
<1>4. LoopInv /\ AnswerInv /\ CountInv => ClockInv
  BY <1>1, <1>2, <1>3 DEF ClockInv
<1> QED
  BY <1>4, InitLoop, NextLoop, AlwaysAnswers, AlwaysCounts, PTL DEF Spec
=============================================================================
