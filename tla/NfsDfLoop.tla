----------------------------- MODULE NfsDfLoop ------------------------------
(***************************************************************************)
(* The clock of a polling tool, and what its rows say: the main loop of    *)
(* src/src/df.c with one filehandle, in nanoseconds.  A round calls the    *)
(* server, prints a row, and sleeps for what the call left of the period.  *)
(* nfsping, nfsls, nfsmount and nfscat pace their rounds the same way.     *)
(***************************************************************************)
EXTENDS Times, Sizes

CONSTANTS
    Hertz,     \* the arguments of -H
    Answer,    \* the FSSTAT answers: tbytes, fbytes, tfiles, ffiles
    Epoch,     \* what the clock may show at first
    MaxCall,   \* bound on what a call takes, in nanoseconds
    MaxLate,   \* bound on how late nanosleep() wakes up
    MaxRounds  \* rounds of -c

ASSUME NfsDfLoopAssumption ==
    /\ Hertz \subseteq Nat
    /\ Epoch \subseteq Timespec
    /\ Answer \subseteq [tbytes : Size, fbytes : Size, tfiles : Size, ffiles : Size]
    /\ \A a \in Answer : a.fbytes <= a.tbytes /\ a.ffiles <= a.tfiles
    /\ {MaxCall, MaxLate, MaxRounds} \subseteq Nat

VARIABLES
    hertz, prefix,  \* the options -H and -b, -k, -m...
    now,            \* CLOCK_MONOTONIC
    pc,             \* where the loop is
    loop_start,     \* the start of the round
    sleepy,         \* what nanosleep() is asked for
    usec,           \* what the last call took
    fsstat,         \* its answer, in a set; empty if there was none
    df_sent, df_ok, \* calls, and answers
    quitting,       \* set by the signal handler
    took,           \* history: what the last call took, in nanoseconds
    pause,          \* history: how the last round ended
    gap             \* history: nanoseconds from its start to the next

vars == <<hertz, prefix, now, pc, loop_start, sleepy, usec, fsstat, df_sent,
          df_ok, quitting, took, pause, gap>>

Zero == [sec |-> 0, nsec |-> 0]

\* It does not support frequencies lower than 1 Hertz.
sleep_time ==
    IF hertz > 1 THEN [sec |-> 0, nsec |-> Billion \div hertz]
    ELSE [sec |-> 1, nsec |-> 0]

TypeOK ==
    /\ hertz \in Hertz /\ prefix \in Prefix
    /\ now \in Timespec /\ loop_start \in Timespec /\ sleepy \in Timespec
    /\ pc \in {"call", "print", "end", "sleep", "done"}
    /\ usec \in Nat /\ took \in Nat /\ gap \in Nat
    /\ df_sent \in Nat /\ df_ok \in Nat
    /\ fsstat \subseteq Answer
    /\ quitting \in BOOLEAN
    /\ pause \in {"none", "slow", "slept", "late", "interrupted"}

Init ==
    /\ hertz \in Hertz
    /\ prefix \in Prefix
    /\ now \in Epoch
    /\ pc = "call"
    /\ loop_start = now
    /\ sleepy = Zero
    /\ usec = 0
    /\ fsstat = {}
    /\ df_sent = 0 /\ df_ok = 0
    /\ quitting = FALSE
    /\ took = 0
    /\ pause = "none"
    /\ gap = 0

Span(ns) == [sec |-> ns \div Billion, nsec |-> ns % Billion]

\* get_fsstat() between the two readings of the clock.
Call ==
    /\ pc = "call"
    /\ took' \in 0..MaxCall
    /\ now' = timespecadd(now, Span(took'))
    /\ usec' = ts2us(timespecsub(now', now))
    /\ fsstat' \in {{}} \cup {{a} : a \in Answer}
    /\ df_sent' = df_sent + 1
    /\ df_ok' = IF fsstat' = {} THEN df_ok ELSE df_ok + 1
    /\ pc' = "print"
    /\ UNCHANGED <<hertz, prefix, loop_start, sleepy, quitting, pause, gap>>

\* The row is printed and the answer freed.
PrintRow ==
    /\ pc = "print"
    /\ fsstat' = {}
    /\ pc' = "end"
    /\ UNCHANGED <<hertz, prefix, now, loop_start, sleepy, usec, df_sent, df_ok,
                   quitting, took, pause, gap>>

loop_elapsed == timespecsub(now, loop_start)

Stopping == quitting \/ df_sent >= MaxRounds

Stop ==
    /\ pc = "end"
    /\ Stopping
    /\ pc' = "done"
    /\ UNCHANGED <<hertz, prefix, now, loop_start, sleepy, usec, fsstat, df_sent,
                   df_ok, quitting, took, pause, gap>>

StartRound(how) ==
    /\ pc' = "call"
    /\ loop_start' = now'
    /\ gap' = ts2ns(now') - ts2ns(loop_start)
    /\ pause' = how
    /\ UNCHANGED <<hertz, prefix, usec, fsstat, df_sent, df_ok, took>>

\* The round took longer than the period: the next one follows at once.
SlowPoll ==
    /\ pc = "end" /\ ~Stopping
    /\ timespeccmp(loop_elapsed, sleep_time)
    /\ UNCHANGED <<now, sleepy, quitting>>
    /\ StartRound("slow")

Sleep ==
    /\ pc = "end" /\ ~Stopping
    /\ ~timespeccmp(loop_elapsed, sleep_time)
    /\ sleepy' = timespecsub(sleep_time, loop_elapsed)
    /\ pc' = "sleep"
    /\ UNCHANGED <<hertz, prefix, now, loop_start, usec, fsstat, df_sent, df_ok,
                   quitting, took, pause, gap>>

\* nanosleep() turns down what is not a time, and does not sleep then.
Valid(ts) == ts.sec >= 0 /\ ts.nsec \in 0..(Billion - 1)

WakeUp ==
    /\ pc = "sleep"
    /\ \E late \in 0..MaxLate :
         /\ now' = IF Valid(sleepy)
                   THEN timespecadd(timespecadd(now, sleepy), Span(late)) ELSE now
         /\ StartRound(IF late = 0 THEN "slept" ELSE "late")
    /\ UNCHANGED <<sleepy, quitting>>

\* ^C; the sleep ends with it, wherever it was.
Interrupt ==
    /\ pc # "done"
    /\ ~quitting
    /\ quitting' = TRUE
    /\ IF pc = "sleep"
       THEN \E t \in 0..ts2ns(sleepy) :
              now' = timespecadd(now, Span(t)) /\ StartRound("interrupted")
       ELSE UNCHANGED <<hertz, prefix, now, pc, loop_start, usec, fsstat, df_sent,
                        df_ok, took, pause, gap>>
    /\ UNCHANGED sleepy

Loop == Call \/ PrintRow \/ Stop \/ SlowPoll \/ Sleep \/ WakeUp

Done == pc = "done" /\ UNCHANGED vars

Next == Loop \/ Interrupt \/ Done

Spec == Init /\ [][Next]_vars

-----------------------------------------------------------------------------
\* "This keeps us on the polling frequency": a round starts one period after
\* the one before, whatever the call took, if it took no longer and the sleep
\* was exact; it is never early, but for ^C, and only a slow call delays it by
\* more than the sleep was late.
KeepsFrequency ==
    LET period == ts2ns(sleep_time)
    IN /\ pause = "slept" => gap = period
       /\ pause = "slow" => gap > period
       /\ pause = "late" => gap \in (period + 1)..(period + MaxLate)

\* What nanosleep() is asked for is a time, and no longer than a period.
SleepIsValid ==
    pc = "sleep" => Valid(sleepy) /\ ts2ns(sleepy) <= ts2ns(sleep_time)

\* The time in a row is what the call took, in full microseconds, across the
\* seconds and on whichever side of one the call began.
UsecIsElapsed == usec = took \div Thousand

\* The clock of a round is sound.
ClockInv == TypeOK /\ SleepIsValid /\ UsecIsElapsed

\* A human readable size has less digits than ten times the step between the
\* units, and is off by less than a tenth.
HumanIsShortAndClose ==
    \A a \in fsstat : \A input \in {a.tbytes, a.fbytes, a.tbytes - a.fbytes} :
        LET printed == prefix_print(input, HUMAN) IN
        /\ printed.shifted < 10 * Kilo
        /\ Shown(printed, HUMAN) <= input
        /\ 10 * (input - Shown(printed, HUMAN)) <= input

\* The columns of a row agree: what is used and what is available add up to
\* the total, but for the one unit the two roundings may lose; nothing but an
\* empty column is printed as a bare zero; the capacity is a share.
RowAddsUp ==
    \A a \in fsstat :
        LET row == print_df(a, prefix)
            inodes == print_inodes(a)
        IN /\ prefix # HUMAN =>
                row.total.shifted - row.used.shifted - row.avail.shifted \in {0, 1}
           /\ row.avail.shifted = 0 /\ ~row.avail.greater <=> a.fbytes = 0
           /\ row.used.shifted = 0 /\ ~row.used.greater <=> a.fbytes = a.tbytes
           /\ row.capacity \subseteq 0..100
           /\ inodes.iused + inodes.ifree = inodes.inodes

\* The row of an answer says what the server said, in whichever units.
RowsAreRight == HumanIsShortAndClose /\ RowAddsUp
=============================================================================
