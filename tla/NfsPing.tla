------------------------------ MODULE NfsPing -------------------------------
(***************************************************************************)
(* The main loop of src/src/nfsping.c over the connections of RpcClient.   *)
(* Each round walks the target list once: connect if there is no client,   *)
(* call the NULL procedure, account for the answer or the loss, perhaps    *)
(* print an interval summary, perhaps disconnect.  Between rounds it looks *)
(* for Ctrl-c and for the count, and sleeps.  The process interleaves with *)
(* the servers and with SIGINT, which only sets a flag.                    *)
(***************************************************************************)
EXTENDS RpcClient

CONSTANTS
    NTargets,   \* length of the target list; Target = 1 .. NTargets
    Prog,       \* the program pinged (-n, -N, -L, ... default NFS)
    Count,      \* -c or -C; 0 with -l
    Format,     \* enum ping_outputs, from -C, -D, -E, -G
    Interval,   \* hertz * summary_interval, in rounds; 0 without -Q
    Reconnect,  \* FALSE with -R
    Rtt,        \* round trip times in microseconds
    ULONG_MAX,  \* what min starts from, larger than any time
    HistMax,    \* the largest value the histograms can record
    MaxRounds   \* bound on the rounds of -l, which the code does not limit

\* The fping format keeps min, max and all results, the others histograms.
Fping == Format = "fping"

\* Options nfsping refuses to start with are left out: -C implies a count,
\* and "Interval (-Q) too small for count!" unless Interval < Count.
ASSUME PingAssumption ==
    /\ NTargets \in Nat \ {0}
    /\ Target = 1 .. NTargets
    /\ Prog \in Program
    /\ Count \in Nat
    /\ Format \in {"ping", "fping", "unixtime", "graphite", "statsd"}
    /\ Fping => Count > 0
    /\ Interval \in Nat
    /\ Count > 0 => Interval < Count
    /\ Reconnect \in BOOLEAN
    /\ Rtt \subseteq Nat \ {0}
    /\ ULONG_MAX \in Nat
    /\ \A us \in Rtt : us < ULONG_MAX
    /\ HistMax \in Nat
    /\ MaxRounds \in Nat \ {0}

VARIABLES
    pc,            \* where main() is
    target,        \* position in the list; NTargets + 1 is the end (NULL)
    loop_count,    \* rounds started
    total_sent,    \* pings sent to all targets
    total_recv,    \* answers from all targets
    sent,          \* per target, since the last interval summary
    received,      \* likewise
    min,           \* likewise, smallest time (fping); ULONG_MAX if none
    max,           \* likewise, largest time (fping)
    histogram,     \* per target, number of values recorded since the start
    interval_histogram,  \* likewise since the last interval summary
    results,       \* per target, the array printed at exit (fping), 0 = lost
    overrun,       \* TRUE once results was written outside its bounds
    summary,       \* per target, the last interval summary printed, or NULL
    quitting,      \* set by sigint_handler()
    status,        \* "running", or the exit status
    answered,      \* history: per target, the rounds that were answered
    signalled,     \* history: rounds started when SIGINT came
    lost_stable    \* history: per target, pings lost since stable

pingVars ==
    <<pc, target, loop_count, total_sent, total_recv, sent, received, min, max,
      histogram, interval_histogram, results, overrun, summary, quitting, status,
      answered, signalled, lost_stable>>

vars == <<rpcVars, pingVars>>

\* What print_interval() shows of a target: the counts; the bounds it takes
\* from min and max, 0 if it prints none; and how many values are in the
\* histogram it takes percentiles from, 0 if it prints none.
Summary ==
    [sent : Nat, received : Nat, lower : Rtt \cup {0, ULONG_MAX},
     upper : Rtt \cup {0}, values : Nat]

TypeOK ==
    /\ RpcTypeOK
    /\ pc \in {"round", "target", "ping", "check", "sleep", "done"}
    /\ target \in 1 .. NTargets + 1
    /\ loop_count \in Nat
    /\ total_sent \in Nat
    /\ total_recv \in Nat
    /\ sent \in [Target -> Nat]
    /\ received \in [Target -> Nat]
    /\ min \in [Target -> Rtt \cup {ULONG_MAX}]
    /\ max \in [Target -> Rtt \cup {0}]
    /\ histogram \in [Target -> Nat]
    /\ interval_histogram \in [Target -> Nat]
    /\ results \in [Target -> [0 .. Count - 1 -> Rtt \cup {0}]]
    /\ overrun \in BOOLEAN
    /\ summary \in [Target -> Summary \cup {NULL}]
    /\ quitting \in BOOLEAN
    /\ status \in {"running", "success", "failure"}
    /\ answered \in [Target -> SUBSET Nat]
    /\ signalled \in Nat
    /\ lost_stable \in [Target -> Nat]

Init ==
    /\ RpcInit
    /\ pc = "round"
    /\ target = 1
    /\ loop_count = 0
    /\ total_sent = 0
    /\ total_recv = 0
    /\ sent = [t \in Target |-> 0]
    /\ received = [t \in Target |-> 0]
    /\ min = [t \in Target |-> ULONG_MAX]
    /\ max = [t \in Target |-> 0]
    /\ histogram = [t \in Target |-> 0]
    /\ interval_histogram = [t \in Target |-> 0]
    /\ results = [t \in Target |-> [i \in 0 .. Count - 1 |-> 0]]
    /\ overrun = FALSE
    /\ summary = [t \in Target |-> NULL]
    /\ quitting = FALSE
    /\ status = "running"
    /\ answered = [t \in Target |-> {}]
    /\ signalled = 0
    /\ lost_stable = [t \in Target |-> 0]

statVars ==
    <<total_sent, total_recv, sent, received, min, max, histogram,
      interval_histogram, results, overrun, summary, answered, lost_stable>>

-----------------------------------------------------------------------------
\* Top of the outer loop.
StartRound ==
    /\ pc = "round"
    /\ pc' = "target"
    /\ loop_count' = loop_count + 1
    /\ UNCHANGED <<rpcVars, target, statVars, quitting, status, signalled>>

\* Top of the inner loop: (re)connect if there is no client.
Connect ==
    /\ pc = "target"
    /\ pc' = "ping"
    /\ IF client[target] = NULL
       THEN create_rpc_client(target, Prog)
       ELSE UNCHANGED rpcVars
    /\ UNCHANGED <<target, loop_count, statVars, quitting, status, signalled>>

\* create_rpc_client() going on.
Connecting ==
    /\ RpcStep
    /\ UNCHANGED pingVars

\* It is time for target's interval summary.
IntervalEnds == Interval > 0 /\ loop_count % Interval = 0

\* Mutant: nothing is reset behind a summary.
NeverReset(f, reset) == f

\* A counter of the target after this ping: reset behind a summary.
AfterInterval(f, reset) == IF IntervalEnds THEN reset ELSE f

\* The summary of a target with these counters.  Times are printed only if
\* there was an answer: from min and max in the formats fping and unixtime,
\* from the interval histogram in ping and graphite, none in statsd.
print_interval(snt, rcv, lo, hi, values) ==
    LET extremes == rcv > 0 /\ Format \in {"fping", "unixtime"}
        quantiles == rcv > 0 /\ Format \in {"ping", "graphite"}
    IN  [sent     |-> snt,
         received |-> rcv,
         lower    |-> IF extremes THEN lo ELSE 0,
         upper    |-> IF extremes THEN hi ELSE 0,
         values   |-> IF quantiles THEN values ELSE 0]

\* Mutants: the extremes are not reset, or not kept between pings.
ExtremesNotReset(lo, hi) ==
    IF Fping
    THEN /\ min' = [min EXCEPT ![target] = lo]
         /\ max' = [max EXCEPT ![target] = hi]
    ELSE UNCHANGED <<min, max>>
\* Only the fping format maintains the extremes ...
StoreExtremes(lo, hi) ==
    IF Fping
    THEN /\ min' = [min EXCEPT ![target] = AfterInterval(lo, ULONG_MAX)]
         /\ max' = [max EXCEPT ![target] = AfterInterval(hi, 0)]
    ELSE UNCHANGED <<min, max>>

\* Mutant: the interval histogram is not reset.
ValuesNotReset(values) ==
    interval_histogram' =
        IF Fping THEN interval_histogram
        ELSE [interval_histogram EXCEPT ![target] = values]

\* ... and only the others the histogram of the interval.
StoreValues(values) ==
    interval_histogram' =
        IF Fping THEN interval_histogram
        ELSE [interval_histogram EXCEPT ![target] = AfterInterval(values, 0)]

\* Account for one ping of the target, whose counters are now these: print
\* the summary if it is time to, and reset them.
CountPing(rcv, lo, hi, values) ==
    /\ summary' = IF IntervalEnds
                  THEN [summary EXCEPT ![target] =
                          print_interval(sent[target] + 1, rcv, lo, hi, values)]
                  ELSE summary
    /\ total_sent' = total_sent + 1
    /\ sent' = [sent EXCEPT ![target] = AfterInterval(@ + 1, 0)]
    /\ received' = [received EXCEPT ![target] = AfterInterval(rcv, 0)]
    /\ StoreExtremes(lo, hi)
    /\ StoreValues(values)

\* How many values hdr_record_value() adds: it drops, without a word, a time
\* beyond the range of the histogram.
Recorded(us) == IF us <= HistMax /\ ~Fping THEN 1 ELSE 0

\* Mutant: the index is off by one.
ResultIndexAfter == total_sent + 1

\* Where an answer is stored for the -C line: total_sent - 1, once the ping
\* is counted.
ResultIndex == total_sent

\* An answer after us microseconds is counted and stored.
CountReply(us) ==
    LET t == target
        less == IF us < min[t] /\ Fping THEN us ELSE min[t]
        more == IF us > max[t] /\ Fping THEN us ELSE max[t]
    IN
    /\ total_recv' = total_recv + 1
    /\ histogram' = [histogram EXCEPT ![t] = @ + Recorded(us)]
    /\ IF Fping /\ ResultIndex < Count
       THEN results' = [results EXCEPT ![t][ResultIndex] = us]
       ELSE UNCHANGED results
    /\ overrun' = (overrun \/ (Fping /\ ResultIndex >= Count))
    /\ CountPing(received[t] + 1, less, more, interval_histogram[t] + Recorded(us))
    /\ answered' = [answered EXCEPT ![t] = @ \cup {loop_count}]
    /\ UNCHANGED lost_stable

\* A lost ping is counted as sent, whether or not there was a client to send
\* it over.
CountLoss ==
    LET t == target IN
    /\ CountPing(received[t], min[t], max[t], interval_histogram[t])
    /\ lost_stable' = IF stable THEN [lost_stable EXCEPT ![t] = @ + 1]
                      ELSE lost_stable
    /\ UNCHANGED <<total_recv, answered, histogram, results, overrun>>

\* Mutant: the client survives an error.
DisconnectIfAsked(answer) ==
    /\ IF Reconnect THEN destroy_rpc_client(target) ELSE UNCHANGED <<client, open>>
    /\ UNCHANGED <<sin_port, call, registry, stable, given>>

\* The client is destroyed after every error (the errno test, "== EPIPE ||
\* ECONNRESET", is always true) and, without -R, after every ping.
Disconnect(answer) ==
    /\ IF Reconnect \/ ~answer
       THEN destroy_rpc_client(target)
       ELSE UNCHANGED <<client, open>>
    /\ UNCHANGED <<sin_port, call, registry, stable, given>>

\* Mutant: a signal breaks off the round.
NextTargetUnlessQuitting ==
    /\ target' = target + 1
    /\ pc' = IF target = NTargets \/ quitting THEN "check" ELSE "target"
    /\ UNCHANGED <<loop_count, quitting, status, signalled>>

\* On to the next target, or to the end of the round.
NextTarget ==
    /\ target' = target + 1
    /\ pc' = IF target = NTargets THEN "check" ELSE "target"
    /\ UNCHANGED <<loop_count, quitting, status, signalled>>

\* The NULL call is answered.
PingAnswered ==
    /\ pc = "ping"
    /\ call = NULL
    /\ MayReply(target)
    /\ \E us \in Rtt : CountReply(us)
    /\ Disconnect(TRUE)
    /\ NextTarget

\* There is no connection, or the NULL call fails or times out.
PingLost ==
    /\ pc = "ping"
    /\ call = NULL
    /\ MayLose(target)
    /\ CountLoss
    /\ Disconnect(FALSE)
    /\ NextTarget

\* Mutants: one round too many; the signal is not looked at.
LoopOnceMore == ~quitting /\ (Count = 0 \/ loop_count <= Count)
LoopDeaf == Count = 0 \/ loop_count < Count

\* At the end of a round, is there another?
LoopAgain == ~quitting /\ (Count = 0 \/ loop_count < Count)

\* End of a round: go to sleep before the next one ...
Sleep ==
    /\ pc = "check"
    /\ LoopAgain
    /\ Count = 0 => loop_count < MaxRounds
    /\ pc' = "sleep"
    /\ UNCHANGED <<rpcVars, target, loop_count, statVars, quitting, status, signalled>>

\* Mutant: a sleep that the signal interrupts is begun again.
SleepAgain ==
    /\ pc = "sleep"
    /\ pc' = IF quitting THEN "sleep" ELSE "round"
    /\ target' = IF quitting THEN target ELSE 1
    /\ UNCHANGED <<rpcVars, loop_count, statVars, quitting, status, signalled>>

\* ... until nanosleep() returns, interrupted or not.
WakeUp ==
    /\ pc = "sleep"
    /\ pc' = "round"
    /\ target' = 1
    /\ UNCHANGED <<rpcVars, loop_count, statVars, quitting, status, signalled>>

\* End of the last round: the summary is printed and the process exits.
Exit ==
    /\ pc = "check"
    /\ ~LoopAgain
    /\ pc' = "done"
    /\ status' = IF total_recv < total_sent THEN "failure" ELSE "success"
    /\ UNCHANGED <<rpcVars, target, loop_count, statVars, quitting, signalled>>

Process ==
    \/ StartRound \/ Connect \/ Connecting \/ PingAnswered \/ PingLost
    \/ Sleep \/ WakeUp \/ Exit

\* Ctrl-c: sigint_handler() sets a flag.
sigint_handler ==
    /\ pc # "done"
    /\ ~quitting
    /\ quitting' = TRUE
    /\ signalled' = loop_count
    /\ UNCHANGED <<rpcVars, pc, target, loop_count, statVars, status>>

Servers ==
    /\ pc # "done"
    /\ Environment
    /\ UNCHANGED pingVars

\* The process has exited.
Exited ==
    /\ pc = "done"
    /\ UNCHANGED vars

Next == Process \/ sigint_handler \/ Servers \/ Exited

Spec == Init /\ [][Next]_vars

\* The process keeps running: every RPC returns, at the latest after the
\* timeout set with CLSET_TIMEOUT, and every sleep ends.
FairSpec == Spec /\ WF_vars(Process)

-----------------------------------------------------------------------------
\* Rounds in which t has been pinged.
RoundsOf(t) ==
    IF pc = "round" \/ t < target THEN loop_count ELSE loop_count - 1

\* Every target is pinged once per round, whoever else is down, and the
\* counter an interval summary prints covers the Interval pings since the
\* last one: never zero of them (print_interval() divides by it, "TODO check
\* for division by zero", nfsping.c:131) and never more.
SentCountsRounds ==
    \A t \in Target :
       sent[t] = IF Interval = 0 THEN RoundsOf(t) ELSE RoundsOf(t) % Interval

\* The rounds of t that the counters of the current interval are about.
ThisInterval(t) == (RoundsOf(t) - sent[t]) + 1 .. RoundsOf(t)

\* received, and the histogram behind a summary's percentiles, are about the
\* same pings as sent, also in the summary itself; the histogram printed at
\* exit has every answer, those of the reset intervals included.
AnswersAccountedFor ==
    \A t \in Target :
       /\ received[t] = Cardinality(answered[t] \cap ThisInterval(t))
       /\ ~Fping => /\ interval_histogram[t] = received[t]
                    /\ histogram[t] = Cardinality(answered[t])
       /\ summary[t] # NULL /\ Format \in {"ping", "graphite"} =>
             summary[t].values = summary[t].received

\* min and max of an interval summary (-C -Q) are about that interval only:
\* without an answer they are at their start values, else in order and taken
\* from measured times, as the summary shows them.
ExtremesAreOfInterval ==
    /\ Fping =>
       \A t \in Target :
          IF received[t] = 0 THEN min[t] = ULONG_MAX /\ max[t] = 0
          ELSE min[t] <= max[t] /\ {min[t], max[t]} \subseteq Rtt
    /\ \A t \in Target :
          (Fping /\ summary[t] # NULL /\ summary[t].received > 0) =>
             /\ summary[t].lower <= summary[t].upper
             /\ {summary[t].lower, summary[t].upper} \subseteq Rtt

\* The -C line print_summary() ends with: for each of total_sent places, is
\* a time shown?  Places beyond the array show whatever memory holds.
SummaryLine(t) ==
    {line \in [0 .. total_sent - 1 -> BOOLEAN] :
        \A i \in 0 .. total_sent - 1 : i < Count => line[i] = (results[t][i] # 0)}

\* At exit a target's -C line has one place for each ping sent to it, with a
\* time exactly for those it answered ("Missed responses are indicated with
\* a dash (-) in the summary output", md/nfsping.md:155), also when Ctrl-c
\* cut the run short.
SummaryShowsPings ==
    (Fping /\ pc = "done") =>
       \A t \in Target :
          SummaryLine(t) = {[i \in 0 .. loop_count - 1 |-> i + 1 \in answered[t]]}

\* calloc(count) entries per target are enough for the results of -C
\* (util.c:303 "allocate space for printing out a summary of all ping times
\* at the end").
ResultsInBounds == ~overrun

\* After Ctrl-c at most one more round is started (the one a Ctrl-c during
\* the sleep lets through), however long the rounds take.
StopsSoonAfterSignal == quitting => loop_count <= signalled + 1

\* Once servers and network are well again, a target that listens on the
\* port nfsping has for it loses no more than the ping that finds its old
\* connection dead.
RecoversAfterOutage ==
    \A t \in Target :
       (stable /\ registry[t][Prog] \in Port /\ sin_port[t] = registry[t][Prog])
          => lost_stable[t] <= 1

\* man/nfsping.8.ronn:92, -R: "Disable this behaviour and maintain the
\* connection(s)": over UDP, where no connection can break, a client stays.
ConnectionsMaintained ==
    [][\A t \in Target :
          (~Reconnect /\ ~Tcp /\ client[t] # NULL) => client'[t] = client[t]]_vars

\* With -c or -C the process ends by itself, whatever the servers do.
CountTerminates == Count > 0 => <>(pc = "done")

\* Ctrl-c ends the process, in any mode (md/nfsping.md:105), whatever the
\* servers do.
SignalTerminates == quitting ~> (pc = "done")

\* How far the round has come, and how far the target or the pause.
Position == IF pc = "round" THEN NTargets + 2 ELSE target

Stage ==
    IF pc = "ping" THEN IF call = NULL THEN 3 ELSE IF call.step = "connect" THEN 2 ELSE 1
    ELSE IF pc \in {"sleep", "done"} THEN 1 ELSE 0

\* No step of the process is in vain, and none is taken twice: whatever the
\* servers and the user do, it comes to the next stage of a ping, to the next
\* target or to the next round.  Nothing is retried within a round, so a round
\* ends, and with the bounds on the rounds (-c, Ctrl-c) the process does.
EveryStepMovesOn ==
    [][Process =>
          \/ loop_count' > loop_count
          \/ loop_count' = loop_count /\ Position' > Position
          \/ loop_count' = loop_count /\ Position' = Position /\ Stage' > Stage]_vars

-----------------------------------------------------------------------------
\* Where main() can be: the position in the list and the rounds agree with
\* pc, and rpc.c only runs for the target being pinged.
ControlInv ==
    /\ pc = "round" => target = 1
    /\ pc \in {"target", "ping"} => target <= NTargets
    /\ pc \in {"check", "sleep", "done"} => target = NTargets + 1
    /\ pc # "round" => loop_count > 0
    /\ Count > 0 => loop_count <= Count
    /\ pc \in {"round", "sleep"} => Count = 0 \/ loop_count < Count
    /\ call # NULL => pc = "ping" /\ call.target = target /\ call.prog = Prog

\* No answer is counted that was not asked for, and the exit status is the
\* one the counters call for.
VerdictInv ==
    /\ total_recv <= total_sent
    /\ status = IF pc # "done" THEN "running"
                ELSE IF total_recv < total_sent THEN "failure" ELSE "success"

\* A signal lets a round start only if it came between two rounds.
SignalInv ==
    quitting => /\ signalled <= loop_count
                /\ loop_count <= signalled + 1
                /\ pc \in {"round", "sleep"} => loop_count = signalled

\* The inductive invariant of the main loop: with the facts about rpc.c it
\* says when a round may start, when the process may end, and with what
\* status.
PingInv == TypeOK /\ RpcInv /\ ControlInv /\ VerdictInv /\ SignalInv

(***************************************************************************)
(* nfsping is a poller.                                                    *)
(***************************************************************************)
Polled == IF pc = "round" THEN Target ELSE {t \in Target : t < target}

P == INSTANCE Poller WITH
        round <- loop_count,
        polled <- Polled,
        lost <- total_recv < total_sent,
        interrupted <- quitting,
        verdict <- status

\* Every run of the main loop is one that Poller allows: whole rounds, all
\* targets in each, the number of rounds asked for, and exit status 0 exactly
\* when no ping was lost (man/nfsping.8.ronn:117).
ImplementsPoller == P!PollerSpec
=============================================================================
