------------------------------- MODULE Poller -------------------------------
(***************************************************************************)
(* What a polling tool of this repository promises its user, independent   *)
(* of how it talks to the servers: it works in rounds; a round probes      *)
(* every target exactly once, in whatever order; it may end only between   *)
(* two rounds, after Count of them or because the user interrupted it; and *)
(* it reports success exactly when no probe was ever lost.                 *)
(*                                                                         *)
(* The promise is the one of man/nfsping.8.ronn: "send the specified       *)
(* number of requests to each target server and then exit", "return 0 if   *)
(* all requests to all targets received responses".                        *)
(***************************************************************************)
EXTENDS Naturals

CONSTANTS
    Target,   \* the targets named on the command line
    Count     \* rounds to run (-c, -C); 0 means until interrupted (-l)

VARIABLES
    round,        \* rounds started so far
    polled,       \* the targets already probed in this round
    lost,         \* TRUE once some probe went unanswered
    interrupted,  \* TRUE once the user asked the tool to stop
    verdict       \* "running", or what the tool told its user on exit

pollerVars == <<round, polled, lost, interrupted, verdict>>

Verdict == {"running", "success", "failure"}

PollerTypeOK ==
    /\ round \in Nat
    /\ polled \subseteq Target
    /\ lost \in BOOLEAN
    /\ interrupted \in BOOLEAN
    /\ verdict \in Verdict

PollerInit ==
    /\ round = 0
    /\ polled = Target
    /\ lost = FALSE
    /\ interrupted = FALSE
    /\ verdict = "running"

\* A round starts only once the previous one has reached every target, and
\* never beyond the count.
StartRound ==
    /\ verdict = "running"
    /\ polled = Target
    /\ Count = 0 \/ round < Count
    /\ round' = round + 1
    /\ polled' = {}
    /\ UNCHANGED <<lost, interrupted, verdict>>

\* Probe t, answered or not.
Probe(t) ==
    /\ verdict = "running"
    /\ t \notin polled
    /\ polled' = polled \cup {t}
    /\ lost' \in {lost, TRUE}
    /\ UNCHANGED <<round, interrupted, verdict>>

Interrupt ==
    /\ verdict = "running"
    /\ interrupted' = TRUE
    /\ UNCHANGED <<round, polled, lost, verdict>>

\* The tool ends after a complete round, and says whether anything was lost.
Finish ==
    /\ verdict = "running"
    /\ round > 0
    /\ polled = Target
    /\ interrupted \/ (Count > 0 /\ round = Count)
    /\ verdict' = IF lost THEN "failure" ELSE "success"
    /\ UNCHANGED <<round, polled, lost, interrupted>>

PollerNext ==
    \/ StartRound
    \/ \E t \in Target : Probe(t)
    \/ Interrupt
    \/ Finish

PollerSpec == PollerInit /\ [][PollerNext]_pollerVars
=============================================================================
