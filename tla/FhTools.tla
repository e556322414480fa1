------------------------------ MODULE FhTools -------------------------------
(***************************************************************************)
(* nfsls, nfsdf, nfscat or nfslock, behind whatever wrote its input, and   *)
(* the properties of them.                                                 *)
(***************************************************************************)
EXTENDS NfsLs, NfsDf, NfsCat, NfsLock

vars == <<fhVars, catVars, lockVars>>

TypeOK ==
    /\ FhTypeOK
    /\ offset \in 0..Size
    /\ output \in Seq((Nat \ {0}) \X (Nat \ {0}) \X (1..Size))
    /\ status \in Stat \cup {0, NoAnswer}
    /\ nodename \in 0..Len(targets)

Init ==
    /\ FhInit
    /\ offset = 0
    /\ output = <<>>
    /\ failed = {}
    /\ status = 0
    /\ nodename = 0
    /\ sentAs = {}

\* What the tools do alike.
Common ==
    /\ ReadLine \/ EndOfInput \/ ReachFreed
    /\ UNCHANGED <<catVars, lockVars>>

Process ==
    \/ Common
    \/ (LsNext \/ DfNext) /\ UNCHANGED <<catVars, lockVars>>
    \/ CatNext /\ UNCHANGED lockVars
    \/ LockNext /\ UNCHANGED catVars

User == Interrupt /\ UNCHANGED <<catVars, lockVars>>

Ended == pc = "ended" /\ UNCHANGED vars

Next == Process \/ User \/ Ended

Spec == Init /\ [][Next]_vars

\* The process runs; stdin ends because it has at most MaxLines lines.
FairSpec == Spec /\ WF_vars(Process)

-----------------------------------------------------------------------------
Filehandles ==
    UNION {{i} \X DOMAIN targets[i].filehandles : i \in DOMAIN targets}

FhAt(p) == targets[p[1]].filehandles[p[2]]

Reported == exit \in {"success", "failure"}

Polls == tool \in {"nfsls", "nfsdf"}

\* A line never takes away or reorders what earlier lines gave, whichever
\* target it is for, and nor does anything later: parse_fh() only appends.
FilehandlesAreKept ==
    [][\A i \in DOMAIN targets :
          /\ i \in DOMAIN targets'
          /\ targets'[i].ip = targets[i].ip
          /\ \A j \in DOMAIN targets[i].filehandles :
                /\ j \in DOMAIN targets'[i].filehandles
                /\ targets'[i].filehandles[j].given = targets[i].filehandles[j].given
      ]_vars

\* nfsls and nfsdf return 0 only if every filehandle was asked in every round
\* and, as nfsls counts for each, answered: the totals and the counters of
\* the filehandles agree.
SuccessMeansAllAnswered ==
    Polls /\ exit = "success" =>
        /\ Filehandles # {}
        /\ \A p \in Filehandles :
              /\ FhAt(p).sent = round
              /\ tool = "nfsls" => FhAt(p).received = round

\* "Count of requests to send to each input filehandle": every one gets
\* exactly that many, although the loop looks at the first one only.
CountIsExact ==
    Polls /\ Reported /\ cfg.count # 0 /\ ~cfg.loop /\ ~quitting =>
        \A p \in Filehandles : FhAt(p).sent = cfg.count

\* nfsls -C: each response time has its place in the array that was made for
\* the count.  (Not with -l, which stores them without having made one.)
ResultsInBounds ==
    tool = "nfsls" /\ cfg.format = "fping" =>
        \A p \in Filehandles : FhAt(p).sent <= FhAt(p).results

\* The mean of nfsls is a number as long as no listing of this filehandle
\* failed; the first failure may make it infinite for good.
AverageIsReal ==
    tool = "nfsls" =>
        \A p \in Filehandles :
            FhAt(p).sent > 0 /\ FhAt(p).sent = FhAt(p).received =>
                FhAt(p).avg = "real"

\* In the first round a single file is listed under the name it has in the
\* path that was read, with or without a trailing slash.
NamedAsRead ==
    \A p \in Filehandles :
        FhAt(p).sent = 1 /\ FhAt(p).name # NULL =>
            FhAt(p).name = basename(FhAt(p).given)

\* The blocks of a file that nfscat wrote.
WrittenOf(p) ==
    {output[k][3] : k \in {l \in DOMAIN output :
                            output[l][1] = p[1] /\ output[l][2] = p[2]}}

\* No block is written twice or out of order, and none of one file into
\* another one.
WrittenInOrder ==
    \A k \in 2..Len(output) :
        LET same == output[k][1] = output[k - 1][1] /\ output[k][2] = output[k - 1][2]
        IN IF same THEN output[k][3] = output[k - 1][3] + 1
           ELSE \/ output[k][1] > output[k - 1][1]
                \/ /\ output[k][1] = output[k - 1][1]
                   /\ output[k][2] > output[k - 1][2]

\* Unless a read failed or the server said early that this was the end, the
\* first file of each server is written whole, however short the reads were.
\* (The ones behind it start where it ended.)
FirstFileIsWhole ==
    tool = "nfscat" /\ exit = "success" /\ cfg.count = 0 =>
        \A p \in Filehandles :
            p[2] = 1 /\ p \notin failed => WrittenOf(p) = 1..Size

\* nfscat writes a file in one piece and in order, and the first one of each
\* server from its first byte to its last.
FilesAreWhole == WrittenInOrder /\ FirstFileIsWhole

\* nfslock asks every filehandle of a server it is connected to once per
\* round: none is left out for the answer another one got.
LockAsksAll ==
    tool = "nfslock" /\ at[1] > Len(targets) =>
        \A p, q \in Filehandles :
            p[1] = q[1] => FhAt(p).sent = FhAt(q).sent /\ FhAt(p).sent <= round

\* A request for a server goes out under that server's name, in the first
\* round.  (The name is kept in one variable for all of them.)
NamedInFirstRound == round = 1 => sentAs = {}

\* What holds of the target list, the counters, the results of -C, the mean,
\* the names and the exit status, whatever the input and the servers.
FhToolsInv ==
    /\ TypeOK
    /\ OneTargetPerAddress
    /\ SuccessMeansAllAnswered
    /\ CountIsExact
    /\ ResultsInBounds
    /\ AverageIsReal
    /\ NamedAsRead
    /\ LockAsksAll
    /\ NamedInFirstRound

-----------------------------------------------------------------------------
\* nfsls and nfsdf in the terms of Rounds; the other tools never begin there.

Begun == Polls /\ pc \in {"walk", "ended"} /\ round > 0

Asked ==
    IF Begun
    THEN [i \in DOMAIN targets |->
            [j \in DOMAIN targets[i].filehandles |-> targets[i].filehandles[j].sent]]
    ELSE <<>>

Goal ==
    IF ~Begun \/ cfg.loop THEN 0
    ELSE IF cfg.count = 0 THEN 1 ELSE cfg.count

Verdict == IF Polls /\ Reported THEN exit ELSE "running"

R == INSTANCE Rounds WITH
        asked <- Asked, goal <- Goal, stopping <- quitting,
        lost <- Begun /\ ok < sent, verdict <- Verdict

\* nfsls and nfsdf implement Rounds; a crash, which Rounds does not know,
\* is a tool that never reports.
ImplementsRounds == R!RoundsSpec

Phase == [getopt |-> 1, read |-> 2, walk |-> 3, ended |-> 4]

\* How far main() is: in the options, in its input, in the rounds, in the
\* list and, in nfscat, in the file.
Progress ==
    <<Phase[pc], round, cfg.optind, lines, at[1], at[2],
      IF pc = "walk" /\ at[1] <= Len(targets) /\ Current.client THEN 1 ELSE 0,
      offset>>

\* Each step comes to the next option, line, target, filehandle, block or
\* round and none goes back to an earlier one: no tool asks for the same thing
\* twice in a round, unless the answer brought nothing and was not the end.
EveryStepMovesOn ==
    [][Process => Further(Progress', Progress) \/ again' # again]_vars

Terminates == (pc = "walk" /\ ~cfg.loop) ~> (pc = "ended")

SignalTerminates == quitting ~> (pc = "ended")

\* An answer after which nfsls, or nfscat without a count, is where it was.
AskedAgain ==
    /\ again' # again
    /\ tool = "nfsls" \/ (tool = "nfscat" /\ cfg.count = 0)

\* Without a loop every tool ends, and Ctrl-c ends nfsls and nfsdf behind the
\* round it finds.  The one exception is a server that goes on for ever giving
\* nfsls or nfscat answers that bring nothing: neither counts them, and nfsls
\* does not look at quitting inside a listing.
Ends == (Terminates /\ SignalTerminates) \/ []<><<AskedAgain>>_vars
=============================================================================
