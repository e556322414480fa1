------------------------------- MODULE FhTool -------------------------------
(***************************************************************************)
(* What nfsls, nfsdf, nfscat and nfslock have in common: they read the     *)
(* options, then lines of JSON from stdin, and then walk through the       *)
(* targets and the filehandles of each, connecting to a target when its    *)
(* turn comes.  The modules NfsLs, NfsDf, NfsCat and NfsLock say what is   *)
(* particular to each; FhTools puts them together.                         *)
(***************************************************************************)
EXTENDS TargetList

CONSTANTS
    Name,        \* names of servers and components of paths
    Lines,       \* the lines stdin may hold, as parse_fh() sees them
    MaxLines,    \* bound on their number
    Number,      \* the arguments of -c and -C
    Hertz,       \* the arguments of -H
    MaxOptions,  \* bound on the options of a command line
    MaxRounds    \* bound on what would go on for ever

ASSUME FhToolAssumption ==
    /\ Lines \subseteq [ip : Addr \cup {NULL}, host : Name \cup {NULL},
                        path : PathOf(Name) \cup {NULL}, kind : {"dir", "file"},
                        fh : BOOLEAN]
    /\ Number \subseteq Nat /\ Hertz \subseteq Nat
    /\ {MaxLines, MaxOptions, MaxRounds} \subseteq Nat

VARIABLES
    tool,      \* the program that runs
    pc,        \* where its main() is
    cfg,       \* its options
    lines,     \* lines read so far
    at,        \* the target and the filehandle whose turn it is
    quitting,  \* set by the signal handler
    sent,      \* requests, ls_sent and df_sent; the rounds of nfslock
    ok,        \* ls_ok, df_ok
    round,     \* history: rounds started
    again,     \* history: changes with each answer that brought nothing, so
               \* that the same request is sent again
    exit       \* "running", or how main() ended

fhVars == <<targets, tool, pc, cfg, lines, at, quitting, sent, ok, round, again, exit>>

\* The options that the tools have between them.
NoOptions ==
    [count |-> 0, loop |-> FALSE, format |-> "unset", prefix |-> "NONE",
     results |-> 0, listdir |-> FALSE, header |-> FALSE, blocksize |-> 1,
     hertz |-> 10, optind |-> 0, fatal |-> FALSE]

Fatal(c) == [c EXCEPT !.fatal = TRUE]

\* -h, -b, -g, -k, -m and -t choose a unit, once; -b stands for the others.
ParseUnit(c, unit) ==
    IF c.prefix # "NONE" THEN Fatal(c) ELSE [c EXCEPT !.prefix = unit]

Flag(letters) == [letter : letters, arg : {0}]

WithNumber(letters) == [letter : letters, arg : Number]

WithHertz == [letter : {"H"}, arg : Hertz]

Tools == {"nfsls", "nfsdf", "nfscat", "nfslock"}

Options ==
    [count : Nat, loop : BOOLEAN,
     format : {"unset", "ping", "fping", "longform", "json", "graphite"},
     prefix : {"NONE", "BYTE", "HUMAN"}, results : Nat, listdir : BOOLEAN,
     header : BOOLEAN, blocksize : Nat, hertz : Nat, optind : Nat,
     fatal : BOOLEAN]

FhTarget == TargetOf(Name \cup {NULL}, {}, FilehandleOf(Name))

FhTypeOK ==
    /\ targets \in Seq(FhTarget)
    /\ tool \in Tools
    /\ pc \in {"getopt", "read", "walk", "ended"}
    /\ cfg \in Options
    /\ at \in (Nat \ {0}) \X (Nat \ {0})
    /\ {quitting, again} \subseteq BOOLEAN
    /\ {lines, sent, round} \subseteq Nat
    /\ ok \in 0..sent
    /\ exit \in {"running", "success", "failure", "returned", "usage",
                "killed", "crashed", "undefined"}

\* nfslock starts with a count of 1.
FhInit ==
    /\ targets = <<>>
    /\ tool \in Tools
    /\ pc = "getopt"
    /\ cfg = [NoOptions EXCEPT !.count = IF tool = "nfslock" THEN 1 ELSE 0]
    /\ lines = 0
    /\ at = <<1, 1>>
    /\ quitting = FALSE
    /\ sent = 0
    /\ ok = 0
    /\ round = 0
    /\ again = FALSE
    /\ exit = "running"

End(status) ==
    /\ pc' = "ended"
    /\ exit' = status

\* One turn of the getopt() loop of tool t; what the option may make of cfg.
GetOption(t, parsed) ==
    /\ pc = "getopt"
    /\ tool = t
    /\ cfg.optind < MaxOptions
    /\ \E c \in parsed :
         /\ cfg' = [c EXCEPT !.optind = @ + 1]
         /\ IF c.fatal THEN End("usage") ELSE UNCHANGED <<pc, exit>>
    /\ UNCHANGED <<targets, tool, lines, at, quitting, sent, ok, round, again>>

\* Behind the loop: the defaults.  The pause divides by the frequency.
EndOfOptions(t, defaults) ==
    /\ pc = "getopt"
    /\ tool = t
    /\ cfg' = defaults
    /\ IF cfg.hertz = 0 THEN End("crashed") ELSE pc' = "read" /\ UNCHANGED exit
    /\ UNCHANGED <<targets, tool, lines, at, quitting, sent, ok, round, again>>

\* A line of stdin.  Reading a target that was freed has no defined outcome.
ReadLine ==
    /\ pc = "read"
    /\ lines < MaxLines
    /\ \E line \in Lines :
         IF line.ip # NULL /\ ReadsFreed(targets, line.ip)
         THEN End("undefined") /\ UNCHANGED targets
         ELSE /\ targets' = parse_fh(targets, line, cfg.results)
              /\ UNCHANGED <<pc, exit>>
    /\ lines' = lines + 1
    /\ UNCHANGED <<tool, cfg, at, quitting, sent, ok, round, again>>

EndOfInput ==
    /\ pc = "read"
    /\ pc' = "walk"
    /\ round' = 1
    /\ UNCHANGED <<targets, tool, cfg, lines, at, quitting, sent, ok, again, exit>>

-----------------------------------------------------------------------------
Current == targets[at[1]]

fh == Current.filehandles[at[2]]

\* The list goes on at at[1].
Walking(t) ==
    /\ tool = t
    /\ pc = "walk"
    /\ at[1] <= Len(targets)
    /\ UNCHANGED <<tool, cfg, lines, quitting, round>>

\* The walk comes to a target that was freed.
ReachFreed ==
    /\ \E t \in Tools : Walking(t)
    /\ Current.freed
    /\ End("undefined")
    /\ UNCHANGED <<targets, at, sent, ok, again>>

Connecting(t) ==
    /\ Walking(t)
    /\ ~Current.freed
    /\ ~Current.client
    /\ UNCHANGED <<ok, again>>

Connect(t) ==
    /\ Connecting(t)
    /\ targets' = [targets EXCEPT ![at[1]].client = TRUE]
    /\ UNCHANGED <<at, sent, pc, exit>>

\* nfsls, nfsdf and nfscat replace the authentication of the client they got
\* before they look whether they got one.
NoClientCrash(t) ==
    /\ Connecting(t)
    /\ End("crashed")
    /\ UNCHANGED <<targets, at, sent>>

Calling(t) ==
    /\ Walking(t)
    /\ ~Current.freed
    /\ Current.client

\* Mutant: Ctrl-c leaves the round half way.
NextFilehandleUnlessQuitting ==
    at' = IF at[2] < Len(Current.filehandles) /\ ~quitting THEN <<at[1], at[2] + 1>>
          ELSE <<at[1] + 1, 1>>

\* The next filehandle, or the next target's first.
NextFilehandle ==
    at' = IF at[2] < Len(Current.filehandles) THEN <<at[1], at[2] + 1>>
          ELSE <<at[1] + 1, 1>>

\* Only the first filehandle of the first target is looked at.
MoreToSend == targets[1].filehandles[1].sent < cfg.count

Success == sent # 0 /\ sent = ok

\* Mutant: the sleep between rounds starts again whenever it ends.
EndOfRoundAsleep(t) ==
    /\ tool = t
    /\ pc = "walk"
    /\ at[1] > Len(targets)
    /\ UNCHANGED fhVars

\* The round of nfsls and nfsdf is over.  With a count they look at the first
\* target, whether there is one or not.
EndOfRound(t) ==
    /\ tool = t
    /\ pc = "walk"
    /\ at[1] > Len(targets)
    /\ IF ~quitting /\ ~cfg.loop /\ cfg.count # 0 /\ targets = <<>>
       THEN End("crashed") /\ UNCHANGED <<at, round>>
       ELSE IF ~quitting /\ (cfg.loop \/ (cfg.count # 0 /\ MoreToSend))
       THEN /\ cfg.loop => round < MaxRounds
            /\ at' = <<1, 1>>
            /\ round' = round + 1
            /\ UNCHANGED <<pc, exit>>
       ELSE /\ End(IF Success THEN "success" ELSE "failure")
            /\ UNCHANGED <<at, round>>
    /\ UNCHANGED <<targets, tool, cfg, lines, quitting, sent, ok, again>>

\* SIGINT: nfsls and nfsdf catch it, but not before their main loop.
Interrupt ==
    /\ pc \in {"read", "walk"}
    /\ ~quitting
    /\ IF tool \in {"nfsls", "nfsdf"} /\ pc = "walk"
       THEN quitting' = TRUE /\ UNCHANGED <<pc, exit>>
       ELSE End("killed") /\ UNCHANGED quitting
    /\ UNCHANGED <<targets, tool, cfg, lines, at, sent, ok, round, again>>
=============================================================================
