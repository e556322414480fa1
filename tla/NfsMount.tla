----------------------------- MODULE NfsMount ------------------------------
(***************************************************************************)
(* src/src/mount.c: look up the filehandles of the exports of some servers *)
(* (MNT), once, a number of times or for ever, and remove the entry this   *)
(* leaves in the server's list of mounted clients (UMNT).  With -e only    *)
(* the list of exports is printed.                                         *)
(*                                                                         *)
(* A reply that does not come crashes the tool: mountproc_mnt_x() and      *)
(* get_exports() use the result before they look whether it is NULL.       *)
(*                                                                         *)
(* Left out: times and their statistics, the text of the output, -q, -S,   *)
(* -T, -v and the versions of the protocol, which are handled alike.       *)
(***************************************************************************)
EXTENDS TargetList

CONSTANTS
    Path,         \* paths of exports
    Argument,     \* [ip, name, addrs, path]: host:path on the command line
    ExportList,   \* what a server may answer to EXPORT: sequences of paths
    Number,       \* the arguments of -c and -C
    Hertz,        \* the arguments of -H
    MaxOptions,   \* bound on the options of a command line
    MaxArguments, \* bound on its targets
    MaxRounds     \* bound on the rounds where they would go on for ever: with
                  \* -l, or once the first target was missed

ASSUME NfsMountAssumption ==
    /\ NULL \notin Path /\ NULL \notin Argument
    /\ \A a \in Argument :
          /\ a.path \in Path \cup {NULL}
          /\ a.addrs \in Seq(Addr)
          /\ a.ip \in BOOLEAN
    /\ ExportList \subseteq Seq(Path)
    /\ Number \subseteq Nat /\ Hertz \subseteq Nat
    /\ {MaxOptions, MaxArguments, MaxRounds} \subseteq Nat

VARIABLES
    pc,        \* where main() is
    cfg,       \* the options
    arg,       \* the argument make_target() works on
    at,        \* the target and the export whose turn it is
    quitting,  \* set by the signal handler
    sent,      \* exports_sent
    ok,        \* exports_ok
    exit,      \* "running", or how main() ended
    mounted,   \* the servers' lists of mounted clients: <<address, path>>
    round,     \* history: rounds started
    outage,    \* history: TRUE once a connection could not be made
    missed,    \* history: rounds the first target could not be connected in
    stray      \* history: TRUE once a UMNT was lost

vars == <<targets, pc, cfg, arg, at, quitting, sent, ok, exit, mounted, round,
          outage, missed, stray>>

Letter == {"A", "c", "C", "d", "D", "e", "E", "G", "H", "J", "l", "m", "R", "u"}

Option == [letter : Letter \ {"c", "C", "H"}, arg : {0}] \cup
          [letter : {"c", "C"}, arg : Number] \cup [letter : {"H"}, arg : Hertz]

CONFIG_DEFAULT ==
    [format |-> "unset", count |-> 0, dns |-> FALSE, ip |-> FALSE,
     loop |-> FALSE, multiple |-> FALSE, reconnect |-> TRUE, unmount |-> TRUE,
     hertz |-> 10, optind |-> 0, fatal |-> FALSE]

Fatal(c) == [c EXCEPT !.fatal = TRUE]

\* The formats each option may find, and the one it leaves behind.
FormatsBefore ==
    [c |-> {"unset", "ping", "unixtime", "json", "graphite", "statsd"},
     C |-> {"unset", "fping"}, D |-> {"unset", "unixtime", "ping"},
     e |-> {"unset", "showmount"}, E |-> {"unset", "statsd", "ping"},
     G |-> {"unset", "graphite", "ping"}, J |-> {"unset", "json", "ping"}]

FormatAfter ==
    [C |-> "fping", D |-> "unixtime", e |-> "showmount", E |-> "statsd",
     G |-> "graphite", J |-> "json"]

\* The formats whose count -l refuses to loop on.
Counted == {"ping", "unixtime", "fping"}

\* One turn of the getopt() loop.
ParseOption(c, o) ==
    LET l == o.letter
        clash == l \in DOMAIN FormatsBefore /\ c.format \notin FormatsBefore[l]
    IN IF clash THEN Fatal(c) ELSE
       CASE l = "A" -> IF c.dns THEN Fatal(c) ELSE [c EXCEPT !.ip = TRUE]
         [] l \in {"c", "C"} ->
              IF c.loop \/ o.arg = 0 THEN Fatal(c)
              ELSE [c EXCEPT !.count = o.arg,
                             !.format = IF l = "C" THEN "fping"
                                        ELSE IF @ = "unset" THEN "ping" ELSE @]
         [] l = "d" -> IF c.ip /\ ~c.multiple THEN Fatal(c)
                       ELSE [c EXCEPT !.ip = FALSE, !.dns = TRUE]
         [] l \in {"D", "e", "E", "G", "J"} -> [c EXCEPT !.format = FormatAfter[l]]
         [] l = "H" -> [c EXCEPT !.hertz = o.arg]
         [] l = "l" ->
              IF c.count # 0 /\ c.format \in Counted THEN Fatal(c)
              ELSE [c EXCEPT !.loop = TRUE,
                             !.format = IF c.count = 0 /\ @ = "unset"
                                        THEN "ping" ELSE @]
         [] l = "m" -> [c EXCEPT !.multiple = TRUE,
                                 !.ip = IF c.dns THEN @ ELSE TRUE]
         [] l = "R" -> [c EXCEPT !.reconnect = FALSE]
         [] l = "u" -> [c EXCEPT !.unmount = FALSE]

Options ==
    [format : Counted \cup {"unset", "json", "graphite", "statsd", "showmount"},
     count : Nat, dns : BOOLEAN, ip : BOOLEAN, loop : BOOLEAN,
     multiple : BOOLEAN, reconnect : BOOLEAN, unmount : BOOLEAN, hertz : Nat,
     optind : Nat, fatal : BOOLEAN]

\* What a target may be called.
HostName ==
    {a.name : a \in Argument} \cup Addr \cup {<<"name of", a>> : a \in HasName}
        \cup {NULL}

TypeOK ==
    /\ targets \in Seq(TargetOf(HostName, ExportOf(Path), {}))
    /\ pc \in {"getopt", "arguments", "addresses", "lookup", "main", "ended"}
    /\ cfg \in Options
    /\ arg \in Argument \cup {NULL}
    /\ at \in (Nat \ {0}) \X (Nat \ {0})
    /\ quitting \in BOOLEAN
    /\ {sent, round, missed} \subseteq Nat
    /\ ok \in 0..sent
    /\ exit \in {"running", "success", "failure", "dns", "usage", "crashed"}
    /\ mounted \subseteq Addr \X Path
    /\ outage \in BOOLEAN /\ stray \in BOOLEAN

Init ==
    /\ targets = <<>>
    /\ pc = "getopt"
    /\ cfg = CONFIG_DEFAULT
    /\ arg = NULL
    /\ at = <<1, 1>>
    /\ quitting = FALSE
    /\ sent = 0
    /\ ok = 0
    /\ exit = "running"
    /\ mounted = {}
    /\ round = 0
    /\ outage = FALSE
    /\ missed = 0
    /\ stray = FALSE

End(status) ==
    /\ pc' = "ended"
    /\ exit' = status

-----------------------------------------------------------------------------
\* The getopt() loop.
GetOption ==
    /\ pc = "getopt"
    /\ cfg.optind < MaxOptions
    /\ \E o \in Option :
         LET c == ParseOption(cfg, o)
         IN /\ cfg' = [c EXCEPT !.optind = @ + 1]
            /\ IF c.fatal THEN End("usage") ELSE UNCHANGED <<pc, exit>>
    /\ UNCHANGED <<targets, arg, at, quitting, sent, ok, mounted, round, outage, missed, stray>>

\* Behind it: the default format.  The pause between rounds divides by the
\* frequency.
EndOfOptions ==
    /\ pc = "getopt"
    /\ cfg' = [cfg EXCEPT !.format = IF @ = "unset" THEN "json" ELSE @]
    /\ IF cfg.hertz = 0 THEN End("crashed")
       ELSE pc' = "arguments" /\ UNCHANGED exit
    /\ UNCHANGED <<targets, arg, at, quitting, sent, ok, mounted, round, outage, missed, stray>>

\* The next argument; at[1] counts them.
AddArgument ==
    /\ pc = "arguments"
    /\ at[1] <= MaxArguments
    /\ arg' \in Argument
    /\ IF arg'.path # NULL /\ cfg.format = "showmount" THEN End("usage")
       ELSE IF LookupFails(arg', cfg) THEN End("dns")
       ELSE pc' = "addresses" /\ UNCHANGED exit
    /\ UNCHANGED <<targets, cfg, at, quitting, sent, ok, mounted, round,
                   outage, missed, stray>>

\* make_target(): the next address of the argument; at[2] counts them.
\* Without -m only the first one is used.
AddAddress ==
    /\ pc = "addresses"
    /\ targets' = WithAddress(targets, arg, arg.addrs[at[2]], cfg, arg.path, cfg.count)
    /\ IF cfg.multiple /\ at[2] < Len(arg.addrs)
       THEN at' = <<at[1], at[2] + 1>> /\ UNCHANGED <<pc, arg>>
       ELSE at' = <<at[1] + 1, 1>> /\ pc' = "arguments" /\ arg' = NULL
    /\ UNCHANGED <<cfg, quitting, sent, ok, exit, mounted, round, outage, missed, stray>>

NoMoreArguments ==
    /\ pc = "arguments"
    /\ pc' = "lookup"
    /\ at' = <<1, 1>>
    /\ UNCHANGED <<targets, cfg, arg, quitting, sent, ok, exit, mounted,
                   round, outage, missed, stray>>

-----------------------------------------------------------------------------
\* Targets given without a path: ask the server for its exports.

Looking ==
    /\ pc = "lookup"
    /\ at[1] <= Len(targets)
    /\ UNCHANGED <<cfg, arg, quitting, ok, mounted, round, missed, stray>>

PathGiven ==
    /\ Looking
    /\ targets[at[1]].exports # <<>>
    /\ at' = <<at[1] + 1, 1>>
    /\ UNCHANGED <<targets, pc, exit, sent, outage>>

\* With -e the list is only printed, and counted as if it were requests.
ExportsAnswered ==
    /\ Looking
    /\ targets[at[1]].exports = <<>>
    /\ \E list \in ExportList :
         LET exports == [k \in DOMAIN list |-> init_export(list[k], cfg.count)]
             show == cfg.format = "showmount"
         IN /\ targets' = [targets EXCEPT ![at[1]].client = TRUE,
                                          ![at[1]].exports = IF show THEN @ ELSE exports]
            /\ sent' = IF show THEN Len(list) ELSE sent
    /\ at' = <<at[1] + 1, 1>>
    /\ UNCHANGED <<pc, exit, outage>>

\* The result of the call is dereferenced.
ExportsLost ==
    /\ Looking
    /\ targets[at[1]].exports = <<>>
    /\ End("crashed")
    /\ UNCHANGED <<targets, at, sent, outage>>

\* Without a connection there are no exports; -e asks for the error of a
\* client that is not there.
ExportsNoClient ==
    /\ Looking
    /\ targets[at[1]].exports = <<>>
    /\ outage' = TRUE
    /\ at' = <<at[1] + 1, 1>>
    /\ IF cfg.format = "showmount" THEN End("crashed") ELSE UNCHANGED <<pc, exit>>
    /\ UNCHANGED <<targets, sent>>

\* With -e the main loop has no targets.
LookupDone ==
    /\ pc = "lookup"
    /\ at[1] > Len(targets)
    /\ targets' = IF cfg.format = "showmount" THEN <<>> ELSE targets
    /\ pc' = "main"
    /\ at' = <<1, 1>>
    /\ round' = 1
    /\ UNCHANGED <<cfg, arg, quitting, sent, ok, exit, mounted, outage, missed, stray>>

-----------------------------------------------------------------------------
\* The main loop.

Polling ==
    /\ pc = "main"
    /\ at[1] <= Len(targets)
    /\ UNCHANGED <<cfg, arg, quitting, round>>

Current == targets[at[1]]

Connect ==
    /\ Polling
    /\ at[2] = 1
    /\ ~Current.client
    /\ targets' = [targets EXCEPT ![at[1]].client = TRUE]
    /\ UNCHANGED <<pc, at, exit, sent, ok, mounted, outage, missed, stray>>

\* Mutant: the connection is tried again at once.
ConnectFailsRetry ==
    /\ Polling
    /\ at[2] = 1
    /\ ~Current.client
    /\ outage' = TRUE
    /\ missed' = IF at[1] = 1 THEN missed + 1 ELSE missed
    /\ UNCHANGED <<targets, pc, at, exit, sent, ok, mounted, stray>>

\* Nothing is sent to this target in this round, however often that happens.
ConnectFails ==
    /\ Polling
    /\ at[2] = 1
    /\ ~Current.client
    /\ outage' = TRUE
    /\ missed' = IF at[1] = 1 THEN missed + 1 ELSE missed
    /\ at' = <<at[1] + 1, 1>>
    /\ UNCHANGED <<targets, pc, exit, sent, ok, mounted, stray>>

Mounting ==
    /\ Polling
    /\ Current.client
    /\ at[2] <= Len(Current.exports)
    /\ UNCHANGED <<outage, missed>>

Export == Current.exports[at[2]]

\* Mutant: an export that refused is asked again.
CountRequestRetry(answered) ==
    /\ sent' = sent + 1
    /\ ok' = ok + answered
    /\ targets' = [targets EXCEPT ![at[1]].exports[at[2]].sent = @ + 1,
                                  ![at[1]].exports[at[2]].received = @ + answered]
    /\ at' = <<at[1], at[2] + answered>>

\* The count of an export and the total.
CountRequest(answered) ==
    /\ sent' = sent + 1
    /\ ok' = ok + answered
    /\ targets' = [targets EXCEPT ![at[1]].exports[at[2]].sent = @ + 1,
                                  ![at[1]].exports[at[2]].received = @ + answered]
    /\ at' = <<at[1], at[2] + 1>>

\* Mutant: once interrupted the tool does not unmount any more.
AfterMountHasty(entry, lost) ==
    IF cfg.unmount /\ ~lost /\ ~quitting THEN mounted \ {entry}
    ELSE mounted \cup {entry}

AfterMount(entry, lost) ==
    IF cfg.unmount /\ ~lost THEN mounted \ {entry} ELSE mounted \cup {entry}

\* MNT gave a filehandle.  UMNT has no answer worth waiting for, and may be
\* lost; the server then keeps its entry.
Mounted ==
    /\ Mounting
    /\ CountRequest(1)
    /\ \E lost \in BOOLEAN :
         /\ lost => cfg.unmount
         /\ mounted' = AfterMount(<<Current.ip, Export.path>>, lost)
         /\ stray' = (stray \/ lost)
    /\ UNCHANGED <<pc, exit>>

\* The server refused, without an entry in its list.
MountRefused ==
    /\ Mounting
    /\ CountRequest(0)
    /\ UNCHANGED <<pc, exit, mounted, stray>>

MountLost ==
    /\ Mounting
    /\ End("crashed")
    /\ \E served \in BOOLEAN :
         mounted' = mounted \cup {e \in {<<Current.ip, Export.path>>} : served}
    /\ UNCHANGED <<targets, at, sent, ok, stray>>

\* Mutant: a target without exports is tried again.
DisconnectAndStay ==
    /\ Polling
    /\ Current.client
    /\ at[2] > Len(Current.exports)
    /\ targets' = [targets EXCEPT ![at[1]].client = @ /\ ~cfg.reconnect]
    /\ at' = IF Current.exports = <<>> THEN at ELSE <<at[1] + 1, 1>>
    /\ UNCHANGED <<pc, exit, sent, ok, mounted, outage, missed, stray>>

\* Behind the last export, unless -R.
Disconnect ==
    /\ Polling
    /\ Current.client
    /\ at[2] > Len(Current.exports)
    /\ targets' = [targets EXCEPT ![at[1]].client = @ /\ ~cfg.reconnect]
    /\ at' = <<at[1] + 1, 1>>
    /\ UNCHANGED <<pc, exit, sent, ok, mounted, outage, missed, stray>>

\* Mutant: one round too many.
MoreToSendAtCount == targets[1].exports[1].sent <= cfg.count

\* Only the first export of the first target is looked at, and it may not be
\* there; in a round the target was missed in its number stays.
MoreToSend == targets[1].exports[1].sent < cfg.count

NoFirstExport == targets = <<>> \/ targets[1].exports = <<>>

Success == sent # 0 /\ sent = ok

EndOfRound ==
    /\ pc = "main"
    /\ at[1] > Len(targets)
    /\ IF ~quitting /\ ~cfg.loop /\ cfg.count # 0 /\ NoFirstExport
       THEN End("crashed") /\ UNCHANGED <<at, round>>
       ELSE IF ~quitting /\ (cfg.loop \/ (cfg.count # 0 /\ MoreToSend))
       THEN /\ cfg.loop \/ missed > 0 => round < MaxRounds
            /\ at' = <<1, 1>>
            /\ round' = round + 1
            /\ UNCHANGED <<pc, exit>>
       ELSE End(IF Success THEN "success" ELSE "failure") /\ UNCHANGED <<at, round>>
    /\ UNCHANGED <<targets, cfg, arg, quitting, sent, ok, mounted, outage, missed, stray>>

\* SIGINT is caught from the main loop on.
Interrupt ==
    /\ pc = "main"
    /\ ~quitting
    /\ quitting' = TRUE
    /\ UNCHANGED <<targets, pc, cfg, arg, at, sent, ok, exit, mounted, round,
                   outage, missed, stray>>

Process ==
    \/ GetOption \/ EndOfOptions \/ AddArgument \/ AddAddress \/ NoMoreArguments
    \/ PathGiven \/ ExportsAnswered \/ ExportsLost \/ ExportsNoClient \/ LookupDone
    \/ Connect \/ ConnectFails \/ Mounted \/ MountRefused \/ MountLost
    \/ Disconnect \/ EndOfRound

Ended == pc = "ended" /\ UNCHANGED vars

Next == Process \/ Interrupt \/ Ended

Spec == Init /\ [][Next]_vars

\* The process runs: no assumption on the servers or the user.
FairSpec == Spec /\ WF_vars(Process)
-----------------------------------------------------------------------------
\* What the main loop relies on: with -c or -C alone the loop ends, the
\* results of -C have a size, -e never comes with a count, and a target is
\* shown by its address or by the name that was looked up, not by both.
OptionsAgree ==
    pc \notin {"getopt", "ended"} =>
        /\ cfg.loop /\ cfg.count # 0 => cfg.format \notin Counted
        /\ cfg.format = "fping" => cfg.count # 0 /\ ~cfg.loop
        /\ cfg.format = "showmount" => cfg.count = 0
        /\ ~(cfg.dns /\ cfg.ip)

Exports == UNION {{i} \X DOMAIN targets[i].exports : i \in DOMAIN targets}

ExportAt(e) == targets[e[1]].exports[e[2]]

\* "Count of (MNT) requests to send to each target's exported filesystems":
\* every export gets exactly that many, although the loop only looks at the
\* first one.  It takes that no connection failed: the first target's
\* absence makes the others be asked more often.
CountIsExact ==
    /\ exit \in {"success", "failure"}
    /\ cfg.count # 0 /\ ~cfg.loop /\ ~quitting /\ ~outage
    => \A e \in Exports : ExportAt(e).sent = cfg.count

\* The exports are asked in turns: none is ever two requests ahead of
\* another one, and only one that is earlier in the list is ahead at all.
ExportsInTurn ==
    ~outage =>
        \A d, e \in Exports :
            LET ahead == ExportAt(d).sent - ExportAt(e).sent IN
            /\ ahead <= 1
            /\ ahead = 1 => d[1] < e[1] \/ (d[1] = e[1] /\ d[2] < e[2])

\* With -C every response time has its place in the array that was allocated
\* for the count, and the summary reads no further, but for one more for each
\* round that the first target was missed in: its number stays, and the other
\* exports are asked once more.
ResultsInBounds ==
    cfg.format = "fping" =>
        \A e \in Exports : ExportAt(e).sent <= ExportAt(e).results + missed

\* With -c or -C there are as many rounds as the count says, and one more for
\* each round that the first target was missed in.
RoundsInBounds == cfg.count # 0 /\ ~cfg.loop => round <= cfg.count + missed

\* Unless -u is given, the tool leaves no entry behind in the servers' lists
\* of mounted clients, whenever it stops in the order it means to: only a
\* lost UMNT does.
NothingStaysMounted ==
    cfg.unmount /\ ~stray /\ exit # "crashed" => mounted = {}

\* The exit status adds up what the exports counted: it is 0 only if there
\* was a request and each one of each export was answered with a filehandle.
SuccessMeansMounted ==
    exit = "success" =>
        /\ \E e \in Exports : ExportAt(e).sent > 0
        /\ \A e \in Exports : ExportAt(e).received = ExportAt(e).sent

\* What holds of the options, the target list, the array of -C, the number of
\* rounds and the exit status, whatever the servers answer and however often
\* they cannot be reached, and of the order of the requests if they always can.
MountInv ==
    /\ TypeOK
    /\ OptionsAgree
    /\ OneTargetPerAddress
    /\ ExportsInTurn
    /\ ResultsInBounds
    /\ RoundsInBounds
    /\ SuccessMeansMounted

Phase ==
    [getopt |-> 1, arguments |-> 2, addresses |-> 2, lookup |-> 3, main |-> 4,
     ended |-> 5]

\* How far main() is; the last number tells whether the address or the
\* connection whose turn it is was found.
Progress ==
    <<Phase[pc], round, cfg.optind, at[1], at[2],
      IF \/ pc = "addresses"
         \/ pc = "main" /\ at[1] <= Len(targets) /\ Current.client
      THEN 1 ELSE 0>>

\* Nothing is tried again within a round, whatever the servers answer: each
\* step comes to the next option, argument, target, export or round, and none
\* goes back to an earlier one, so a round ends.
EveryStepMovesOn == [][Process => Further(Progress', Progress)]_vars

\* A count comes to its end, unless the first target is missed so often that
\* the rounds the model has room for are used up.
CountTerminates ==
    (pc = "main" /\ cfg.count # 0 /\ ~cfg.loop)
        ~> (pc = "ended" \/ cfg.count + missed > MaxRounds)

SignalTerminates == quitting ~> (pc = "ended")

\* A count comes to its end as soon as the first target was connected to that
\* often; each round it is missed in puts the end off, for ever if it stays
\* away.  Ctrl-c ends the tool even then.
Ends == CountTerminates /\ SignalTerminates

\* "Count of requests": with -c and -C the tool comes to its end by itself.  The
\* code looks at the first target only, and does not if that stays away.
CountAlwaysEnds == (pc = "main" /\ cfg.count # 0 /\ ~cfg.loop) ~> (pc = "ended")

\* With -C the array is never overrun.  It is, once the first target was missed.
NoOverrun ==
    cfg.format = "fping" =>
        \A e \in Exports : ExportAt(e).sent <= ExportAt(e).results
=============================================================================
