---------------------------- MODULE PingOptions -----------------------------
(***************************************************************************)
(* The command line of src/src/nfsping.c: the getopt() loop, in which each *)
(* option looks at what the ones before it left behind, and the checks and *)
(* defaults after it.  -g, -q, -S, -t, -T and -v are left out: no other    *)
(* option looks at what they store.                                        *)
(***************************************************************************)
EXTENDS Naturals

CONSTANTS
    Number,      \* the arguments of -c, -C, -H, -i and -Q
    PortNumber,  \* the arguments of -P, as a uint16_t
    Version,     \* the arguments of -V
    NTargets,    \* targets behind the options
    MaxOptions   \* bound on the options of a command line

NFS_PORT == 2049
PMAPPORT == 111
NFS_HERTZ == 10
NFS_WAIT == 1

\* RPC program numbers, less 100000.
PMAPPROG == 0
NFS_PROGRAM == 3
MOUNTPROG == 5
RQUOTAPROG == 11
KLM_PROG == 20
NLM_PROG == 21
SM_PROG == 24
NFS_ACL_PROGRAM == 227

\* -a, -K, -L, -n, -s and -u choose one of these; -N has more to check.
ProtocolOption ==
    [a |-> NFS_ACL_PROGRAM, K |-> KLM_PROG, L |-> NLM_PROG, n |-> MOUNTPROG,
     s |-> SM_PROG, u |-> RQUOTAPROG]

Prognum == {NFS_PROGRAM, PMAPPROG} \cup
           {ProtocolOption[o] : o \in DOMAIN ProtocolOption}

Format == {"unset", "ping", "fping", "unixtime", "graphite", "statsd"}

Letter == DOMAIN ProtocolOption \cup
          {"A", "c", "C", "d", "D", "E", "G", "H", "i", "l", "m", "M", "N", "P",
           "Q", "R", "V"}

ASSUME OptionsAssumption ==
    /\ Number \subseteq Nat
    /\ PortNumber \subseteq Nat
    /\ Version \subseteq Nat
    /\ NTargets \in Nat
    /\ MaxOptions \in Nat

VARIABLES
    pc,        \* "getopt", or whether the command line was accepted
    prognum,   \* the program to ping
    port,      \* 0 = use the portmapper
    format,    \* output format
    count,     \* 0 = none given
    loop,      \* -l
    names,     \* multiple, display_ips and reverse_dns
    hertz,     \* -H
    interval,  \* -Q
    wait,      \* -i, in milliseconds
    version,   \* -V
    asked,     \* history: the letters given
    given,     \* history: the argument of the last -P, 0 without
    parsed,    \* number of options read
    refusal    \* why usage() was called, "none" before

options ==
    <<prognum, port, format, count, loop, names, hertz, interval, wait, version>>

vars == <<pc, options, asked, given, parsed, refusal>>

TypeOK ==
    /\ pc \in {"getopt", "accepted", "refused"}
    /\ prognum \in Prognum
    /\ port \in PortNumber \cup {0, NFS_PORT, PMAPPORT}
    /\ format \in Format
    /\ count \in Number \cup {0}
    /\ loop \in BOOLEAN
    /\ names \in [multiple : BOOLEAN, ips : BOOLEAN, dns : BOOLEAN]
    /\ hertz \in Number \cup {NFS_HERTZ}
    /\ interval \in Number \cup {0}
    /\ wait \in Number \cup {NFS_WAIT}
    /\ version \in Version \cup {3}
    /\ asked \subseteq Letter
    /\ given \in PortNumber \cup {0}
    /\ parsed \in 0 .. MaxOptions
    /\ refusal \in {"none", "mode", "protocol", "port", "names", "value",
                    "interval", "version", "wait", "targets"}

Init ==
    /\ pc = "getopt"
    /\ prognum = NFS_PROGRAM
    /\ port = NFS_PORT
    /\ format = "unset"
    /\ count = 0
    /\ loop = FALSE
    /\ names = [multiple |-> FALSE, ips |-> FALSE, dns |-> FALSE]
    /\ hertz = NFS_HERTZ
    /\ interval = 0
    /\ wait = NFS_WAIT
    /\ version = 3
    /\ asked = {}
    /\ given = 0
    /\ parsed = 0
    /\ refusal = "none"

-----------------------------------------------------------------------------
\* getopt() returns the next option.
Read(letter) ==
    /\ pc = "getopt"
    /\ parsed < MaxOptions
    /\ parsed' = parsed + 1
    /\ asked' = asked \cup {letter}

\* fatal(): print the reason and the usage, and exit.
Refuse(reason) ==
    /\ pc' = "refused"
    /\ refusal' = reason
    /\ UNCHANGED options

Keep == UNCHANGED <<pc, refusal>>

\* "Only one protocol!"
Protocol(o) ==
    /\ Read(o)
    /\ \/ /\ prognum # NFS_PROGRAM
          /\ Refuse("protocol")
       \/ /\ prognum = NFS_PROGRAM
          /\ prognum' = ProtocolOption[o]
          /\ Keep
          /\ UNCHANGED <<port, format, count, loop, names, hertz, interval, wait,
                         version>>
    /\ UNCHANGED given

\* -N: the portmapper itself.
Portmap ==
    /\ Read("N")
    /\ \/ /\ port = 0
          /\ Refuse("port")
       \/ /\ port # 0 /\ prognum # NFS_PROGRAM
          /\ Refuse("protocol")
       \/ /\ port # 0 /\ prognum = NFS_PROGRAM
          /\ prognum' = PMAPPROG
          /\ port' = PMAPPORT
          /\ Keep
          /\ UNCHANGED <<format, count, loop, names, hertz, interval, wait, version>>
    /\ UNCHANGED given

\* Mutant: any program can be looked up.
UsePortmapperAlways ==
    /\ Read("M")
    /\ port' = 0
    /\ Keep
    /\ UNCHANGED <<prognum, format, count, loop, names, hertz, interval, wait,
                   version, given>>

\* -M: look the port up, unless another one was given.
UsePortmapper ==
    /\ Read("M")
    /\ \/ /\ prognum = PMAPPROG \/ port # NFS_PORT
          /\ Refuse("port")
       \/ /\ prognum # PMAPPROG /\ port = NFS_PORT
          /\ port' = 0
          /\ Keep
          /\ UNCHANGED <<prognum, format, count, loop, names, hertz, interval, wait,
                         version>>
    /\ UNCHANGED given

\* -P n
SpecifyPort(n) ==
    /\ Read("P")
    /\ given' = n
    /\ \/ /\ port = 0
          /\ Refuse("port")
       \/ /\ port # 0
          /\ port' = n
          /\ Keep
          /\ UNCHANGED <<prognum, format, count, loop, names, hertz, interval, wait,
                         version>>

-----------------------------------------------------------------------------
\* A count is stored unless it is zero.
StoreCount(n, newFormat) ==
    \/ /\ n = 0
       /\ Refuse("value")
    \/ /\ n > 0
       /\ count' = n
       /\ format' = newFormat
       /\ Keep
       /\ UNCHANGED <<prognum, port, loop, names, hertz, interval, wait, version>>

\* -C n: goes with no other mode.
CountFping(n) ==
    /\ Read("C")
    /\ \/ /\ loop \/ format \notin {"unset", "fping"}
          /\ Refuse("mode")
       \/ /\ ~loop /\ format \in {"unset", "fping"}
          /\ StoreCount(n, "fping")
    /\ UNCHANGED given

\* -c n: goes with the other formats, "don't change format though".
CountPing(n) ==
    /\ Read("c")
    /\ \/ /\ loop \/ format = "fping"
          /\ Refuse("mode")
       \/ /\ ~loop /\ format # "fping"
          /\ StoreCount(n, IF format = "unset" THEN "ping" ELSE format)
    /\ UNCHANGED given

\* -D, -E and -G: one of them, not with -C.
FormatOption == [D |-> "unixtime", E |-> "statsd", G |-> "graphite"]

\* Mutant: the format -c chose counts as another one.
FormatFirst(o) ==
    /\ Read(o)
    /\ \/ /\ format \notin {"unset", FormatOption[o]}
          /\ Refuse("mode")
       \/ /\ format \in {"unset", FormatOption[o]}
          /\ format' = FormatOption[o]
          /\ Keep
          /\ UNCHANGED <<prognum, port, count, loop, names, hertz, interval, wait,
                         version>>
    /\ UNCHANGED given

SetFormat(o) ==
    /\ Read(o)
    /\ \/ /\ format \notin {"unset", "ping", FormatOption[o]}
          /\ Refuse("mode")
       \/ /\ format \in {"unset", "ping", FormatOption[o]}
          /\ format' = FormatOption[o]
          /\ Keep
          /\ UNCHANGED <<prognum, port, count, loop, names, hertz, interval, wait,
                         version>>
    /\ UNCHANGED given

\* -l: not with a count.
Loop ==
    /\ Read("l")
    /\ \/ /\ count > 0
          /\ Refuse("mode")
       \/ /\ count = 0
          /\ loop' = TRUE
          /\ Keep
          /\ UNCHANGED <<prognum, port, format, count, names, hertz, interval, wait,
                         version>>
    /\ UNCHANGED given

-----------------------------------------------------------------------------
\* -A: addresses instead of names.  After -d it is only accepted with -m,
\* and then turns them off.
DisplayIps ==
    /\ Read("A")
    /\ \/ /\ names.dns /\ ~names.multiple
          /\ Refuse("names")
       \/ /\ ~names.dns \/ names.multiple
          /\ names' = [names EXCEPT !.ips = ~names.dns]
          /\ Keep
          /\ UNCHANGED <<prognum, port, format, count, loop, hertz, interval, wait,
                         version>>
    /\ UNCHANGED given

\* -d: names from reverse DNS.  After -A it is only accepted with -m.
ReverseDns ==
    /\ Read("d")
    /\ \/ /\ names.ips /\ ~names.multiple
          /\ Refuse("names")
       \/ /\ ~names.ips \/ names.multiple
          /\ names' = [names EXCEPT !.ips = FALSE, !.dns = TRUE]
          /\ Keep
          /\ UNCHANGED <<prognum, port, format, count, loop, hertz, interval, wait,
                         version>>
    /\ UNCHANGED given

\* Mutant: -m shows addresses whatever was given before.
MultipleAlwaysIps ==
    /\ Read("m")
    /\ names' = [names EXCEPT !.multiple = TRUE, !.ips = TRUE]
    /\ Keep
    /\ UNCHANGED <<prognum, port, format, count, loop, hertz, interval, wait, version,
                   given>>

\* -m: all addresses of a name; shows addresses unless names are asked for.
Multiple ==
    /\ Read("m")
    /\ names' = [names EXCEPT !.multiple = TRUE,
                              !.ips = @ \/ ~names.dns]
    /\ Keep
    /\ UNCHANGED <<prognum, port, format, count, loop, hertz, interval, wait, version,
                   given>>

-----------------------------------------------------------------------------
\* -H n and -Q n: zero is refused.
Frequency(n) ==
    /\ Read("H")
    /\ \/ /\ n = 0
          /\ Refuse("value")
       \/ /\ n > 0
          /\ hertz' = n
          /\ Keep
          /\ UNCHANGED <<prognum, port, format, count, loop, names, interval, wait,
                         version>>
    /\ UNCHANGED given

SummaryInterval(n) ==
    /\ Read("Q")
    /\ \/ /\ n = 0
          /\ Refuse("value")
       \/ /\ n > 0
          /\ interval' = n
          /\ Keep
          /\ UNCHANGED <<prognum, port, format, count, loop, names, hertz, wait,
                         version>>
    /\ UNCHANGED given

\* -i n: zero for no pause between the targets.
WaitTime(n) ==
    /\ Read("i")
    /\ wait' = n
    /\ Keep
    /\ UNCHANGED <<prognum, port, format, count, loop, names, hertz, interval, version,
                   given>>

\* -V n
NfsVersion(n) ==
    /\ Read("V")
    /\ \/ /\ n = 0
          /\ Refuse("version")
       \/ /\ n > 0
          /\ version' = n
          /\ Keep
          /\ UNCHANGED <<prognum, port, format, count, loop, names, hertz, interval,
                         wait>>
    /\ UNCHANGED given

\* -R stores its flag whatever else is given.
Maintain ==
    /\ Read("R")
    /\ Keep
    /\ UNCHANGED <<options, given>>

-----------------------------------------------------------------------------
\* The versions a row of null_dispatch has a procedure for.
VersionsOf(row) ==
    IF row \in {PMAPPROG, NFS_PROGRAM, RQUOTAPROG} THEN 2 .. 4
    ELSE IF row \in Prognum THEN 2 .. 3
    ELSE {}

\* null_dispatch[prognum_offset][version], with rows of five entries one
\* behind the other and no check of the index: the row it comes from.
DispatchRow == (5 * prognum + version) \div 5

HasProc == (5 * prognum + version) % 5 \in VersionsOf(DispatchRow)

\* The waits between the targets, in nanoseconds, leave no time for the
\* polling frequency.
WaitTooLong ==
    wait > 0 /\ NTargets * (wait * 1000000) >= 1000000000 \div hertz

\* Why the checks behind getopt() refuse, in their order.
RefusalAtEnd ==
    IF count > 0 /\ hertz * interval >= count THEN "interval"
    ELSE IF ~HasProc THEN "version"
    ELSE IF NTargets = 0 THEN "targets"
    ELSE IF WaitTooLong THEN "wait"
    ELSE "none"

\* "set the default port to portmapper if not already set"
DefaultPort ==
    IF port # NFS_PORT \/ prognum \in {NFS_PROGRAM, NFS_ACL_PROGRAM} THEN port
    ELSE IF prognum = PMAPPROG THEN PMAPPORT
    ELSE 0

\* No more options: checks and defaults.
Finish ==
    /\ pc = "getopt"
    /\ \/ /\ RefusalAtEnd # "none"
          /\ Refuse(RefusalAtEnd)
       \/ /\ RefusalAtEnd = "none"
          /\ pc' = "accepted"
          /\ format' = IF format = "unset" THEN "ping" ELSE format
          /\ loop' = (loop \/ count = 0)
          /\ port' = DefaultPort
          /\ UNCHANGED <<prognum, count, names, hertz, interval, wait, version, refusal>>
    /\ UNCHANGED <<asked, given, parsed>>

\* nfsping goes on to its main loop, or has exited.
Done ==
    /\ pc # "getopt"
    /\ UNCHANGED vars

Next ==
    \/ \E o \in DOMAIN ProtocolOption : Protocol(o)
    \/ Portmap \/ UsePortmapper
    \/ \E n \in PortNumber : SpecifyPort(n)
    \/ \E n \in Number : CountFping(n) \/ CountPing(n)
    \/ \E o \in DOMAIN FormatOption : SetFormat(o)
    \/ Loop
    \/ DisplayIps \/ ReverseDns \/ Multiple
    \/ \E n \in Number : Frequency(n) \/ SummaryInterval(n) \/ WaitTime(n)
    \/ \E n \in Version : NfsVersion(n)
    \/ Maintain
    \/ Finish
    \/ Done

Spec == Init /\ [][Next]_vars

-----------------------------------------------------------------------------
\* What the main loop takes for granted (NfsPing's assumptions, its
\* InitPort): it either counts or loops, -C has a count to allocate results
\* for, an interval ends before the count does, and no ping of the
\* portmapper asks the portmapper for a port, unless -P 0 gets past the check.
MainLoopCanStart ==
    pc = "accepted" =>
       /\ loop <=> count = 0
       /\ format # "unset"
       /\ format = "fping" => count > 0
       /\ count > 0 => hertz * interval < count
       /\ prognum = PMAPPROG => port # 0 \/ "P" \in asked

\* Two options that cannot be combined, whatever their order.
ModeConflict ==
    \/ "l" \in asked /\ asked \cap {"c", "C"} # {}
    \/ "C" \in asked /\ asked \cap {"c", "D", "E", "G"} # {}
    \/ \E a, b \in asked \cap {"D", "E", "G"} : a # b

\* The order of the options does not matter to the mode: a command line is
\* refused for its modes exactly if two of them cannot be combined, and the
\* format is the one that was asked for.
ModesCommute ==
    /\ refusal = "mode" => ModeConflict
    /\ pc = "accepted" =>
          /\ ~ModeConflict
          /\ format = IF "C" \in asked THEN "fping"
                      ELSE IF "D" \in asked THEN "unixtime"
                      ELSE IF "E" \in asked THEN "statsd"
                      ELSE IF "G" \in asked THEN "graphite"
                      ELSE "ping"

\* What the options so far have left behind: the mode variables know of all
\* mode options, and none of them has met one it cannot be combined with.
ModeInv ==
    /\ loop => count = 0
    /\ format = "fping" => count > 0
    /\ prognum = PMAPPROG => port # 0 \/ "P" \in asked
    /\ pc = "getopt" =>
          /\ ~ModeConflict
          /\ count > 0 <=> asked \cap {"c", "C"} # {}
          /\ loop <=> "l" \in asked
          /\ format = IF "C" \in asked THEN "fping"
                      ELSE IF "D" \in asked THEN "unixtime"
                      ELSE IF "E" \in asked THEN "statsd"
                      ELSE IF "G" \in asked THEN "graphite"
                      ELSE IF "c" \in asked THEN "ping"
                      ELSE "unset"

\* Addresses and reverse DNS names are never both chosen for the output
\* ("so output isn't ambiguous", nfsping.c:651).
OneKindOfName == ~(names.ips /\ names.dns)

\* The inductive invariant of the command line.
OptionsInv == TypeOK /\ OneKindOfName /\ ModeInv /\ MainLoopCanStart /\ ModesCommute

\* md/nfsping.md:77, 79, 85, 87 "Use the -P option to specify a port": an
\* accepted command line with -P pings that port.
SpecifiedPortIsUsed == (pc = "accepted" /\ given # 0 /\ prognum # PMAPPROG) => port = given

\* man/nfsping.8.ronn:113 "An error is returned for illegal or unsupported
\* versions": the NULL procedure called is one of the program pinged.
ProcedureIsOfProgram == pc = "accepted" => DispatchRow = prognum
=============================================================================
