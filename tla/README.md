# NFStash in TLA+

NFStash is a set of command line tools that send single NFS, mount, portmap, lock
manager and status monitor RPCs to servers and time the answers: `nfsping`,
`nfsmount`, `nfsls`, `nfsdf`, `nfscat`, `nfslock`, `clear_locks` and `nfsup`.  All
of them are single threaded C programs over Sun RPC.  This directory models them,
checks the models with TLC and proves theorems about them with TLAPS.

Paths below are relative to the repository's root directory `src/`, line numbers
refer to `src/src/`.

## Inventory

| Component | Code | State | Operations | Interacts with |
|---|---|---|---|---|
| RPC connections | `rpc.c` | the caller's `sockaddr_in` (a port cache), the `CLIENT`, the process's sockets | `create_rpc_client`, `get_rpc_port`, `destroy_rpc_client` | portmapper and programs on the servers; every tool |
| target list | `util.c` 119-600 | list of `targets_t` with clients, counters, exports, filehandles | `make_target`, `find_or_make_target`, `append_target`, `nfs_fh_list_new`, `parse_fh` | DNS, JSON input; every tool but `nfsup` and `clear_locks` |
| nfsping command line | `nfsping.c` 384-865 | option variables | one case per option, checks and defaults behind them | main loop |
| nfsping main loop | `nfsping.c` 867-1061 | position, round, totals, per target counters, histograms, results, `quitting` | connect, ping, account, interval summary, disconnect, sleep, exit | RPC connections, SIGINT |
| nfsup | `nfsup.c` | stage, `status`, one `sockaddr_in` | portmapper, mount, NFS, exit status | RPC connections |
| clear_locks | `clear_locks.c` | `status`, one `sockaddr_in` | SM_NOTIFY, NLM_FREE_ALL, exit status | RPC connections |
| nfsmount | `mount.c` | options, exports per target, counters, totals | EXPORT, MNT, UMNT, rounds, exit status | RPC connections, target list, the servers' lists of mounted clients, SIGINT |
| nfsls | `ls.c` | options, counters per filehandle; within a listing cookie, verifier, entries | READDIRPLUS, GETATTR, READLINK, rounds, exit status | RPC connections, target list, SIGINT |
| nfsdf | `df.c` | options, counters, answer | FSSTAT, rows, rounds, exit status | RPC connections, target list, `human.c`, clock, SIGINT |
| nfscat | `cat.c` | options, offset, totals | READ until the end or a count | RPC connections, target list |
| nfslock | `lock.c` | options, status, node name | NLM_TEST, rounds, exit status | RPC connections, target list |
| human readable sizes | `human.c` | none | `prefix_print` | nfsls, nfsdf |
| time conversions | `timespec.h`, `util.c` 604-646 | none | compare, add, subtract, convert | every tool that polls |
| not the project's own logic | `xdr_copy.c`, `rpcsrc/`, `parson/`, `hdr/`, `Smokeping/` | | deep copies, rpcgen input, vendored libraries, scripts | |

What makes each of them correct:

- **RPC connections**: a client has an open socket of its own; it is connected to the
  program's port; after a call the process holds no sockets but those of its clients.  (The last two
  do not hold; what does is stated instead.)
- **nfsping main loop**: whole rounds, every target once in each, the rounds asked for,
  an exit status that tells of lost pings, summaries that are about the pings they say
  they are about, recovery after an outage, an end after the count or Ctrl-c.
- **nfsping command line**: what is accepted can be run; the order of the options does
  not matter where the manual page does not say so; what was asked for is done.
- **nfsup, clear_locks**: the exit status tells the truth about the answers, whichever
  connection or call failed on the way, and there is one.
- **target list**: one entry per address; nothing lost, replaced or freed that is in use.
- **nfsmount**: each export is asked as often as was told; no entry stays in a server's list
  of mounted clients; the exit status tells of refused mounts.
- **nfsls**: a listing is complete and in order, and with `-a` it ends unless the server never comes to an
  end or the answers about the type drive it into ever deeper calls; without `-a` see `ls_hidden`.
- **nfsls, nfsdf, nfscat, nfslock**: every filehandle of the input is asked in every round, the
  counts they stop at are reached, files are written whole and in order, the exit status is
  about all filehandles.
- **sizes and times**: a period is a period, an elapsed time is one across seconds, the columns
  of a row add up and stay short.

What is hard about them: the servers, the portmapper and the network change between any
two steps of a tool; a port is cached and becomes stale; sockets run out; one of several
connections or calls fails and the next step uses what it left behind; SIGINT arrives
anywhere; statistics live in different fields for each output format and are reset at
different times.  `PROJECT.json` lists these hazards line by line with the properties
aimed at each.

## Modules

| Module | Models | Uses |
|---|---|---|
| `RpcClient` | `rpc.c` with servers, portmapper and network as its environment | |
| `Poller` | what nfsping promises (abstract) | |
| `NfsPing` | main loop of `nfsping.c`, list initialisation and SIGINT of `util.c` | `RpcClient`, implements `Poller` |
| `PingOptions` | command line of `nfsping.c` | |
| `OneServer` | what `nfsup.c` and `clear_locks.c` have in common | `RpcClient` |
| `NfsUp` | `nfsup.c` | `OneServer` |
| `ClearLocks` | `clear_locks.c` | `OneServer` |
| `TargetList` | the list of targets of `util.c` | |
| `NfsMount` | `mount.c` | `TargetList` |
| `FhTool` | what the four tools that read filehandles do alike | `TargetList` |
| `NfsLs`, `NfsDf`, `NfsCat`, `NfsLock` | what is particular to `ls.c`, `df.c`, `cat.c`, `lock.c` | `FhTool` |
| `Rounds` | what nfsls and nfsdf promise of their filehandles (abstract) | |
| `FhTools` | the four tools behind their input, and their properties | the five above, implements `Rounds` |
| `Readdirplus` | one listing of `ls.c`, call by call, with the server | |
| `Times`, `Sizes` | `timespec.h` and the end of `util.c`; `human.c` and the rows of `df.c` | |
| `NfsDfLoop` | the clock of `df.c`'s main loop and its rows | `Times`, `Sizes` |
| `MCRpcClient`, `MCNfsMount`, `MCFhTools`, `MCNfsDfLoop` | values of constants, and symmetry, for TLC | the module they are named after |
| `RpcClientProofs`, `NfsPingProofs`, `OneServerProofs`, `PingOptionsProofs`, `ReaddirplusProofs`, `NfsDfLoopProofs`, `NfsMountProofs`, `FhToolsProofs` | theorems | the module they are named after; `OneServerProofs`: `NfsUp` and `ClearLocks` |

### RpcClient

`sin_port[t]` is `client_sock->sin_port`: 0 means "ask the portmapper", and the answer is
stored there.  `client[t]` is the `CLIENT` a tool holds, with its socket, the port it was
connected to and whether the server still has the other end.  `open` is the set of the
process's open sockets; `socket()` returns the lowest free one and fails when all `MaxFds`
are open.

A call of `create_rpc_client()` waits for the network twice, and the servers may change
while it does, so it is up to three steps: `create_rpc_client` up to the connected
portmapper socket, `get_rpc_port` with the answer, `ConnectProgram` with the program's own
connection.  `call` is the call in progress.  The early returns are there with what they
leave behind: port 111 in the `sockaddr_in`, and the socket that was opened.  A failure of
`clnt*_create` behind a successful `connect()` leaves the same state as a failed `connect()`
(program leg) or as an answer of 0 (portmapper leg), so it is not an alternative of its own.

The environment: `Rebind` starts a program on any port or stops it, which cuts its TCP
connections; as long as `stable` is FALSE any call may be lost, any TCP connection refused,
the local host may refuse to bind or route (`LocalErrors`).  `Stabilise` ends all that, so
that properties about recovery can be stated.  Two programs may be given the same port in
the model; a request sent to a port of another program is never answered.  The portmapper
can always be reached once `stable`.

`given` is a history variable: which ports the portmappers gave for which program.

What the comments of `rpc.c` expect, that every port is looked up and every socket a client's, does not
hold.  The properties say how far it does: `PortIsKnownOrLeft`, that only an early return of the
portmapper leg sends a later call to port 111 (`LeftBehind`), and `OnlyCallsLoseSockets`, that only a
lookup or a failed connection loses a socket (`LostSockets`), one each, for good.

### NfsPing

One action per stage of the loop: `StartRound` (outer loop), `Connect` and `Connecting`
(inner loop to the client), `PingAnswered` or `PingLost` (the NULL call, all counters, the
interval summary and its resets, both disconnects and the step to the next target: nothing
else runs in between), `Sleep`, `WakeUp`, `Exit`.  `sigint_handler` interleaves with all of
them.  `Count`, `Format`, `Interval` (hertz times seconds), `Reconnect`, `Tcp` and `InitPort`
are the options; `PingAssumption` excludes combinations that `PingOptions` shows are refused.
Histograms are modelled as the number of values in them, `hdr_record_value()` as dropping
values above `HistMax`.  `summary[t]` is what `print_interval()` shows.  Reading `results`
beyond its end yields any value (`SummaryLine`).

History variables: `answered` (which rounds a target answered), `signalled` (the round in
which SIGINT came), `lost_stable` (pings lost since the environment became stable).

`Poller` is the promise: rounds, each target probed once in any order, an end only between
rounds and after `Count` of them or an interrupt, and a verdict.  `NfsPing` implements it
with `polled` as the part of the list behind the cursor.

### PingOptions

One action per option over the variables of `main()`, `Finish` for everything behind the
`getopt()` loop.  `fatal()` ends in state `refused` with the reason.  Refusals for a mode
conflict are kept apart from others because `ModesCommute` is about them.  The dispatch
table is modelled by its index arithmetic: `[prognum - 100000][version]` in rows of five
entries without a check, so `DispatchRow` is the row the entry really comes from.  Beyond the
table's end the model takes entries as absent.  `-P 0` is accepted and means the same as
`-M`, without the checks of `-M` (so `nfsping -N -P 0` asks the portmapper for its own port).

### OneServer, NfsUp and ClearLocks

Straight-line programs that talk to one server through one `sockaddr_in`, which starts without a
port, and keep one `status` variable; each call that can fail is a pair of actions.  `OneServer` has
what they share: that server, `pc`, and two history variables, `replied` (the programs that answered)
and `calm` (nothing changed or failed since the start).  In `NfsUp` the portmapper is a program of
its own that listens on port 111.  nfsup makes datagram sockets only, and its run has those; its
theorems do not depend on it.

`ClearInv` has three parts besides the types and `RpcInv`: `ResultInv` (how the process ends),
`ConnectionInv` (which program is connected to, and called, at which `pc`) and `ClntInfoInv` (whose
port is in `clnt_info` when a connection is made).  The second connection of clear_locks reuses the
`sockaddr_in` of the first one, which nothing resets in between: after an unanswered notify it holds the
status monitor's port, and after a first connection that could not be made whatever
`create_rpc_client()` left there: 0, 111 or a looked-up port.

### TargetList

`targets` is the list behind the dummy head.  The operators are the functions of `util.c` on that
list: `WithAddress` is what `make_target()` does for one address of a name (`NfsMount` takes a step
`AddAddress` for each of them with `-m`, and for the first one without), `parse_fh` a line of JSON.
Both end in `find_or_make_target`, which looks for the address only.  A second path
for a known address replaces the exports (`util.c` 378, 411), while filehandles are appended.  The
clean-up after a line that is incomplete frees the target, which may be in the list already
(`util.c` 219-224): it stays there with `freed` set, and whoever reads it next ends in the exit
`undefined`, because what happens then is not defined by the code.

### NfsMount

`GetOption` and `AddArgument` are the turns of the two loops over the command line, `AddAddress` those
of the loop over the addresses of an argument (`util.c` 365-460), `PathGiven` and the `Exports...`
actions the lookup behind each argument.  In the main loop each export is one `Mounted`, `MountRefused`
or `MountLost` (MNT, UMNT and all counters: nothing else runs in between), `Connect`, `ConnectFails` and
`Disconnect` are the steps between targets, `EndOfRound` holds the test of the count, which looks at the
first export of the first target only (`NoFirstExport`, `MoreToSend`).  A connection can fail in any round.
`missed` (history) counts the rounds in which that happened to the first target: its number stays, so
each of them makes the others be asked once more, past the array of `-C`, and puts off the end.  A lost
MNT or EXPORT reply crashes every version of the call (`mount.c:300`): exit `crashed`.  SIGINT is caught
from the main loop on, so `Interrupt` starts there.  `mounted` is what the servers' lists hold, a part of
the environment; `stray` remembers a lost UMNT and `outage` a failed connection.

### FhTool, NfsLs, NfsDf, NfsCat, NfsLock, FhTools

`FhTool` holds the state the four tools share (`cfg`, the list, the position `at`, counters, `round`,
`exit`) and the actions that are alike: options, input lines, connecting, walking on.  Each tool's
module gives its `getopt()` table, its defaults, its request and what ends a round; `FhTools` chooses
a tool at the start and is their union.  Options that only store a value for the output are left
out.  A block of a file is the unit of `nfscat`: `offset` and `output` count blocks, and a READ may give
any number of them up to what was asked, none included, with eof or without.

Two tools may get an answer that leaves them where they are: nfscat one of no bytes that is not the
end (`cat.c` 262, 288), nfsls one of no entries that is not the end of the directory (`ls.c` 298, 355:
`LsAgain`, as the listing itself is one step here).  The history variable `again` changes with each.
`LsRecurses` is the listing of a server whose answers disagree about the type (`Readdirplus`).

`Rounds` is the promise of nfsls and nfsdf: filehandles asked in turns, as often as told or until
interrupted, and a verdict that is success exactly when there was something to ask and nothing was
lost.  `FhTools` implements it with the counters `sent` of each target's filehandles as its `asked`, from
the end of the input on; a run that crashes is one that never reports.

### Readdirplus

An entry is its cookie.  `Page`, `NotDir` and `CallFails` are the outcomes of a READDIRPLUS call,
`SkipEntry` and `ListEntry` one turn of the loop over the entries of an answer, `NextPage` and
`EndOfDirectory` what follows it; the `Getattr...` actions are `do_getattr()`.  `Change` is somebody
else's change of the directory between any two steps.  The server is `honest` (cookies in order, entries in
every answer but the last, eof only at the end) or gives anything, empty answers without eof
included; `strict` ones refuse an old cookieverf; `verf` 0 is a server that does not use one.  `kind` is
what the filehandle stands for, or "any": then each answer says of the type what it likes, and
`do_readdirplus()` and `do_getattr()`, which both believe it, call each other (`Enter`) until the stack,
`MaxDepth` calls, is used up: `pc` "crashed".  The comparison with the empty verifier has length 0
(`ls.c:277`), so the first answer of a server that uses verifiers is reported as a change too.
`ChangeIsReported` says exactly that: each change once, and the first answer's as one more.

### Times, Sizes, NfsDfLoop

The macros and conversions are operators on records of seconds and nanoseconds, `prefix_print()` is
the number, letter and sign it prints.  `NfsDfLoop` runs them where `df.c` does: `Call` between two
readings of the clock, `PrintRow`, and `Stop`, `SlowPoll` or `Sleep` behind it; `WakeUp` may be late,
`Interrupt` cuts a sleep short.  `Thousand`, `Kilo` and `Unit` are constants, so that a run can have
short seconds and small units while the theorems are about the real ones.  The other tools pace
their rounds with the same lines.

## Runs

| Run | Instance | Question | Result |
|---|---|---|---|
| `rpc_sockets` | 2 targets, 1 program, 2 ports, 4 sockets, TCP, local errors | are sockets shared or closed ones used; is a learned port kept; what loses a socket | holds |
| `ping_count` | `-n -c 3 -Q 2`, 2 targets, UDP, portmapper, local errors | refinement of `Poller`, intervals, ports, Ctrl-c, end | holds |
| `ping_fping` | `-C 5 -Q 2 -R -T`, 1 target, times 1 and 2 | summary line, extremes, recovery | holds |
| `ping_loop` | `-l -R`, 2 targets, UDP to 2049, 2 sockets | does Ctrl-c end it | holds |
| `clear_locks` | TCP, 2 ports, 4 sockets | exit status, fallback to the lock manager | holds |
| `nfsup` | UDP, 2 ports, 5 sockets | exit status, false alarms, ports | holds |
| `options` | up to 4 options | what is accepted, in which order | holds |
| `nfsmount` | up to 2 options, 2 targets, any outages, 3 rounds | counts, overrun, entries left mounted, exit status, every step moves on, when it ends | holds |
| `fh_tools` | each of 4 tools, up to 2 options, 3 lines | target list, counts, files, exit status, refinement of `Rounds`, every step moves on, when they end | holds |
| `readdirplus` | 3 entries, pages of 2, 1 change, 3 nested calls | complete, in order, warnings, nesting, when a listing with `-a` ends | holds |
| `numbers` | seconds of 8 ns, units of 2, sizes to 63 | period, sleep, elapsed time, sums of a row | holds |
| `ls_hidden` | 2 entries, pages of 1 | does the position increase | violated: a page of hidden entries is asked for again (`ls.c:300`) |

`EveryStepMovesOn`, in two runs, is the safe half of termination: a tool's step brings it further in a
fixed order of its options, input, rounds, targets and requests, so nothing is asked for twice in a
round, but for the answers that bring nothing (`again`) to nfscat and nfsls.  What else an end takes is
that those answers stop, that the rounds are bounded (`ControlInv`, `RoundsInBounds`, `CountIsExact`)
and that the process runs.  For nfsping it is a theorem only; `SocketsNotShared` and `EachAtItsPort` are
checked as parts of `RpcInv` and `UpInv`.

### Properties the code does not have

Besides the one of the run above that ends in a violation, the modules state more properties than the
runs keep.  Those in the first group below have a
definition, and TLC violates each of them at once in the variation of a run that is named; the
second group was met while modelling and is part of what the models do.

- `PortIsFromPortmapper` in `RpcClient` (`rpc_sockets`, `ping_count`): a lookup that returns early leaves
  port 111 behind, and the program is called there from then on (`rpc.c:81`).
- `OnlyClientSocketsOpen` with a lookup (`ping_count`): the portmapper's client is destroyed without
  `CLSET_FD_CLOSE`, so each lookup leaves a socket open (`rpc.c:137`, "close the portmapper
  connection"); a failed connection leaves one too (`rpc.c:185`).
- `RecoversAfterOutage` in `NfsPing` (`ping_fping`) with two sockets: a failed connection does not close
  its socket, so an outage uses them up (`rpc.c:185`).
- `ResultsInBounds` in `NfsPing` with `-C 2`, no `-Q` and two targets: the results are written behind the end of
  the array (`nfsping.c:957`).
- `ConnectionsMaintained` in `NfsPing` (`ping_loop`): `re_errno == EPIPE || ECONNRESET` is true for every
  error, so `-R` does not maintain a UDP client over a lost ping (`nfsping.c:982`).
- `SpecifiedPortIsUsed` in `PingOptions`: `-P 2049` counts as no port (`nfsping.c:807`).
- `ProcedureIsOfProgram` in `PingOptions` with 12 in `Version`: `-V 12` reads another row of the dispatch table
  (`nfsping.c:802`, "TODO check version <5").
- `NeverCrashes` in `ClearLocks` over TCP (`clear_locks`): after an unanswered notify, NLM_FREE_ALL is called
  over a client that could not be made (`clear_locks.c:211`).
- `PortIsFromPortmapper` in `ClearLocks` (`clear_locks`): after an unanswered notify the lock manager is
  called at the status monitor's port, which `clnt_info` still holds (`clear_locks.c:208`).
- `NoFalseAlarm` in `Readdirplus` (`readdirplus`): the first answer with a cookieverf is reported as a
  change (`ls.c:277`).
- `NoRecursion` in `Readdirplus` (`readdirplus`): "this shouldn't loop" (`ls.c` 172, 374), and it does if
  the server's answers disagree about the type.
- `Terminates` and `SignalTerminates` in `FhTools` (`fh_tools`): answers that bring nothing are asked for
  again, for ever if the server goes on so, and without a look at Ctrl-c (`cat.c:288`, `ls.c:363`).
- `CountAlwaysEnds` in `NfsMount` (`nfsmount`): a first target that stays away keeps `-c` and `-C` from ending
  (`mount.c:1187`).  In the run the bound on the rounds stands for "for ever".
- `NoOverrun` in `NfsMount` (`nfsmount`): behind a missed first target the times of the others are written
  past the end of their arrays (`mount.c` 1140, 1187).

Met while modelling:

- `nfsping -D -Q`: only the fping format maintains the extremes, so an interval summary shows some that
  belong to no ping (`nfsping.c:950`); `ExtremesAreOfInterval` is therefore about `-C`.
- `nfsmount`: a lost reply crashes it (`mount.c:300`); `-e` never reports success; targets that cannot
  be reached do not count in the exit status; `-c` without any export reads
  through NULL; the loss is an integer division (`mount.c` 497, 593).
- `nfsls`, `nfsdf`: a client that could not be made is used before it is tested (`ls.c:1037`,
  `df.c:606`); nfsls counts an empty directory as failed, computes a mean by a division by zero
  after a failed first listing (`ls.c:1085`) and cuts the path one component shorter each round
  (`ls.c:207`), and with `-l` and no count stores times in an array of no places (`ls.c:1103`);
  nfsdf frees an answer it does not have (`df.c:672`).
- `nfscat`: the offset is reset per target only (`cat.c:223`), so the second file of a server starts
  where the first one ended; `-b 0` gets empty reads only; the exit status is always 0.
- `nfslock`: `-l` is refused in any combination (`lock.c:166`); the status is the last filehandle's
  (`lock.c:238`) and 0 if no server was reached.
- `human.c`: "never longer than 4 digits" fails from 10000 to 10239 of a unit.

### Bounds, and why they are enough

- `MaxFds`: enough for every client and two sockets more in `rpc_sockets`, so that sockets are lost,
  exhaustion happens and is survived; 2 in `ping_loop`, one for each client; in
  `ping_count` (12) and `ping_fping` (6) as many as all calls of the run can open together, which is what
  the theorem about recovery needs as well (`EnoughSockets` in `NfsPingProofs`).
- `Count`, `Interval`: three rounds with an interval of two (and five with two) have a full
  interval, its reset, and an interval cut short by the end.
- `MaxRounds`: with `-l` the code has no bound; the guard of the step to the next round stops there,
  so a signal that came earlier must be obeyed within it.  In `NfsMount` it also bounds the rounds of a
  count once the first target was missed (the count is 2, so there is room for one missed round before
  the bound); `CountTerminates` of `NfsMount` gives that case up, openly.
- `Port` has two values: the one a program was on and another one; `Rtt` two, to have a
  smallest and a largest; times and ports have no arithmetic in `NfsPing`.
- `MaxOptions`: the longest interaction of options is between three of them (`-A -m -d`) in nfsping,
  and between two in the other tools, which test one variable each.
- Targets, lines, entries: two targets by three lines give a target with two filehandles next to
  another one, and any order of complete and incomplete lines; the name of `MCNfsMount` has both
  addresses, so that it meets the targets given by address.  Files have three blocks, do not
  change, and are read up to two at a time, so that any read may be short or empty, and the last one
  must be short.  Three entries in pages of two have a full page, a page behind it, and every position
  of hidden entries in both.
- `MaxChanges`: one is enough to leave the regular case at any moment; it bounds the environment, not the
  tool.  `MaxDepth`, the stack: 3, one nested call more than answers that agree about the type ever need.
- `numbers`: calls take up to 9 ns with seconds of 8, so every borrow and carry of a second occurs; the
  sizes are those on both sides of each change of unit up to the largest size.

Fairness: `WF_vars(Process)` (`Nfsls` in `Readdirplus`) in the runs with liveness properties.  The tools
never block for ever: calls end with the timeout set by `CLSET_TIMEOUT` (`rpc.c:206`), `nanosleep()`
returns, `connect()` gives up, and standard input ends.  It says nothing about what the servers, the
network or the user do, and the liveness properties differ in what they need of them:

- nfsping: nothing.  `CountTerminates` and `SignalTerminates` hold whatever the servers do.
- nfsmount: Ctrl-c ends it whatever the servers do.  A count ends it only if the first target is not
  missed for ever: `CountTerminates` gives up a run whose missed rounds exceed the room of `MaxRounds`.
- nfsdf, nfslock, and nfscat with a count: nothing.  nfscat without one and nfsls (Ctrl-c or not) end only
  if the servers do not go on for ever with answers that bring nothing: `Ends` is "it ends, or there are
  infinitely many of those" (`AskedAgain`).
- a listing with `-a` likewise: it ends, in a crash perhaps, or there are infinitely many empty answers
  without eof (`BringsNothing`).  Without `-a` not even an honest server is enough (`ls_hidden`).

No run switches the deadlock check off.

## Theorems

Every invariant and every action property of the passing runs, and both refinements, are theorems.
`RpcInv`, `PingInv`, `UpInv`, `ClearInv` and `OptionsInv` are inductive as they stand; the others follow from a
stronger inductive invariant, which the proof modules state part by part.  The theorems are about all
values of the constants that satisfy the assumptions; three of `NfsPingProofs` and three of
`OneServerProofs` have a further hypothesis, given with them below.

- **RpcClientProofs**.  `RpcInvariant`, `SocketsNeverShared`, `LearnedPortKept`, `SocketsAreLostInCalls`.  That no
  socket is shared needs that every client's socket is in `open`, so that the lowest *free*
  one is nobody's; that a client is connected to the port in its `sockaddr_in` needs that a
  call in progress is for a target without a client and has stored what its leg says.  That sockets are
  lost in two places only needs both: a client that is made takes its new socket along, one that is
  destroyed was the only one to have its.
- **NfsPingProofs**.  `PingInvariant` adds where `main()` can be (`ControlInv`), the exit
  status (`VerdictInv`) and the signal (`SignalInv`) to `RpcInv`.  A lemma per action gives
  what it does to rounds, position and totals, and the others follow from it.  From the
  invariant: `SignalObeyed` (at most one more round after Ctrl-c), `MovesOn` (nothing is retried
  within a round: a step comes to the next round, target or stage of a ping), `PingImplementsPoller` (the
  refinement: `Init` to `PollerInit`, every step a `Poller` step or a stutter) and
  `RoundsAreFair` (`sent` is the number of rounds since the last summary, by the arithmetic
  of remainders).  Without a hypothesis also `ExtremesOfInterval`: the extremes of a target without an
  answer are the start values, and otherwise times that were measured; and `PortsAreKnownOrLeft`, over UDP
  and TCP, with any number of sockets and any local errors: a port in a `sockaddr_in` that is not the
  portmapper's is the given one or was given for the program (`GivenInv`), and of all steps only a call
  that returns before it has asked changes `LeftBehind`.  Then, each with an invariant of its own next to
  `PingInv`:
  - `AnswersAreAccountedFor`, if no time is above `HistMax`: a histogram reaches to the timeout of
    the calls (`util.c:313`), and a later answer is a lost ping.  `received` is the number of
    answered rounds of the interval, which needs that no round is answered before it begins
    (`AnsweredInv`), and the cardinality of the last rounds of a set.
  - `SummaryIsRight`, with one target: `results[i]` is set exactly for the rounds answered
    (`ResultsInv`).  With more targets the index counts the pings of all of them
    (`nfsping.c:957`), and the property does not hold.
  - `Recovers`, with sockets for all calls: only a target with a dead connection, or with none
    at the step to its ping, is to lose a ping once the network is stable, and only one
    (`RecoverInv`).
  "Sockets for all calls" is `EnoughSockets`: a count, and as many as the calls of all its rounds open
  at most.  That they suffice is a theorem, not an assumption: `SocketInv` bounds the numbers of
  the open sockets by the calls made so far, and `socket()` returns the lowest free number.
- **OneServerProofs**, about nfsup.  `UpInvariant`, `OkIsDeserved`, `PortsAreLookedUp`: while a protocol
  is tried, `status` is the answer of the one before and the `sockaddr_in` holds 0 or a looked-up port.
  `HealthyGetsOk`, with three sockets: as long as the server is well and nothing failed (`calm`) the
  protocol in progress is called at its port, and the open sockets are one per stage: each of the two
  lookups leaves the portmapper's open (`HealthyInv`).
- **OneServerProofs**, about clear_locks, over TCP and UDP unless said otherwise.  `ClearInvariant` from one
  lemma per part; `SuccessIsReplied`: it returns 0 only if the program it asked last answered.
  `FallsBack`, with three sockets: a server without a status monitor, but with a lock manager, has its
  locks freed as long as nothing fails.  The lookup for the status monitor and the one for the lock
  manager leave a socket open each, so the lock manager's connection needs the third (`SmDownInv`).
  `NoCrashOverUdp`, with two sockets and without local errors: the call over an unchecked client
  (`clear_locks.c:211`) always has one, since nothing but a socket is needed for it and the first
  connection's, number 2, was closed just before (`SecondSocketInv`).  Over TCP it
  is not so: the connection may be refused.
- **PingOptionsProofs**.  `OptionsInvariant`, `AcceptedCanStart`, `ModeOptionsCommute`, for
  command lines of any length: the mode variables know all mode options given so far.
- **ReaddirplusProofs**.  `ListsInOrder` from `OrderInv`: everything listed is at or before `cookie`
  while the listing goes on, and only the step that sets `looped` breaks the order, which is the
  last.  `ListingInvariant` puts four facts together: the type invariant; `ReportsChanges`, as the
  verifier sent is always that of the last answer, and the empty one before the first (`AnswerInv`);
  `NestsOnce`, for answers that agree about the type, as only what is no directory leads from
  `do_readdirplus()` to `do_getattr()` and only a directory back (`DepthInv`);
  `IncreasesWithDots`, as with `-a` the position stands still only while a page has entries left or
  had none (`PositionInv`).  The server's honesty, the page size, the number of changes and the size
  of the stack are arbitrary, and answers may be empty before the end.
  `MissesNothing` from `MissInv`: an entry that was there all the time is listed or hidden if it is at or
  before `cookie`, and else waits in the page or behind it; this is where an honest server's eof
  and order are needed.
- **NfsDfLoopProofs**.  `timespecadd`, `timespecsub` and the comparison are shown exact in nanoseconds
  (`AddsExactly`, `SubtractsExactly`, `ComparesExactly`), which needs both arguments normalised;
  `LoopInv` adds that a sleep together with the time gone is one period.  From it `KeepsThePeriod` and
  `ClockInvariant`.  `PrintsRightRows` rests on `PartsOfQuotient` (a quotient of a sum is the sum of
  the quotients, or one more) and on the choice of the largest prefix (`BestPrefixIs`, `HumanSize`).
- **NfsMountProofs**.  `MountIInvariant`: `MountInv` is not inductive, because a total is about exports
  that only the list knows, and a list about options that are long read.  `IInv` adds the
  options `getopt()` lets pass (`OptionsInv`, `Agree`); where the list is built and that it has
  room for `cfg.count` results (`ListInv`); that nothing is asked before the first round
  (`StartInv`); the counter of every export by its place before or behind the cursor
  (`TurnInv`, as long as all servers could be connected to); how far the rounds and the
  counts of the others may be ahead of the first export, by the rounds its target was missed in
  (`MissedInv`); what the totals tell about the counters (`TotalsInv`) and the exit status about the
  totals.  `WithAddressEffect` says what a step of
  `make_target()` does to a list without doubles, `CountRequestEffect` what a request does to it.
  From it `MountInvariant` and `MountsAreCounted`; the property of `UnmountsWhatItMounts` is a part of it.
  `MountMovesOn`: one case per action; of the invariant it takes the types and the list.
- **FhToolsProofs**.  `FhIInvariant` is the same for the four tools at once.  `IInv` has, besides the parts of
  `NfsMountProofs`, where the walk can be (`WalkInv`: behind the first filehandle only at a target with
  a client), what a filehandle's mean and name owe to its counters (`FilehandleInv`), the turns of
  nfslock, which leaves out targets but no filehandle of one (`LockInv`), and whose name it used
  (`NodeInv`).  Most of a call is alike: `CallKeeps` and `NextFilehandleEffect` are proved once for a
  call that changes the counters of the current filehandle only (`OneCalled`), and the tools' own
  lemmas say that theirs is one.  From it:
  - `FhToolsInvariant`, every part of `FhToolsInv`;
  - `FilehandlesStay`, by `ParsedEffect`: a line changes the target of its address by one
    filehandle at the end, or appends a target;
  - `FilesAreWritten`: `CatInv` ties `offset` to the last block written, `WholeInv` says which blocks of a
    first file are out by now;
  - `ToolsImplementRounds`: `RoundsInv` adds that every request counts in the total, and that there is one
    round without `-c` or `-l`; per kind of step, `BeginStep`, `AskStep` and `ReportStep` find the
    step of `Rounds`; `RoundsStepOrNone` puts them together.  Turns come from `TurnInv`: the cursor
    is at the first of the filehandles asked least;
  - `ToolsMoveOn`, as `MountMovesOn`: within a file the offset grows with every read that brought
    something (`ReadMovesOn`); one that brought nothing is told by `again`.

Assumptions: only those named in the modules (`RpcAssumption`, `PingAssumption`, `OneServerAssumption`,
`NfsUpAssumption`, `ClearLocksAssumption`, `OptionsAssumption`, `ReaddirplusAssumption`, `TimesAssumption`, `SizesAssumption`,
`NfsDfLoopAssumption`, `TargetListAssumption`, `NfsMountAssumption`, `FhToolAssumption`,
`NfsCatAssumption`, `NfsDfAssumption`, `NfsLockAssumption`).
TLC evaluates all of them in the runs.

Model-checked only:

- everything about termination: `CountTerminates`, `SignalTerminates`, `DotListingEnds` and the two
  `Ends` are liveness properties, which the prover does not reach (what of them is safety, `EveryStepMovesOn`,
  `SignalObeyed` and the counts of rounds, is proved);
- what the code violates: `PositionIncreases` and the properties listed under "Properties the code does not
  have".

## Not modelled, and limits

- `xdr_copy.c` (a copy by encoding and decoding), the rpcgen interfaces, the vendored `parson` and
  `hdr`, the Smokeping probe and the packaging have no control of their own.
- `nfsping -N` is an instance of `NfsPing` with `InitPort` 111, which `RpcAssumption` excludes;
  it makes no lookups.
- A round trip of 0 microseconds, which the `-C` line would show as lost, is excluded by
  `Rtt`; so are times above `HistMax` in `ping_count` (a timeout ends the call near the end of
  the histogram's range).
- `nfsmount` and the filehandle tools are not composed with `RpcClient`: a connection is made or not.
  `NfsLs` is not composed with `Readdirplus`: a listing gives entries or not, takes another answer that
  brings nothing, or recurses to the end of the stack.
- The files nfscat reads do not change, and the length of the data in a READ is its count (`cat.c` writes
  the one and adds the other).
- The three protocol versions of `mount.c` differ only in the layout of their answers and are one.
- Text, JSON and Graphite output, colours, headers, column widths, and the statistics of response
  times outside `nfsping` (but for whether nfsls's mean is a number).
- `hertz * summary_interval` (`nfsping.c` 782, 990) is not taken modulo the width of an
  `unsigned long`; times and sizes have no width either but for the unsigned difference of sizes, as
  64 bits hold what the assumptions allow.
- The clock is modelled for nfsdf with one filehandle; the other loops use the same lines.  The
  frequency of `-H 0` with nfscat, a division by zero (`cat.c:199`), is an exit `crashed`.
- Source addresses (`-S`) appear only as a failed bind.

## Plan

Done: all components with logic of their own, in the order connections, nfsping, `ClearLocks`,
`NfsUp`, `PingOptions`, `TargetList`, `NfsMount`, the filehandle tools, `Readdirplus`, numbers; the
refinements of `Poller` and `Rounds`; theorems about each of them, and both refinements.

Left, in order of value:

1. A composition of `NfsLs` with `Readdirplus`, and of `NfsMount` with `RpcClient`, so that a listing and a
   connection have their causes in the model.
2. The clock of the loops with several targets, whose round takes as long as all its calls together.
