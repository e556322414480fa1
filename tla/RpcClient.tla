----------------------------- MODULE RpcClient ------------------------------
(***************************************************************************)
(* src/src/rpc.c: how every tool of the repository gets a connection to an *)
(* RPC program on a server.  create_rpc_client() looks the port up with    *)
(* the server's portmapper when the caller's sockaddr_in has port 0, keeps *)
(* the answer in that sockaddr_in, and connects; destroy_rpc_client()      *)
(* tears the connection down.  The tools are single threaded, so one call  *)
(* is in progress at a time, but the servers change while it runs: the     *)
(* call is split where it waits for the network.                           *)
(*                                                                         *)
(* Sockets are numbered from 1; socket() returns the lowest free number    *)
(* and fails when MaxFds (RLIMIT_NOFILE) of them are open.                 *)
(***************************************************************************)
EXTENDS Naturals, FiniteSets

CONSTANTS
    Target,       \* the servers, one sockaddr_in (client_sock) each
    Program,      \* the RPC programs the caller talks to
    Port,         \* the ports a program can listen on (not the portmapper's)
    MaxFds,       \* how many sockets the process may have open
    InitPort,     \* the port init_target() stores: 0 = use the portmapper
    Tcp,          \* TRUE for SOCK_STREAM (-T), FALSE for SOCK_DGRAM
    LocalErrors,  \* TRUE if bind, bindresvport, routing or memory may fail
    NULL          \* no client, no call

PMAPPORT == 111

Fds == 1 .. MaxFds

\* A CLIENT: its socket, the address and program it was created for, and
\* whether the server still has the other end of a TCP connection.
Client == [fd : Fds, port : Port \cup {PMAPPORT}, prog : Program, live : BOOLEAN]

\* A create_rpc_client() in progress, named for the step it will do next.
Call == [step : {"getport", "connect"}, target : Target, prog : Program]

ASSUME RpcAssumption ==
    /\ Port \subseteq Nat \ {0, PMAPPORT}
    /\ InitPort \in Port \cup {0}
    /\ MaxFds \in Nat
    /\ Tcp \in BOOLEAN
    /\ LocalErrors \in BOOLEAN
    /\ NULL \notin Client
    /\ NULL \notin Call

VARIABLES
    sin_port,  \* per target, client_sock->sin_port: 0, PMAPPORT or a port
    client,    \* per target, the CLIENT the caller holds, or NULL
    open,      \* the process's open sockets
    call,      \* the create_rpc_client() in progress, or NULL
    registry,  \* per target and program, the port it listens on, 0 = down
    stable,    \* TRUE once servers and network change and fail no more
    given      \* history: <<target, program, port>> answers of portmappers

rpcVars == <<sin_port, client, open, call, registry, stable, given>>

RpcTypeOK ==
    /\ sin_port \in [Target -> Port \cup {0, PMAPPORT}]
    /\ client \in [Target -> Client \cup {NULL}]
    /\ open \subseteq Fds
    /\ call \in Call \cup {NULL}
    /\ registry \in [Target -> [Program -> Port \cup {0}]]
    /\ stable \in BOOLEAN
    /\ given \subseteq Target \X Program \X Port

\* The servers start out in any state.
RpcInit ==
    /\ sin_port = [t \in Target |-> InitPort]
    /\ client = [t \in Target |-> NULL]
    /\ open = {}
    /\ call = NULL
    /\ registry \in [Target -> [Program -> Port \cup {0}]]
    /\ stable = FALSE
    /\ given = {}

-----------------------------------------------------------------------------
(***************************************************************************)
(* The network and the servers, as the sockets calls see them.             *)
(***************************************************************************)

\* connect() to a port can succeed: a datagram socket needs no peer, a
\* stream socket needs somebody listening (the portmapper always may be).
CanConnect(t, port) ==
    \/ ~Tcp
    \/ port = PMAPPORT
    \/ \E p \in Program : registry[t][p] = port

\* Setting up the socket can fail: nobody listens, the network loses the
\* handshake, or the local host refuses (bind, bindresvport, no route).
MayRefuse(t, port) ==
    \/ ~CanConnect(t, port)
    \/ ~stable /\ (Tcp \/ LocalErrors)

\* A call over t's client can be answered, or can be lost.
MayReply(t) ==
    /\ client[t] # NULL
    /\ client[t].live
    /\ registry[t][client[t].prog] = client[t].port

MayLose(t) == ~stable \/ ~MayReply(t)

\* A program (re)starts on a port or goes away; its TCP peers are cut off.
Rebind(t, p) ==
    /\ ~stable
    /\ \E port \in Port \cup {0} :
          registry' = [registry EXCEPT ![t][p] = port]
    /\ client' = IF Tcp /\ client[t] # NULL /\ client[t].prog = p
                 THEN [client EXCEPT ![t].live = FALSE]
                 ELSE client
    /\ UNCHANGED <<sin_port, open, call, stable, given>>

\* From some point on nothing changes and nothing is lost.
Stabilise ==
    /\ ~stable
    /\ stable' = TRUE
    /\ UNCHANGED <<sin_port, client, open, call, registry, given>>

Environment ==
    \/ \E t \in Target, p \in Program : Rebind(t, p)
    \/ Stabilise

-----------------------------------------------------------------------------
(***************************************************************************)
(* create_rpc_client() and destroy_rpc_client()                            *)
(***************************************************************************)

\* socket() hands out the lowest free descriptor.
LowestFree(fd) ==
    /\ fd \in Fds \ open
    /\ \A other \in Fds \ open : fd <= other

\* Open a socket and connect it.  A failure after socket() returns without
\* closing it; created says whether the caller goes on to use it.
OpenSocket(t, port, fd, created) ==
    /\ LowestFree(fd)
    /\ open' = open \cup {fd}
    /\ IF created THEN CanConnect(t, port) ELSE MayRefuse(t, port)

\* The portmapper leg, up to the connected socket.  The caller's sockaddr_in
\* holds the portmapper's port from here on, also if the leg fails.
PortmapConnect(t, p) ==
    /\ sin_port' = [sin_port EXCEPT ![t] = PMAPPORT]
    /\ \/ /\ Fds \subseteq open
          /\ call' = NULL
          /\ UNCHANGED open
       \/ \E fd \in Fds, created \in BOOLEAN :
             /\ OpenSocket(t, PMAPPORT, fd, created)
             /\ call' = IF created
                        THEN [step |-> "getport", target |-> t, prog |-> p]
                        ELSE NULL
    /\ UNCHANGED client

\* The port is already known: go straight to the connection.
UseKnownPort(t, p) ==
    /\ call' = [step |-> "connect", target |-> t, prog |-> p]
    /\ UNCHANGED <<sin_port, client, open>>

\* Mutants of the test below: look the port up each time, or never.
LookupAlways(t) == TRUE
LookupNever(t) == FALSE

\* "check if we need to use the portmapper, 0 = yes"
LookupNeeded(t) == sin_port[t] = 0

create_rpc_client(t, p) ==
    /\ call = NULL
    /\ client[t] = NULL
    /\ \/ LookupNeeded(t) /\ PortmapConnect(t, p)
       \/ ~LookupNeeded(t) /\ UseKnownPort(t, p)
    /\ UNCHANGED <<registry, stable, given>>

\* What the portmapper answers: the port, or 0 if the program is not
\* registered or the request got lost.
PortmapAnswers(t, p) ==
    {registry[t][p]} \cup (IF stable THEN {} ELSE {0})

\* Store the portmapper's answer and destroy the portmapper's client, which
\* leaves its socket open (CLSET_FD_CLOSE is only set on the last client).
get_rpc_port ==
    /\ call # NULL
    /\ call.step = "getport"
    /\ \E port \in PortmapAnswers(call.target, call.prog) :
          /\ sin_port' = [sin_port EXCEPT ![call.target] = port]
          /\ call' = IF port = 0 THEN NULL ELSE [call EXCEPT !.step = "connect"]
          /\ given' = IF port = 0 THEN given
                      ELSE given \cup {<<call.target, call.prog, port>>}
    /\ UNCHANGED <<client, open, registry, stable>>

\* Mutant: the client is created with the portmapper's address.
PortmapperClient(t, p, fd) ==
    [fd |-> fd, port |-> PMAPPORT, prog |-> p, live |-> TRUE]

\* What clnttcp_create() or clntudp_create() makes of a connected socket.
NewClient(t, p, fd) ==
    [fd |-> fd, port |-> sin_port[t], prog |-> p, live |-> TRUE]

\* The program's own connection, over a socket of its own.
ConnectProgram ==
    /\ call # NULL
    /\ call.step = "connect"
    /\ call' = NULL
    /\ \/ /\ Fds \subseteq open
          /\ UNCHANGED <<client, open>>
       \/ \E fd \in Fds, created \in BOOLEAN :
             LET t == call.target IN
             /\ OpenSocket(t, sin_port[t], fd, created)
             /\ client' = IF created
                          THEN [client EXCEPT ![t] = NewClient(t, call.prog, fd)]
                          ELSE client
    /\ UNCHANGED <<sin_port, registry, stable, given>>

\* Mutant: the socket stays open.
DestroyLeaking(t) ==
    /\ client' = [client EXCEPT ![t] = NULL]
    /\ UNCHANGED open

\* What destroy_rpc_client() does to the clients and the sockets; nothing if
\* there is no client.
destroy_rpc_client(t) ==
    /\ client' = [client EXCEPT ![t] = NULL]
    /\ open' = IF client[t] = NULL THEN open ELSE open \ {client[t].fd}

\* The part of a call that runs inside rpc.c once it has been entered.
RpcStep == get_rpc_port \/ ConnectProgram

-----------------------------------------------------------------------------
(***************************************************************************)
(* The component alone, under the most general caller: any target that has *)
(* no client may be connected, any client may be destroyed.                *)
(***************************************************************************)
DestroyAny(t) ==
    /\ call = NULL
    /\ client[t] # NULL
    /\ destroy_rpc_client(t)
    /\ UNCHANGED <<sin_port, call, registry, stable, given>>

RpcNext ==
    \/ \E t \in Target, p \in Program : create_rpc_client(t, p)
    \/ RpcStep
    \/ \E t \in Target : DestroyAny(t)
    \/ Environment

RpcSpec == RpcInit /\ [][RpcNext]_rpcVars

-----------------------------------------------------------------------------
\* rpc.c:147 "Make sure and make new sockets for each new connection":
\* every client has an open socket that no other client has, whatever
\* sockets earlier clients closed or failed calls left open.
SocketsNotShared ==
    \A t \in Target :
       client[t] # NULL =>
          /\ client[t].fd \in open
          /\ \A u \in Target \ {t} :
                client[u] # NULL => client[u].fd # client[t].fd

\* A client is connected to the port the sockaddr_in of its target holds:
\* what the tools print about a target is where its requests go.
ClientUsesSinPort ==
    \A t \in Target : client[t] # NULL => client[t].port = sin_port[t]

\* The last two facts with what makes them inductive: a call in progress is
\* for a target without a client, its portmapper leg shows as PMAPPORT in
\* the sockaddr_in, and its program leg has a port to go to.
RpcInv ==
    /\ RpcTypeOK
    /\ SocketsNotShared
    /\ ClientUsesSinPort
    /\ call # NULL =>
          /\ client[call.target] = NULL
          /\ call.step = "getport" => sin_port[call.target] = PMAPPORT
          /\ call.step = "connect" => sin_port[call.target] # 0

\* A port once learned (or given with -P) is never looked up again: no step
\* of rpc.c replaces it, even when the program has moved.
LearnedPortIsKept ==
    [][\A t \in Target :
          sin_port[t] \in Port => sin_port'[t] = sin_port[t]]_rpcVars

\* The port a target's client calls its program on is the one from -P, or one
\* that the target's portmapper gave for this program.
PortIsKnown(t) ==
    \/ client[t].port = InitPort
    \/ <<t, client[t].prog, client[t].port>> \in given

\* t's sockaddr_in holds the portmapper's port and nobody is asking the
\* portmapper: from here on it is taken for the program's port.
LeftBehind(t) ==
    /\ sin_port[t] = PMAPPORT
    /\ ~(call # NULL /\ call.step = "getport" /\ call.target = t)

\* The portmapper's port is left behind by a create_rpc_client() that returns
\* before it has asked, by no other step, and stays there.
LeftOnReturn ==
    \A t \in Target :
       LeftBehind(t)' # LeftBehind(t) => sin_port[t] = 0 /\ call = NULL /\ call' = NULL

\* rpc.c:145 "by now we should have a port defined unless the program isn't
\* registered".  It does not hold: PortIsKnownOrLeft says what does.
PortIsFromPortmapper == \A t \in Target : client[t] # NULL => PortIsKnown(t)

\* A program is called on a port of its own, or else on the portmapper's,
\* and that only after an earlier call for the same target returned between
\* rpc.c:81 and rpc.c:134 without asking (no socket, no local port, no
\* connection).
PortIsKnownOrLeft ==
    /\ [](\A t \in Target :
             client[t] # NULL =>
                PortIsKnown(t) \/ (client[t].port = PMAPPORT /\ LeftBehind(t)))
    /\ [][LeftOnReturn]_rpcVars

\* rpc.c:136 "close the portmapper connection": between calls the only open
\* sockets are those of the clients.  It does not hold: OnlyCallsLoseSockets
\* says what does.
OnlyClientSocketsOpen ==
    call = NULL => open = {client[t].fd : t \in {u \in Target : client[u] # NULL}}

\* The open sockets that no client has: nothing will close them.
LostSockets == open \ {client[t].fd : t \in {u \in Target : client[u] # NULL}}

\* A socket is lost by a lookup (to the portmapper's client, rpc.c:137, or to
\* an early return before it) or by a connection that fails (rpc.c:185), one
\* new socket at a time; it is never lost by a client that worked, and no
\* later call gets hold of it again.
OnlyCallsLoseSockets ==
    [][LostSockets' # LostSockets =>
          /\ \E fd \in Fds \ open : LostSockets' = LostSockets \cup {fd}
          /\ \/ \E t \in Target : sin_port[t] = 0 /\ sin_port'[t] = PMAPPORT
             \/ call # NULL /\ call.step = "connect" /\ client' = client]_rpcVars
=============================================================================
