-------------------------- MODULE RpcClientProofs ---------------------------
(***************************************************************************)
(* Proofs about RpcClient, for any number of targets, programs, ports and  *)
(* sockets, over UDP and TCP.  There is one lemma per step of rpc.c and of *)
(* its surroundings: each preserves RpcInv.  They do not mention RpcSpec,  *)
(* so modules that compose RpcClient with a tool cite them as well.        *)
(***************************************************************************)
EXTENDS RpcClient, TLAPS

\* Setting out for a server, by way of its portmapper or directly, keeps the
\* invariant.
LEMMA CreateKeepsInv ==
    ASSUME NEW t \in Target, NEW p \in Program, RpcInv, create_rpc_client(t, p)
    PROVE  RpcInv'
  <1> USE RpcAssumption
  <1>1. /\ RpcTypeOK /\ SocketsNotShared /\ ClientUsesSinPort
        /\ call = NULL /\ client[t] = NULL
        /\ client' = client /\ UNCHANGED <<registry, stable, given>>
    BY DEF RpcInv, create_rpc_client, PortmapConnect, UseKnownPort
  <1>2. CASE PortmapConnect(t, p)
    <2>1. sin_port' = [sin_port EXCEPT ![t] = PMAPPORT]
      BY <1>2 DEF PortmapConnect
    <2>2. open \subseteq open' /\ open' \subseteq Fds
      BY <1>1, <1>2 DEF PortmapConnect, OpenSocket, LowestFree, RpcTypeOK
    <2>3. call' = NULL \/ call' = [step |-> "getport", target |-> t, prog |-> p]
      BY <1>2 DEF PortmapConnect
    <2>4. RpcTypeOK'
      BY <1>1, <2>1, <2>2, <2>3 DEF RpcTypeOK, Call
    <2>5. SocketsNotShared'
      BY <1>1, <2>2 DEF SocketsNotShared
    <2>6. ClientUsesSinPort'
      BY <1>1, <2>1 DEF ClientUsesSinPort, RpcTypeOK
    <2>7. QED
      BY <1>1, <2>1, <2>3, <2>4, <2>5, <2>6 DEF RpcInv, RpcTypeOK
  <1>3. CASE ~LookupNeeded(t) /\ UseKnownPort(t, p)
    <2>1. /\ sin_port[t] # 0 /\ sin_port' = sin_port /\ open' = open
          /\ call' = [step |-> "connect", target |-> t, prog |-> p]
      BY <1>3 DEF LookupNeeded, UseKnownPort
    <2>2. RpcTypeOK'
      BY <1>1, <2>1 DEF RpcTypeOK, Call
    <2>3. SocketsNotShared' /\ ClientUsesSinPort'
      BY <1>1, <2>1 DEF SocketsNotShared, ClientUsesSinPort
    <2>4. QED
      BY <1>1, <2>1, <2>2, <2>3 DEF RpcInv
  <1>4. QED
    BY <1>2, <1>3 DEF create_rpc_client

\* Storing the portmapper's answer keeps the invariant: the target has no
\* client whose port could come to differ.
LEMMA GetPortKeepsInv ==
    ASSUME RpcInv, get_rpc_port
    PROVE  RpcInv'
  <1> USE RpcAssumption
  <1>1. /\ RpcTypeOK /\ SocketsNotShared /\ ClientUsesSinPort
        /\ call \in Call /\ call.target \in Target /\ call.prog \in Program
        /\ client[call.target] = NULL
        /\ UNCHANGED <<client, open, registry, stable>>
    BY DEF RpcInv, RpcTypeOK, get_rpc_port, Call
  <1>2. PICK port \in PortmapAnswers(call.target, call.prog) :
          /\ sin_port' = [sin_port EXCEPT ![call.target] = port]
          /\ call' = IF port = 0 THEN NULL ELSE [call EXCEPT !.step = "connect"]
          /\ given' = IF port = 0 THEN given
                      ELSE given \cup {<<call.target, call.prog, port>>}
    BY DEF get_rpc_port
  <1>3. port \in Port \cup {0}
    BY <1>1, <1>2 DEF PortmapAnswers, RpcTypeOK
  <1>4. call' = NULL \/ (port # 0 /\ call' \in Call /\ call'.step = "connect"
                                  /\ call'.target = call.target)
    BY <1>1, <1>2 DEF Call
  <1>5. RpcTypeOK'
    BY <1>1, <1>2, <1>3, <1>4 DEF RpcTypeOK
  <1>6. SocketsNotShared'
    BY <1>1 DEF SocketsNotShared
  <1>7. ClientUsesSinPort'
    BY <1>1, <1>2 DEF ClientUsesSinPort, RpcTypeOK
  <1>8. QED
    BY <1>1, <1>2, <1>4, <1>5, <1>6, <1>7 DEF RpcInv, RpcTypeOK

\* The program's connection gets a socket that was free, hence nobody's.
LEMMA ConnectKeepsInv ==
    ASSUME RpcInv, ConnectProgram
    PROVE  RpcInv'
  <1> USE RpcAssumption
  <1> DEFINE t == call.target
  <1>1. /\ RpcTypeOK /\ SocketsNotShared /\ ClientUsesSinPort
        /\ call \in Call /\ t \in Target /\ call.prog \in Program
        /\ client[t] = NULL /\ sin_port[t] # 0 /\ call' = NULL
        /\ UNCHANGED <<sin_port, registry, stable, given>>
    BY DEF RpcInv, RpcTypeOK, ConnectProgram, Call
  <1>2. CASE UNCHANGED <<client, open>>
    <2>1. RpcTypeOK' /\ SocketsNotShared' /\ ClientUsesSinPort'
      BY <1>1, <1>2 DEF RpcTypeOK, SocketsNotShared, ClientUsesSinPort
    <2>2. QED
      BY <1>1, <2>1 DEF RpcInv
  <1>3. ASSUME NEW fd \in Fds, fd \notin open, open' = open \cup {fd},
               client' = client
        PROVE  RpcInv'
    <2>1. RpcTypeOK' /\ SocketsNotShared' /\ ClientUsesSinPort'
      BY <1>1, <1>3 DEF RpcTypeOK, SocketsNotShared, ClientUsesSinPort
    <2>2. QED
      BY <1>1, <2>1 DEF RpcInv
  <1>4. ASSUME NEW fd \in Fds, fd \notin open, open' = open \cup {fd},
               client' = [client EXCEPT ![t] =
                            [fd |-> fd, port |-> sin_port[t],
                             prog |-> call.prog, live |-> TRUE]]
        PROVE  RpcInv'
    <2> DEFINE c == [fd |-> fd, port |-> sin_port[t],
                     prog |-> call.prog, live |-> TRUE]
    <2>1. c \in Client /\ c # NULL
      <3>1. sin_port[t] \in Port \cup {PMAPPORT}
        BY <1>1 DEF RpcTypeOK
      <3>2. c \in Client
        BY <1>1, <3>1, Zenon DEF Client
      <3>3. QED
        BY <3>2
    <2>2. client'[t] = c /\ \A u \in Target \ {t} : client'[u] = client[u]
      BY <1>1, <1>4 DEF RpcTypeOK
    <2>3. RpcTypeOK'
      BY <1>1, <1>4, <2>1 DEF RpcTypeOK
    <2>4. SocketsNotShared'
      BY <1>1, <1>4, <2>2 DEF SocketsNotShared
    <2>5. ClientUsesSinPort'
      BY <1>1, <2>2 DEF ClientUsesSinPort
    <2>6. QED
      BY <1>1, <2>3, <2>4, <2>5 DEF RpcInv
  <1>5. QED
    BY <1>1, <1>2, <1>3, <1>4 DEF ConnectProgram, OpenSocket, LowestFree, NewClient

\* Destroying a client, or none, closes a socket that only that client had.
LEMMA DestroyKeepsInv ==
    ASSUME NEW t \in Target, RpcInv, call = NULL, destroy_rpc_client(t),
           UNCHANGED <<sin_port, call, registry, stable, given>>
    PROVE  RpcInv'
  <1> USE RpcAssumption
  <1>1. /\ client' = [client EXCEPT ![t] = NULL]
        /\ open' = IF client[t] = NULL THEN open ELSE open \ {client[t].fd}
    BY DEF destroy_rpc_client
  <1>2. RpcTypeOK'
    BY <1>1 DEF RpcInv, RpcTypeOK
  <1>3. client'[t] = NULL /\ \A u \in Target \ {t} : client'[u] = client[u]
    BY <1>1 DEF RpcInv, RpcTypeOK
  <1>4. SocketsNotShared'
    BY <1>1, <1>3 DEF RpcInv, SocketsNotShared
  <1>5. ClientUsesSinPort'
    BY <1>3 DEF RpcInv, ClientUsesSinPort
  <1>6. QED
    BY <1>2, <1>4, <1>5 DEF RpcInv

\* What servers and network do changes no address and no socket.
LEMMA EnvironmentKeepsInv ==
    ASSUME RpcInv, Environment
    PROVE  RpcInv'
  <1> USE RpcAssumption
  <1>1. CASE Stabilise
    <2>1. RpcTypeOK' /\ SocketsNotShared' /\ ClientUsesSinPort'
      BY <1>1 DEF Stabilise, RpcInv, RpcTypeOK, SocketsNotShared, ClientUsesSinPort
    <2>2. QED
      BY <1>1, <2>1 DEF Stabilise, RpcInv
  <1>2. ASSUME NEW t \in Target, NEW p \in Program, Rebind(t, p)
        PROVE  RpcInv'
    <2>1. PICK port \in Port \cup {0} :
             registry' = [registry EXCEPT ![t][p] = port]
      BY <1>2 DEF Rebind
    <2>2. UNCHANGED <<sin_port, open, call, stable, given>>
      BY <1>2 DEF Rebind
    <2>3. \/ client' = client
          \/ client[t] # NULL /\ client' = [client EXCEPT ![t].live = FALSE]
      BY <1>2 DEF Rebind
    <2>4. client' \in [Target -> Client \cup {NULL}]
      <3>1. client \in [Target -> Client \cup {NULL}]
        BY DEF RpcInv, RpcTypeOK
      <3>2. ASSUME client[t] # NULL
            PROVE  [client[t] EXCEPT !.live = FALSE] \in Client
        <4>1. client[t] \in Client
          BY <3>1, <3>2
        <4>2. QED
          BY <4>1 DEF Client
      <3>3. QED
        BY <2>3, <3>1, <3>2
    <2>5. registry' \in [Target -> [Program -> Port \cup {0}]]
      BY <2>1 DEF RpcInv, RpcTypeOK
    <2>6. RpcTypeOK'
      BY <2>2, <2>4, <2>5 DEF RpcInv, RpcTypeOK
    <2>7. ASSUME NEW u \in Target
          PROVE  /\ client'[u] = NULL <=> client[u] = NULL
                 /\ client[u] # NULL => /\ client'[u].fd = client[u].fd
                                        /\ client'[u].port = client[u].port
      <3>1. CASE client' = client
        BY <3>1
      <3>2. CASE client[t] # NULL /\ client' = [client EXCEPT ![t].live = FALSE]
        <4>1. client \in [Target -> Client \cup {NULL}] /\ NULL \notin Client
          BY DEF RpcInv, RpcTypeOK
        <4>2. CASE u = t
          <5>1. client'[u] = [client[u] EXCEPT !.live = FALSE] /\ client[u] \in Client
            BY <3>2, <4>1, <4>2
          <5>2. client'[u] \in Client /\ client'[u] # NULL
            BY <4>1, <5>1 DEF Client
          <5>3. QED
            BY <3>2, <4>2, <5>1, <5>2 DEF Client
        <4>3. CASE u # t
          BY <3>2, <4>1, <4>3
        <4>4. QED
          BY <4>2, <4>3
      <3>3. QED
        BY <2>3, <3>1, <3>2
    <2>8. SocketsNotShared'
      BY <2>2, <2>7 DEF RpcInv, SocketsNotShared
    <2>9. ClientUsesSinPort'
      BY <2>2, <2>7 DEF RpcInv, ClientUsesSinPort
    <2>10. QED
      BY <2>2, <2>6, <2>7, <2>8, <2>9 DEF RpcInv, RpcTypeOK, Call
  <1>3. QED
    BY <1>1, <1>2 DEF Environment

\* Before the first call there is no client and no socket.
LEMMA InitHasInv == RpcInit => RpcInv
  BY RpcAssumption DEF RpcInit, RpcInv, RpcTypeOK, SocketsNotShared, ClientUsesSinPort

\* A step that leaves rpc.c's state alone keeps the invariant.
LEMMA StutterKeepsInv == RpcInv /\ UNCHANGED rpcVars => RpcInv'
  BY DEF RpcInv, RpcTypeOK, SocketsNotShared, ClientUsesSinPort, rpcVars

-----------------------------------------------------------------------------
\* For every caller of rpc.c: the types, no socket shared by two clients, and
\* every client connected to the port its target's sockaddr_in shows.
THEOREM RpcInvariant == RpcSpec => []RpcInv
  <1>1. RpcInv /\ [RpcNext]_rpcVars => RpcInv'
    <2> SUFFICES ASSUME RpcInv, [RpcNext]_rpcVars
                 PROVE  RpcInv'
      OBVIOUS
    <2>1. ASSUME NEW t \in Target, NEW p \in Program, create_rpc_client(t, p)
          PROVE  RpcInv'
      BY <2>1, CreateKeepsInv
    <2>2. CASE RpcStep
      BY <2>2, GetPortKeepsInv, ConnectKeepsInv DEF RpcStep
    <2>3. ASSUME NEW t \in Target, DestroyAny(t)
          PROVE  RpcInv'
      BY <2>3, DestroyKeepsInv DEF DestroyAny
    <2>4. CASE Environment
      BY <2>4, EnvironmentKeepsInv
    <2>5. CASE UNCHANGED rpcVars
      BY <2>5, StutterKeepsInv
    <2>6. QED
      BY <2>1, <2>2, <2>3, <2>4, <2>5 DEF RpcNext
  <1>2. QED
    BY InitHasInv, <1>1, PTL DEF RpcSpec

\* The sockets of two clients differ, whatever was closed or left open before.
THEOREM SocketsNeverShared == RpcSpec => []SocketsNotShared
  <1>1. RpcInv => SocketsNotShared
    BY DEF RpcInv
  <1>2. QED
    BY RpcInvariant, <1>1, PTL

\* A port that was learned or given is what the target is called on for ever.
THEOREM LearnedPortKept == RpcSpec => LearnedPortIsKept
  <1> DEFINE Kept == \A t \in Target :
                        sin_port[t] \in Port => sin_port'[t] = sin_port[t]
  <1>1. RpcInv /\ [RpcNext]_rpcVars => [Kept]_rpcVars
    <2> SUFFICES ASSUME RpcInv, RpcNext
                 PROVE  Kept
      OBVIOUS
    <2> USE RpcAssumption
    <2>1. ASSUME NEW u \in Target, NEW p \in Program, create_rpc_client(u, p)
          PROVE  Kept
      BY <2>1 DEF create_rpc_client, LookupNeeded, PortmapConnect, UseKnownPort,
                  RpcInv, RpcTypeOK
    <2>2. CASE get_rpc_port
      <3>1. PMAPPORT \notin Port /\ sin_port[call.target] = PMAPPORT
        BY <2>2 DEF get_rpc_port, RpcInv
      <3>2. \E port : sin_port' = [sin_port EXCEPT ![call.target] = port]
        BY <2>2 DEF get_rpc_port
      <3>3. QED
        BY <3>1, <3>2 DEF RpcInv, RpcTypeOK
    <2>3. CASE ConnectProgram
      BY <2>3 DEF ConnectProgram
    <2>4. ASSUME NEW u \in Target, DestroyAny(u)
          PROVE  Kept
      BY <2>4 DEF DestroyAny
    <2>5. CASE Environment
      BY <2>5 DEF Environment, Rebind, Stabilise
    <2>6. QED
      BY <2>1, <2>2, <2>3, <2>4, <2>5 DEF RpcNext, RpcStep
  <1>2. QED
    BY RpcInvariant, <1>1, PTL DEF RpcSpec, LearnedPortIsKept

-----------------------------------------------------------------------------
\* Setting out for a server leaves the portmapper's port behind only if the
\* call returns at once.
LEMMA CreateLeavesOnReturn ==
    ASSUME NEW t \in Target, NEW p \in Program, RpcInv, create_rpc_client(t, p)
    PROVE  LeftOnReturn
  <1> USE RpcAssumption
  <1> SUFFICES ASSUME NEW u \in Target, LeftBehind(u)' # LeftBehind(u)
               PROVE  sin_port[u] = 0 /\ call = NULL /\ call' = NULL
    BY DEF LeftOnReturn
  <1>1. call = NULL /\ sin_port \in [Target -> Port \cup {0, PMAPPORT}]
    BY DEF create_rpc_client, RpcInv, RpcTypeOK
  <1>2. CASE UseKnownPort(t, p)
    <2>1. sin_port' = sin_port /\ call'.step = "connect"
      BY <1>2 DEF UseKnownPort
    <2>2. QED
      BY <1>1, <2>1 DEF LeftBehind
  <1>3. CASE LookupNeeded(t) /\ PortmapConnect(t, p)
    <2>1. sin_port[t] = 0 /\ sin_port' = [sin_port EXCEPT ![t] = PMAPPORT]
      BY <1>3 DEF LookupNeeded, PortmapConnect
    <2>2. CASE call' = NULL
      BY <1>1, <2>1, <2>2 DEF LeftBehind, PMAPPORT
    <2>3. CASE call' = [step |-> "getport", target |-> t, prog |-> p]
      <3>1. /\ call' # NULL /\ call'.step = "getport" /\ call'.target = t
        <4>1. call' \in Call
          BY <2>3 DEF Call
        <4>2. QED
          BY <2>3, <4>1
      <3>2. CASE u = t
        BY <1>1, <2>1, <3>1, <3>2 DEF LeftBehind, PMAPPORT
      <3>3. CASE u # t
        BY <1>1, <2>1, <3>1, <3>3 DEF LeftBehind
      <3>4. QED
        BY <3>2, <3>3
    <2>4. QED
      BY <1>3, <2>2, <2>3 DEF PortmapConnect
  <1>4. QED
    BY <1>2, <1>3 DEF create_rpc_client

\* The rest of a call leaves no port of the portmapper behind.
LEMMA RpcStepLeavesNothing ==
    ASSUME RpcInv, RpcStep
    PROVE  LeftOnReturn
  <1> USE RpcAssumption
  <1> SUFFICES ASSUME NEW u \in Target
               PROVE  LeftBehind(u)' = LeftBehind(u)
    BY DEF LeftOnReturn
  <1>1. /\ sin_port \in [Target -> Port \cup {0, PMAPPORT}]
        /\ call \in Call /\ call # NULL /\ call.target \in Target /\ call.prog \in Program
    BY DEF RpcStep, get_rpc_port, ConnectProgram, RpcInv, RpcTypeOK, Call
  <1>2. CASE get_rpc_port
    <2>1. PICK port \in PortmapAnswers(call.target, call.prog) :
            /\ sin_port' = [sin_port EXCEPT ![call.target] = port]
            /\ call' = IF port = 0 THEN NULL ELSE [call EXCEPT !.step = "connect"]
      BY <1>2 DEF get_rpc_port
    <2>2. port # PMAPPORT
      BY <1>1, <2>1 DEF PortmapAnswers, RpcInv, RpcTypeOK, PMAPPORT
    <2>3. call.step = "getport" /\ (call' = NULL \/ call'.step = "connect")
      BY <1>1, <1>2, <2>1 DEF get_rpc_port, Call
    <2>4. CASE u = call.target
      BY <1>1, <2>1, <2>2, <2>3, <2>4 DEF LeftBehind
    <2>5. CASE u # call.target
      BY <1>1, <2>1, <2>3, <2>5 DEF LeftBehind
    <2>6. QED
      BY <2>4, <2>5
  <1>3. CASE ConnectProgram
    BY <1>3 DEF ConnectProgram, LeftBehind
  <1>4. QED
    BY <1>2, <1>3 DEF RpcStep

-----------------------------------------------------------------------------
\* The sockets of clients, by the clients' targets.
ClientSockets == {client[t].fd : t \in {u \in Target : client[u] # NULL}}

\* Connecting and destroying take from the lost sockets none, and add to them
\* at most one, the new socket of a connection that failed.
LEMMA LossOfLookup ==
    ASSUME NEW t \in Target, NEW p \in Program, RpcInv, PortmapConnect(t, p)
    PROVE  \/ LostSockets' = LostSockets
           \/ \E fd \in Fds \ open : LostSockets' = LostSockets \cup {fd}
  <1>1. SocketsNotShared /\ client' = client
    BY DEF RpcInv, PortmapConnect
  <1>2. ClientSockets \subseteq open /\ ClientSockets' = ClientSockets
    BY <1>1 DEF SocketsNotShared, ClientSockets
  <1>3. LostSockets = open \ ClientSockets /\ LostSockets' = open' \ ClientSockets'
    BY DEF LostSockets, ClientSockets
  <1>4. open' = open \/ \E fd \in Fds \ open : open' = open \cup {fd}
    BY DEF PortmapConnect, OpenSocket, LowestFree
  <1>5. QED
    BY <1>2, <1>3, <1>4

\* A connection that succeeds makes its socket the client's.
LEMMA LossOfConnection ==
    ASSUME RpcInv, ConnectProgram
    PROVE  \/ LostSockets' = LostSockets
           \/ /\ client' = client
              /\ \E fd \in Fds \ open : LostSockets' = LostSockets \cup {fd}
  <1> USE RpcAssumption
  <1> DEFINE t == call.target
  <1>1. /\ RpcTypeOK /\ SocketsNotShared /\ call \in Call /\ t \in Target
        /\ call.prog \in Program /\ client[t] = NULL /\ sin_port[t] # 0
        /\ client \in [Target -> Client \cup {NULL}]
    BY DEF RpcInv, RpcTypeOK, ConnectProgram, Call
  <1>2. LostSockets = open \ ClientSockets /\ LostSockets' = open' \ ClientSockets'
    BY DEF LostSockets, ClientSockets
  <1>3. ClientSockets \subseteq open
    BY <1>1 DEF SocketsNotShared, ClientSockets
  <1>4. CASE UNCHANGED <<client, open>>
    BY <1>4 DEF LostSockets
  <1>5. ASSUME NEW fd \in Fds \ open, open' = open \cup {fd}, client' = client
        PROVE  LostSockets' = LostSockets \cup {fd}
    <2>1. ClientSockets' = ClientSockets
      BY <1>5 DEF ClientSockets
    <2>2. QED
      BY <1>2, <1>3, <1>5, <2>1
  <1>6. ASSUME NEW fd \in Fds \ open, open' = open \cup {fd},
               client' = [client EXCEPT ![t] = NewClient(t, call.prog, fd)]
        PROVE  LostSockets' = LostSockets
    <2> DEFINE c == NewClient(t, call.prog, fd)
    <2>1. c.fd = fd /\ c # NULL
      <3>1. sin_port[t] \in Port \cup {PMAPPORT}
        BY <1>1 DEF RpcTypeOK
      <3>2. [fd |-> fd, port |-> sin_port[t], prog |-> call.prog, live |-> TRUE] \in Client
        BY <1>1, <1>6, <3>1, Zenon DEF Client
      <3>3. QED
        BY <3>2 DEF NewClient
    <2>2. client'[t] = c /\ \A u \in Target \ {t} : client'[u] = client[u]
      BY <1>1, <1>6
    <2> HIDE DEF c, t
    <2>3. ClientSockets' = ClientSockets \cup {fd}
      <3>1. {u \in Target : client'[u] # NULL} = {u \in Target : client[u] # NULL} \cup {t}
        BY <1>1, <2>1, <2>2
      <3>2. {client'[u].fd : u \in {v \in Target : client[v] # NULL} \cup {t}}
            = {client[u].fd : u \in {v \in Target : client[v] # NULL}} \cup {fd}
        BY <1>1, <2>1, <2>2
      <3>3. QED
        BY <3>1, <3>2 DEF ClientSockets
    <2>4. QED
      BY <1>2, <1>6, <2>3
  <1>7. QED
    BY <1>4, <1>5, <1>6 DEF ConnectProgram, OpenSocket, LowestFree

\* Destroying a client closes its socket, and that one only.
LEMMA DestroyLosesNothing ==
    ASSUME NEW t \in Target, RpcInv, destroy_rpc_client(t)
    PROVE  LostSockets' = LostSockets
  <1>1. /\ SocketsNotShared /\ client \in [Target -> Client \cup {NULL}]
        /\ client' = [client EXCEPT ![t] = NULL]
        /\ open' = IF client[t] = NULL THEN open ELSE open \ {client[t].fd}
    BY DEF RpcInv, RpcTypeOK, destroy_rpc_client
  <1> DEFINE Held == {u \in Target : client[u] # NULL}
  <1>2. client'[t] = NULL /\ \A u \in Target \ {t} : client'[u] = client[u]
    BY <1>1
  <1>3. {u \in Target : client'[u] # NULL} = Held \ {t}
    BY <1>2
  <1>4. ClientSockets' = {client[u].fd : u \in Held \ {t}}
    <2>1. {client'[u].fd : u \in Held \ {t}} = {client[u].fd : u \in Held \ {t}}
      BY <1>2
    <2>2. QED
      BY <1>3, <2>1 DEF ClientSockets
  <1>5. LostSockets = open \ ClientSockets /\ LostSockets' = open' \ ClientSockets'
    BY DEF LostSockets, ClientSockets
  <1>6. CASE client[t] = NULL
    <2>1. ClientSockets' = ClientSockets
      BY <1>4, <1>6 DEF ClientSockets
    <2>2. QED
      BY <1>1, <1>5, <1>6, <2>1
  <1>7. CASE client[t] # NULL
    <2>1. \A u \in Held \ {t} : client[u].fd # client[t].fd
      BY <1>1, <1>7 DEF SocketsNotShared
    <2>2. ClientSockets = ClientSockets' \cup {client[t].fd}
      BY <1>4, <1>7 DEF ClientSockets
    <2>3. QED
      BY <1>1, <1>4, <1>5, <1>7, <2>1, <2>2
  <1>8. QED
    BY <1>6, <1>7

\* What servers do changes no client's socket.
LEMMA EnvironmentLosesNothing ==
    ASSUME RpcInv, Environment
    PROVE  LostSockets' = LostSockets
  <1> USE RpcAssumption
  <1>1. open' = open /\ client \in [Target -> Client \cup {NULL}]
    BY DEF Environment, Rebind, Stabilise, RpcInv, RpcTypeOK
  <1>2. CASE client' = client
    BY <1>1, <1>2 DEF LostSockets
  <1>3. ASSUME NEW t \in Target, client[t] # NULL,
               client' = [client EXCEPT ![t].live = FALSE]
        PROVE  LostSockets' = LostSockets
    <2>1. client[t] \in Client
      BY <1>1, <1>3
    <2> DEFINE c == [client[t] EXCEPT !.live = FALSE]
    <2>2. c # NULL /\ c.fd = client[t].fd
      <3>1. c \in Client
        BY <2>1 DEF Client
      <3>2. QED
        BY <2>1, <3>1 DEF Client
    <2>3. client'[t] = c /\ \A u \in Target \ {t} : client'[u] = client[u]
      BY <1>1, <1>3
    <2> HIDE DEF c
    <2>4. /\ \A u \in Target : client'[u] # NULL <=> client[u] # NULL
          /\ \A u \in Target : client'[u].fd = client[u].fd
      BY <1>3, <2>2, <2>3
    <2>5. ClientSockets' = ClientSockets
      BY <2>4 DEF ClientSockets
    <2>6. QED
      BY <1>1, <2>5 DEF LostSockets, ClientSockets
  <1>4. QED
    BY <1>2, <1>3 DEF Environment, Rebind, Stabilise

\* Whoever calls rpc.c: a socket that no client has comes from a lookup or
\* from a connection that failed, and stays open for the rest of the run.
THEOREM SocketsAreLostInCalls == RpcSpec => OnlyCallsLoseSockets
  <1> DEFINE Lost == LostSockets' # LostSockets =>
               /\ \E fd \in Fds \ open : LostSockets' = LostSockets \cup {fd}
               /\ \/ \E t \in Target : sin_port[t] = 0 /\ sin_port'[t] = PMAPPORT
                  \/ call # NULL /\ call.step = "connect" /\ client' = client
  <1>1. RpcInv /\ [RpcNext]_rpcVars => [Lost]_rpcVars
    <2> SUFFICES ASSUME RpcInv, RpcNext, LostSockets' # LostSockets
                 PROVE  Lost
      OBVIOUS
    <2>1. ASSUME NEW t \in Target, NEW p \in Program, create_rpc_client(t, p)
          PROVE  Lost
      <3>1. LookupNeeded(t) /\ PortmapConnect(t, p)
        BY <2>1 DEF create_rpc_client, UseKnownPort, LostSockets
      <3>2. sin_port[t] = 0 /\ sin_port'[t] = PMAPPORT
        BY <3>1 DEF LookupNeeded, PortmapConnect, RpcInv, RpcTypeOK
      <3>3. QED
        BY <3>1, <3>2, LossOfLookup
    <2>2. CASE get_rpc_port
      BY <2>2 DEF get_rpc_port, LostSockets
    <2>3. CASE ConnectProgram
      BY <2>3, LossOfConnection DEF ConnectProgram
    <2>4. ASSUME NEW t \in Target, DestroyAny(t)
          PROVE  Lost
      BY <2>4, DestroyLosesNothing DEF DestroyAny
    <2>5. CASE Environment
      BY <2>5, EnvironmentLosesNothing
    <2>6. QED
      BY <2>1, <2>2, <2>3, <2>4, <2>5 DEF RpcNext, RpcStep
  <1>2. QED
    BY RpcInvariant, <1>1, PTL DEF RpcSpec, OnlyCallsLoseSockets
=============================================================================
