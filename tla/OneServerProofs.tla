-------------------------- MODULE OneServerProofs --------------------------
(***************************************************************************)
(* Proofs about the tools that talk to one server, nfsup and clear_locks,  *)
(* for any ports, any number of sockets, either transport, and any failure *)
(* of the server, network or host.                                         *)
(***************************************************************************)
EXTENDS NfsUp, ClearLocks, RpcClientProofs

\* With sockets 1..k open, socket() gives the next one.
LEMMA NextSocket ==
    ASSUME NEW k \in Nat, MaxFds \in Nat, k < MaxFds, open = 1 .. k
    PROVE  /\ ~(Fds \subseteq open)
           /\ \A fd \in Fds : LowestFree(fd) => fd = k + 1
           /\ open \cup {k + 1} = 1 .. (k + 1)
  <1>1. k + 1 \in Fds \ open
    BY DEF Fds
  <1>2. \A fd \in Fds \ open : fd >= k + 1
    BY DEF Fds
  <1>3. \A fd \in Fds : LowestFree(fd) => fd = k + 1
    BY <1>1, <1>2 DEF LowestFree, Fds
  <1>4. QED
    BY <1>1, <1>3

\* Once nothing fails any more, a connection is only refused where nobody
\* listens.
LEMMA StableAccepts ==
    ASSUME stable, NEW t, NEW port, CanConnect(t, port)
    PROVE  ~MayRefuse(t, port)
  BY DEF MayRefuse

\* With sockets 1..k open and nothing to refuse it, the way to the portmapper takes
\* the next one.
LEMMA LookupOpens ==
    ASSUME NEW p \in Program, NEW k \in Nat, k < MaxFds, open = 1 .. k,
           ~MayRefuse(Server, PMAPPORT), client[Server] = NULL,
           PortmapConnect(Server, p)
    PROVE  /\ open' = 1 .. (k + 1)
           /\ client'[Server] = NULL
           /\ call' = [step |-> "getport", target |-> Server, prog |-> p]
           /\ call' # NULL
  <1> USE OneServerAssumption, RpcAssumption
  <1>1. /\ ~(Fds \subseteq open)
        /\ \A fd \in Fds : LowestFree(fd) => fd = k + 1
        /\ open \cup {k + 1} = 1 .. (k + 1)
    BY NextSocket
  <1>2. PICK fd \in Fds, created \in BOOLEAN :
          /\ OpenSocket(Server, PMAPPORT, fd, created)
          /\ call' = IF created
                     THEN [step |-> "getport", target |-> Server, prog |-> p]
                     ELSE NULL
    BY <1>1 DEF PortmapConnect
  <1>3. created
    BY <1>2 DEF OpenSocket
  <1>4. open' = 1 .. (k + 1)
    BY <1>1, <1>2 DEF OpenSocket
  <1>5. call' \in Call
    BY <1>2, <1>3 DEF Call
  <1>6. QED
    BY <1>2, <1>3, <1>4, <1>5 DEF PortmapConnect

\* The server and the network only change the registry and whether the other
\* end of the connection is there, and only while they are not stable.
LEMMA EnvironmentKeepsClient ==
    ASSUME RpcTypeOK, Environment
    PROVE  /\ ~stable /\ UNCHANGED <<sin_port, open, call, given>>
           /\ client[Server] = NULL <=> client'[Server] = NULL
           /\ client[Server] # NULL => /\ client'[Server].prog = client[Server].prog
                                       /\ client'[Server].port = client[Server].port
  <1> USE OneServerAssumption, RpcAssumption
  <1>1. Server \in Target /\ ~stable /\ UNCHANGED <<sin_port, open, call, given>>
    BY DEF Environment, Rebind, Stabilise
  <1>2. \/ client' = client
        \/ client[Server] # NULL /\ client' = [client EXCEPT ![Server].live = FALSE]
    BY DEF Environment, Rebind, Stabilise
  <1>3. CASE client' = client
    BY <1>1, <1>3
  <1>4. CASE client[Server] # NULL /\ client' = [client EXCEPT ![Server].live = FALSE]
    <2>1. client[Server] \in Client
      BY <1>1, <1>4 DEF RpcTypeOK
    <2>2. client'[Server] = [client[Server] EXCEPT !.live = FALSE]
      BY <1>1, <1>4 DEF RpcTypeOK
    <2>3. client'[Server] \in Client
      BY <2>1, <2>2 DEF Client
    <2>4. QED
      BY <1>1, <1>4, <2>1, <2>2, <2>3 DEF Client
  <1>5. QED
    BY <1>2, <1>3, <1>4

-----------------------------------------------------------------------------
(***************************************************************************)
(* nfsup                                                                   *)
(***************************************************************************)

\* The state of rpc.c stays in order, also when main() sets the port.
LEMMA UpRpcStep ==
    ASSUME UpInv, [UpNext]_nfsupVars
    PROVE  RpcInv'
  <1> USE NfsUpAssumption, OneServerAssumption, RpcAssumption
  <1>1. RpcInv /\ Server \in Target
    BY DEF UpInv
  <1>2. CASE UNCHANGED rpcVars
    BY <1>1, <1>2, StutterKeepsInv
  <1>3. CASE Start
    <2>1. /\ sin_port' = [sin_port EXCEPT ![Server] = PMAPPORT]
          /\ UNCHANGED <<client, open, call, registry, stable, given>>
          /\ call = NULL /\ client[Server] = NULL
      BY <1>3 DEF Start, UpInv, PortInv
    <2>2. RpcTypeOK'
      BY <1>1, <2>1 DEF RpcInv, RpcTypeOK
    <2>3. SocketsNotShared'
      BY <1>1, <2>1 DEF RpcInv, SocketsNotShared
    <2>4. ClientUsesSinPort'
      BY <1>1, <2>1 DEF ClientUsesSinPort
    <2>5. QED
      BY <2>1, <2>2, <2>3, <2>4 DEF RpcInv
  <1>4. CASE Connect
    <2>1. Protocol[stage] \in Program
      BY DEF UpInv, UpTypeOK, Protocol
    <2>2. QED
      BY <1>1, <1>4, <2>1, CreateKeepsInv DEF Connect
  <1>5. CASE UpConnecting
    BY <1>1, <1>5, GetPortKeepsInv, ConnectKeepsInv DEF UpConnecting, RpcStep
  <1>6. CASE Answered
    <2>1. /\ call = NULL /\ destroy_rpc_client(Server)
          /\ UNCHANGED <<call, registry, stable, given>>
          /\ sin_port' = sin_port \/ sin_port' = [sin_port EXCEPT ![Server] = 0]
      BY <1>6 DEF Answered, ForgetPort
    <2>2. client' = [client EXCEPT ![Server] = NULL] /\ client'[Server] = NULL
      BY <1>1, <2>1 DEF destroy_rpc_client, RpcInv, RpcTypeOK
    <2>3. open' \subseteq open /\ open' \subseteq Fds
      BY <1>1, <2>1 DEF destroy_rpc_client, RpcInv, RpcTypeOK
    <2>4. RpcTypeOK'
      BY <1>1, <2>1, <2>2, <2>3 DEF RpcInv, RpcTypeOK
    <2>5. SocketsNotShared'
      BY <1>1, <2>2 DEF SocketsNotShared
    <2>6. ClientUsesSinPort'
      BY <1>1, <2>2 DEF ClientUsesSinPort
    <2>7. QED
      BY <2>1, <2>4, <2>5, <2>6 DEF RpcInv
  <1>7. CASE UpServers
    BY <1>1, <1>7, EnvironmentKeepsInv DEF UpServers
  <1>8. QED
    BY <1>2, <1>3, <1>4, <1>5, <1>6, <1>7
    DEF UpNext, UpProcess, Unanswered, NoClient, Exit, UpEnded, nfsupVars

\* Every step keeps the types.
LEMMA UpTypeStep ==
    ASSUME UpInv, [UpNext]_nfsupVars
    PROVE  UpTypeOK'
  <1> USE NfsUpAssumption, OneServerAssumption
  <1>1. UpTypeOK /\ RpcTypeOK'
    BY UpRpcStep DEF UpInv, RpcInv
  <1>2. CASE Start \/ Connect
    BY <1>1, <1>2 DEF Start, Connect, UpTypeOK, RpcTypeOK
  <1>3. CASE Answered
    <2>1. Protocol[stage] \in Program /\ stage' \in 1 .. 3
      BY <1>1, <1>3 DEF UpTypeOK, Protocol, Answered
    <2>2. QED
      BY <1>1, <1>3, <2>1 DEF Answered, UpTypeOK
  <1>4. CASE Unanswered \/ NoClient \/ Exit
    BY <1>1, <1>4 DEF Unanswered, NoClient, Exit, UpTypeOK
  <1>5. CASE UNCHANGED upVars
    BY <1>1, <1>5 DEF UpTypeOK, upVars
  <1>6. QED
    BY <1>2, <1>3, <1>4, <1>5 DEF UpNext, UpProcess, UpConnecting, UpServers, UpEnded, nfsupVars

\* Every step keeps status in line with the answers.
LEMMA UpStatusStep ==
    ASSUME UpInv, [UpNext]_nfsupVars
    PROVE  StatusInv'
  <1> USE NfsUpAssumption, OneServerAssumption
  <1>1. /\ StatusInv /\ stage \in {1, 2, 3} /\ status \in BOOLEAN
        /\ pc \in {"start", "connect", "call", "exit", "done"}
    BY DEF UpInv, UpTypeOK
  <1>2. CASE Start \/ Connect
    BY <1>1, <1>2 DEF Start, Connect, StatusInv, Earlier
  <1>3. CASE Answered
    <2>1. /\ pc = "call" /\ status' = TRUE /\ replied = Earlier
          /\ replied' = replied \cup {Protocol[stage]} /\ state' = "running"
      BY <1>1, <1>3 DEF Answered, StatusInv
    <2>2. CASE stage = 1
      <3>1. pc' = "connect" /\ stage' = 2 /\ replied' = {PMAPPROG}
        BY <1>3, <2>1, <2>2 DEF Answered, Earlier, Protocol
      <3>2. QED
        BY <2>1, <3>1 DEF StatusInv, Earlier
    <2>3. CASE stage = 2
      <3>1. pc' = "connect" /\ stage' = 3 /\ replied' = {PMAPPROG, MOUNTPROG}
        BY <1>3, <2>1, <2>3 DEF Answered, Earlier, Protocol
      <3>2. QED
        BY <2>1, <3>1 DEF StatusInv, Earlier
    <2>4. CASE stage = 3
      <3>1. pc' = "exit" /\ replied' = AllProtocols
        BY <1>3, <2>1, <2>4 DEF Answered, Earlier, Protocol, AllProtocols
      <3>2. QED
        BY <2>1, <3>1 DEF StatusInv
    <2>5. QED
      BY <1>1, <2>2, <2>3, <2>4
  <1>4. CASE Unanswered \/ NoClient
    <2>1. /\ pc = "call" /\ pc' = "exit" /\ UNCHANGED <<stage, state, replied>>
          /\ status' = FALSE \/ (stage = 1 /\ status' = status)
      BY <1>4 DEF Unanswered, NoClient
    <2>2. stage = 1 => ~status
      BY <1>1, <2>1 DEF StatusInv
    <2>3. ~status'
      BY <2>1, <2>2
    <2>4. replied # AllProtocols
      BY <1>1, <2>1 DEF StatusInv, Earlier, AllProtocols
    <2>5. QED
      BY <1>1, <2>1, <2>3, <2>4 DEF StatusInv
  <1>5. CASE Exit
    BY <1>1, <1>5 DEF Exit, StatusInv
  <1>6. CASE UNCHANGED upVars
    BY <1>1, <1>6 DEF StatusInv, upVars, Earlier
  <1>7. QED
    BY <1>2, <1>3, <1>4, <1>5, <1>6
    DEF UpNext, UpProcess, UpConnecting, UpServers, UpEnded, nfsupVars

\* Every step keeps the port in line with the protocol.
LEMMA UpPortStep ==
    ASSUME UpInv, [UpNext]_nfsupVars
    PROVE  PortInv'
  <1> USE NfsUpAssumption, OneServerAssumption, RpcAssumption
  <1>1. /\ PortInv /\ RpcTypeOK /\ RpcInv /\ EachAtItsPort
        /\ stage \in {1, 2, 3} /\ Server \in Target
        /\ pc \in {"start", "connect", "call", "exit", "done"}
    BY DEF UpInv, UpTypeOK, PortInv
  <1>2. stage = 1 => Protocol[stage] = PMAPPROG
    BY DEF Protocol
  <1>3. CASE Start
    <2>1. /\ pc' = "connect" /\ pc = "start" /\ stage = 1 /\ stage' = 1
          /\ sin_port'[Server] = PMAPPORT
          /\ UNCHANGED <<client, call, given>>
      BY <1>1, <1>3 DEF Start, UpInv, StatusInv, RpcTypeOK
    <2>2. QED
      BY <1>1, <2>1 DEF PortInv, EachAtItsPort
  <1>4. CASE Connect
    <2>1. /\ pc = "connect" /\ pc' = "call" /\ stage' = stage
          /\ client[Server] = NULL
          /\ sin_port[Server] = IF stage = 1 THEN PMAPPORT ELSE 0
          /\ create_rpc_client(Server, Protocol[stage])
      BY <1>1, <1>4 DEF Connect, PortInv
    <2>2. client' = client /\ given' = given
      BY <2>1 DEF create_rpc_client, PortmapConnect, UseKnownPort
    <2>3. \/ call' = NULL
          \/ call' = [step |-> "getport", target |-> Server, prog |-> Protocol[stage]]
          \/ /\ stage = 1
             /\ call' = [step |-> "connect", target |-> Server, prog |-> Protocol[stage]]
      BY <1>1, <2>1 DEF create_rpc_client, LookupNeeded, PortmapConnect, UseKnownPort
    <2>4. QED
      BY <2>1, <2>2, <2>3 DEF PortInv, EachAtItsPort
  <1>5. CASE UpConnecting
    <2>1. /\ call # NULL /\ call \in Call /\ call.target = Server
          /\ pc = "call" /\ call.prog = Protocol[stage] /\ UNCHANGED <<pc, stage>>
      BY <1>1, <1>5 DEF UpConnecting, RpcStep, get_rpc_port, ConnectProgram, RpcTypeOK,
                        Call, PortInv, upVars
    <2>2. CASE get_rpc_port
      <3>1. PICK port \in PortmapAnswers(call.target, call.prog) :
              /\ sin_port' = [sin_port EXCEPT ![call.target] = port]
              /\ call' = IF port = 0 THEN NULL ELSE [call EXCEPT !.step = "connect"]
              /\ given' = IF port = 0 THEN given
                          ELSE given \cup {<<call.target, call.prog, port>>}
        BY <2>2 DEF get_rpc_port
      <3>2. client' = client /\ client[Server] = NULL
        BY <1>1, <2>1, <2>2 DEF get_rpc_port, RpcInv
      <3>3. sin_port'[Server] = port
        BY <1>1, <2>1, <3>1 DEF RpcTypeOK
      <3>4. CASE port = 0
        BY <2>1, <3>1, <3>2, <3>4 DEF PortInv, EachAtItsPort
      <3>5. CASE port # 0
        <4>1. call' # NULL => /\ call'.prog = Protocol[stage]
                              /\ <<Server, call'.prog, sin_port'[Server]>> \in given'
          BY <2>1, <3>1, <3>3, <3>5 DEF Call
        <4>2. QED
          BY <2>1, <3>2, <4>1 DEF PortInv, EachAtItsPort
      <3>6. QED
        BY <3>4, <3>5
    <2>3. CASE ConnectProgram
      <3>1. call' = NULL /\ given' = given /\ call.step = "connect"
        BY <2>3 DEF ConnectProgram
      <3>2. \/ client' = client
            \/ \E fd \in Fds :
                  client' = [client EXCEPT ![Server] = NewClient(Server, call.prog, fd)]
        BY <2>1, <2>3 DEF ConnectProgram
      <3>3. EachAtItsPort'
        <4>1. CASE client' = client
          BY <1>1, <3>1, <4>1 DEF EachAtItsPort
        <4>2. ASSUME NEW fd \in Fds,
                     client' = [client EXCEPT ![Server] = NewClient(Server, call.prog, fd)]
              PROVE  EachAtItsPort'
          <5>1. client'[Server] = NewClient(Server, call.prog, fd)
            BY <1>1, <4>2 DEF RpcTypeOK
          <5>2. /\ client'[Server].prog = call.prog
                /\ client'[Server].port = sin_port[Server]
            BY <5>1 DEF NewClient
          <5>3. call.prog # PMAPPROG => stage > 1
            BY <1>1, <1>2, <2>1
          <5>4. call.prog # PMAPPROG =>
                   <<Server, call.prog, sin_port[Server]>> \in given
            BY <1>1, <2>1, <3>1, <5>3 DEF PortInv
          <5>5. QED
            BY <3>1, <5>2, <5>4 DEF EachAtItsPort
        <4>3. QED
          BY <3>2, <4>1, <4>2
      <3>4. QED
        BY <2>1, <3>1, <3>3 DEF PortInv
    <2>4. QED
      BY <1>5, <2>2, <2>3 DEF UpConnecting, RpcStep
  <1>6. CASE Answered
    <2>1. /\ pc = "call" /\ call' = NULL /\ given' = given
          /\ client' = [client EXCEPT ![Server] = NULL]
          /\ IF stage < 3
             THEN /\ pc' = "connect" /\ stage' = stage + 1
                  /\ sin_port' = [sin_port EXCEPT ![Server] = 0]
             ELSE pc' = "exit"
      BY <1>6 DEF Answered, ForgetPort, destroy_rpc_client
    <2>2. client'[Server] = NULL /\ (stage < 3 => sin_port'[Server] = 0 /\ stage' # 1)
      BY <1>1, <2>1 DEF RpcTypeOK
    <2>3. QED
      BY <1>1, <2>1, <2>2 DEF PortInv, EachAtItsPort
  <1>7. CASE Unanswered \/ NoClient \/ Exit
    <2>1. pc' \in {"exit", "done"} /\ UNCHANGED <<client, call, given>> /\ call = NULL
      BY <1>1, <1>7 DEF Unanswered, NoClient, Exit, rpcVars, PortInv
    <2>2. QED
      BY <1>1, <2>1 DEF PortInv, EachAtItsPort
  <1>8. CASE UpServers
    <2>1. UNCHANGED <<call, given, sin_port, pc, stage>>
      BY <1>8 DEF UpServers, Environment, Rebind, Stabilise, upVars
    <2>2. /\ client[Server] = NULL <=> client'[Server] = NULL
          /\ client[Server] # NULL =>
                /\ client'[Server].prog = client[Server].prog
                /\ client'[Server].port = client[Server].port
      BY <1>1, <1>8, EnvironmentKeepsClient DEF UpServers
    <2>3. QED
      BY <1>1, <2>1, <2>2 DEF PortInv, EachAtItsPort
  <1>9. CASE UNCHANGED nfsupVars
    BY <1>1, <1>9 DEF PortInv, EachAtItsPort, nfsupVars, rpcVars, upVars
  <1>10. QED
    BY <1>3, <1>4, <1>5, <1>6, <1>7, <1>8, <1>9 DEF UpNext, UpProcess, UpEnded

\* The inductive invariant holds throughout every check.
THEOREM UpInvariant == UpSpec => []UpInv
  <1> USE NfsUpAssumption, OneServerAssumption
  <1>1. UpInit => UpInv
    <2> SUFFICES ASSUME UpInit PROVE UpInv
      OBVIOUS
    <2>1. RpcInv /\ RpcTypeOK /\ call = NULL /\ client[Server] = NULL
      BY InitHasInv DEF UpInit, OneServerInit, RpcInv, RpcInit
    <2>2. UpTypeOK
      <3>1. /\ pc = "start" /\ stage = 1 /\ status = FALSE /\ state = "running"
            /\ replied = {} /\ calm = FALSE
        BY DEF UpInit, OneServerInit
      <3>2. stage \in 1 .. 3 /\ replied \subseteq Program
        BY <3>1
      <3>3. QED
        BY <2>1, <3>1, <3>2, Zenon DEF UpTypeOK
    <2>3. StatusInv
      BY DEF UpInit, OneServerInit, StatusInv, Earlier
    <2>4. PortInv
      BY <2>1 DEF UpInit, OneServerInit, PortInv, EachAtItsPort
    <2>5. QED
      BY <2>1, <2>2, <2>3, <2>4 DEF UpInv
  <1>2. UpInv /\ [UpNext]_nfsupVars => UpInv'
    BY UpRpcStep, UpTypeStep, UpStatusStep, UpPortStep DEF UpInv
  <1>3. QED
    BY <1>1, <1>2, PTL DEF UpSpec

\* nfsup reports STATE_OK exactly for a server that answered all three
\* protocols.
THEOREM OkIsDeserved == UpSpec => []OkMeansAllReplied
  <1>1. UpInv => OkMeansAllReplied
    BY DEF UpInv, UpTypeOK, StatusInv, OkMeansAllReplied
  <1>2. QED
    BY UpInvariant, <1>1, PTL

\* nfsup never calls a protocol at the port of another.
THEOREM PortsAreLookedUp == UpSpec => []EachAtItsPort
  <1>1. UpInv => EachAtItsPort
    BY DEF UpInv, PortInv
  <1>2. QED
    BY UpInvariant, <1>1, PTL

-----------------------------------------------------------------------------
\* The server is well: nothing changed or failed, and both services are there.
Healthy ==
    calm /\ registry[Server][MOUNTPROG] # 0 /\ registry[Server][NFS_PROGRAM] # 0

\* The port the protocol is reached at.
RightPort ==
    IF stage = 1 THEN PMAPPORT ELSE registry[Server][Protocol[stage]]

\* What a check of a healthy server has done at each point.  Each of the two
\* lookups leaves the portmapper's socket open, so the third protocol needs
\* three.
HealthyInv ==
    /\ pc = "start" => open = {}
    /\ calm => stable
    /\ Healthy =>
         /\ pc = "connect" => open = 1 .. (stage - 2)
         /\ pc = "call" /\ call # NULL =>
              /\ open = 1 .. (stage - 1)
              /\ call.step = "getport" => stage > 1
              /\ call.step = "connect" => sin_port[Server] = RightPort
         /\ pc = "call" /\ call = NULL =>
              /\ client[Server] # NULL
              /\ client[Server] = [fd |-> stage, port |-> RightPort,
                                   prog |-> Protocol[stage], live |-> TRUE]
              /\ open = 1 .. stage
         /\ pc \in {"exit", "done"} => status

\* Every step of a check of a healthy server goes well.
LEMMA UpHealthyStep ==
    ASSUME MaxFds >= 3, UpInv, UpInv', HealthyInv, [UpNext]_nfsupVars
    PROVE  HealthyInv'
  <1> USE NfsUpAssumption, OneServerAssumption, RpcAssumption
  <1>1. /\ PortInv /\ StatusInv /\ RpcInv /\ RpcTypeOK
        /\ stage \in {1, 2, 3} /\ Server \in Target
        /\ pc \in {"start", "connect", "call", "exit", "done"}
        /\ status \in BOOLEAN /\ calm \in BOOLEAN /\ stable \in BOOLEAN
    BY DEF UpInv, UpTypeOK, RpcTypeOK
  <1>2. Protocol[stage] = IF stage = 1 THEN PMAPPROG
                          ELSE IF stage = 2 THEN MOUNTPROG ELSE NFS_PROGRAM
    BY <1>1 DEF Protocol
  <1>3. CASE Start
    <2>1. /\ pc = "start" /\ pc' = "connect" /\ stage = 1 /\ stage' = 1
          /\ open' = {} /\ calm' = stable /\ stable' = stable
      BY <1>1, <1>3 DEF Start, HealthyInv, StatusInv
    <2>2. {} = 1 .. (1 - 2)
      OBVIOUS
    <2> QED
      BY <2>1, <2>2 DEF HealthyInv
  <1>4. CASE Connect
    <2>1. /\ pc = "connect" /\ pc' = "call"
          /\ UNCHANGED <<stage, status, calm, registry, stable, client>>
          /\ call = NULL
          /\ sin_port[Server] = IF stage = 1 THEN PMAPPORT ELSE 0
          /\ create_rpc_client(Server, Protocol[stage])
      BY <1>1, <1>4 DEF Connect, PortInv, create_rpc_client, PortmapConnect, UseKnownPort
    <2>2. SUFFICES ASSUME Healthy
                   PROVE  /\ call' # NULL
                          /\ open' = 1 .. (stage - 1)
                          /\ call'.step = "getport" => stage > 1
                          /\ call'.step = "connect" => sin_port'[Server] = RightPort'
      BY <2>1 DEF HealthyInv, Healthy
    <2>3. stable /\ open = 1 .. (stage - 2)
      BY <2>1, <2>2 DEF HealthyInv, Healthy
    <2>4. CASE stage = 1
      <3>1. /\ call' = [step |-> "connect", target |-> Server, prog |-> Protocol[stage]]
            /\ UNCHANGED <<sin_port, open>>
        BY <2>1, <2>4 DEF create_rpc_client, LookupNeeded, UseKnownPort, PMAPPORT
      <3>2. call' \in Call /\ call' # NULL
        BY <1>1, <1>2, <2>4, <3>1 DEF Call
      <3>3. 1 .. (1 - 2) = 1 .. (1 - 1)
        OBVIOUS
      <3> QED
        BY <2>1, <2>3, <2>4, <3>1, <3>2, <3>3 DEF RightPort
    <2>5. CASE stage # 1
      <3>1. PortmapConnect(Server, Protocol[stage])
        BY <2>1, <2>5 DEF create_rpc_client, LookupNeeded
      <3>2. PICK k \in 0 .. 2 : k = stage - 2
        BY <1>1, <2>5
      <3>3. Protocol[stage] \in Program
        BY <1>1, <1>2
      <3>4. client[Server] = NULL
        BY <1>1, <2>1 DEF PortInv
      <3>5. open = 1 .. k /\ k < MaxFds /\ ~MayRefuse(Server, PMAPPORT)
        BY <2>3, <3>2, StableAccepts DEF CanConnect
      <3>6. /\ open' = 1 .. (k + 1)
            /\ call' = [step |-> "getport", target |-> Server, prog |-> Protocol[stage]]
            /\ call' # NULL
        BY <3>1, <3>3, <3>4, <3>5, LookupOpens
      <3> QED
        BY <1>1, <2>5, <3>2, <3>6
    <2> QED
      BY <2>4, <2>5
  <1>5. CASE UpConnecting
    <2>1. /\ call # NULL /\ call \in Call /\ call.target = Server
          /\ pc = "call" /\ call.prog = Protocol[stage] /\ UNCHANGED upVars
          /\ client[Server] = NULL
          /\ UNCHANGED <<registry, stable>>
      BY <1>1, <1>5 DEF UpConnecting, RpcStep, get_rpc_port, ConnectProgram, RpcTypeOK,
                        Call, PortInv, upVars, RpcInv
    <2>2. SUFFICES ASSUME Healthy
                   PROVE  IF call' # NULL
                          THEN /\ open' = 1 .. (stage - 1)
                               /\ call'.step = "getport" => stage > 1
                               /\ call'.step = "connect" => sin_port'[Server] = RightPort
                          ELSE /\ client'[Server] # NULL
                               /\ client'[Server] =
                                    [fd |-> stage, port |-> RightPort,
                                     prog |-> Protocol[stage], live |-> TRUE]
                               /\ open' = 1 .. stage
      BY <2>1 DEF HealthyInv, Healthy, RightPort, upVars
    <2>3. /\ stable /\ open = 1 .. (stage - 1)
          /\ call.step = "getport" => stage > 1
          /\ call.step = "connect" => sin_port[Server] = RightPort
      BY <2>1, <2>2 DEF HealthyInv, Healthy
    <2>4. CASE get_rpc_port
      <3>1. PICK port \in PortmapAnswers(call.target, call.prog) :
              /\ sin_port' = [sin_port EXCEPT ![call.target] = port]
              /\ call' = IF port = 0 THEN NULL ELSE [call EXCEPT !.step = "connect"]
        BY <2>4 DEF get_rpc_port
      <3>2. call.step = "getport" /\ open' = open
        BY <2>4 DEF get_rpc_port
      <3>3. port = registry[Server][Protocol[stage]] /\ port = RightPort
        BY <2>1, <2>3, <3>1, <3>2 DEF PortmapAnswers, RightPort
      <3>4. port # 0
        <4>1. Protocol[stage] \in {MOUNTPROG, NFS_PROGRAM}
          BY <1>1, <1>2, <2>3, <3>2
        <4> QED
          BY <2>2, <3>3, <4>1 DEF Healthy
      <3>5. call' \in Call /\ call' # NULL /\ call'.step = "connect"
        BY <2>1, <3>1, <3>4 DEF Call
      <3>6. sin_port'[Server] = port
        BY <1>1, <2>1, <3>1 DEF RpcTypeOK
      <3> QED
        BY <2>3, <3>2, <3>3, <3>5, <3>6
    <2>5. CASE ConnectProgram
      <3>1. stage - 1 \in 0 .. 2 /\ (stage - 1) + 1 = stage
        BY <1>1
      <3>2. /\ ~(Fds \subseteq open)
            /\ \A fd \in Fds : LowestFree(fd) => fd = stage
            /\ open \cup {stage} = 1 .. stage
        BY <2>3, <3>1, NextSocket
      <3>3. PICK fd \in Fds, created \in BOOLEAN :
              /\ OpenSocket(Server, sin_port[Server], fd, created)
              /\ client' = IF created
                           THEN [client EXCEPT ![Server] = NewClient(Server, call.prog, fd)]
                           ELSE client
        BY <2>1, <2>5, <3>2 DEF ConnectProgram
      <3>4. created
        <4>1. call.step = "connect" /\ sin_port[Server] = RightPort
          BY <2>3, <2>5 DEF ConnectProgram
        <4>2. Protocol[stage] \in Program
          BY <1>1, <1>2
        <4>3. CanConnect(Server, sin_port[Server])
          BY <4>1, <4>2 DEF CanConnect, RightPort
        <4> QED
          BY <2>3, <3>3, <4>3, StableAccepts DEF OpenSocket
      <3>5. fd = stage /\ open' = 1 .. stage
        BY <3>2, <3>3 DEF OpenSocket
      <3>6. call' = NULL /\ call.step = "connect"
        BY <2>5 DEF ConnectProgram
      <3>7. client'[Server] = NewClient(Server, call.prog, fd)
        BY <1>1, <3>3, <3>4 DEF RpcTypeOK
      <3>8. client'[Server] = [fd |-> stage, port |-> RightPort,
                               prog |-> Protocol[stage], live |-> TRUE]
        BY <2>1, <2>3, <3>5, <3>6, <3>7 DEF NewClient
      <3>9. client'[Server] # NULL
        <4>1. sin_port[Server] \in Port \cup {PMAPPORT}
          BY <1>1, <2>1, <3>6 DEF RpcInv, RpcTypeOK
        <4>2. client'[Server] \in Client
          <5>1. Protocol[stage] \in Program
            BY <1>1, <1>2
          <5>2. stage \in Fds /\ RightPort \in Port \cup {PMAPPORT}
            BY <2>3, <3>3, <3>5, <3>6, <4>1
          <5> QED
            BY <3>8, <5>1, <5>2 DEF Client
        <4> QED
          BY <4>2
      <3> QED
        BY <3>5, <3>6, <3>8, <3>9
    <2> QED
      BY <1>5, <2>4, <2>5 DEF UpConnecting, RpcStep
  <1>6. CASE Answered
    <2>1. /\ pc = "call" /\ call = NULL /\ call' = NULL
          /\ status' = TRUE /\ destroy_rpc_client(Server)
          /\ UNCHANGED <<registry, stable, calm>>
          /\ IF stage < 3 THEN pc' = "connect" /\ stage' = stage + 1
             ELSE pc' = "exit"
      BY <1>6 DEF Answered
    <2>2. ASSUME Healthy
          PROVE  open' = 1 .. (stage - 1)
      <3>1. client[Server] # NULL /\ client[Server].fd = stage /\ open = 1 .. stage
        BY <2>1, <2>2 DEF HealthyInv
      <3>2. open' = (1 .. stage) \ {stage}
        BY <2>1, <3>1 DEF destroy_rpc_client
      <3> QED
        BY <1>1, <3>2
    <2>3. stage < 3 => stage' - 2 = stage - 1
      BY <1>1, <2>1
    <2> QED
      BY <2>1, <2>2, <2>3 DEF HealthyInv, Healthy
  <1>7. CASE Unanswered \/ NoClient
    <2>1. /\ pc = "call" /\ pc' = "exit" /\ call = NULL
          /\ UNCHANGED <<rpcVars, calm>>
          /\ client[Server] = NULL \/ ~stable \/ ~Answerable
      BY <1>7 DEF Unanswered, NoClient
    <2>2. ~Healthy
      <3> SUFFICES ASSUME Healthy PROVE FALSE
        OBVIOUS
      <3>1. /\ client[Server] # NULL /\ stable
            /\ client[Server].live /\ client[Server].port = RightPort
            /\ client[Server].prog = Protocol[stage]
        BY <2>1 DEF HealthyInv, Healthy
      <3>2. Answerable
        BY <3>1 DEF Answerable, MayReply, RightPort
      <3> QED
        BY <2>1, <3>1, <3>2
    <2> QED
      BY <2>1, <2>2 DEF HealthyInv, Healthy, rpcVars
  <1>8. CASE Exit
    BY <1>8 DEF Exit, HealthyInv, Healthy, rpcVars
  <1>9. CASE UpServers
    <2>1. ~stable /\ UNCHANGED <<open, upVars>>
      BY <1>9 DEF UpServers, Environment, Rebind, Stabilise
    <2> QED
      BY <2>1 DEF HealthyInv, Healthy, upVars
  <1>10. CASE UNCHANGED nfsupVars
    BY <1>10 DEF nfsupVars, rpcVars, upVars, HealthyInv, Healthy, RightPort
  <1> QED
    BY <1>3, <1>4, <1>5, <1>6, <1>7, <1>8, <1>9, <1>10 DEF UpNext, UpProcess, UpEnded

\* nfsup raises no false alarm: a server that is well from the start of the
\* check to its end is reported as STATE_OK, if the process may have three
\* sockets open.
THEOREM HealthyGetsOk == ASSUME MaxFds >= 3 PROVE UpSpec => []HealthyIsOk
  <1>1. UpInit => HealthyInv
    BY DEF UpInit, OneServerInit, RpcInit, HealthyInv, Healthy
  <1>2. UpInv /\ UpInv' /\ HealthyInv /\ [UpNext]_nfsupVars => HealthyInv'
    BY UpHealthyStep
  <1>3. UpInv /\ HealthyInv => HealthyIsOk
    BY DEF UpInv, StatusInv, HealthyInv, Healthy, HealthyIsOk
  <1> QED
    BY <1>1, <1>2, <1>3, UpInvariant, PTL DEF UpSpec

-----------------------------------------------------------------------------
(***************************************************************************)
(* clear_locks                                                             *)
(***************************************************************************)


\* The state of rpc.c stays in order.
LEMMA ClearRpcStep ==
    ASSUME ClearInv, [ClearNext]_clearLocksVars
    PROVE  RpcInv'
  <1> USE ClearLocksAssumption, OneServerAssumption
  <1>1. RpcInv /\ Server \in Target
    BY DEF ClearInv
  <1>2. CASE UNCHANGED rpcVars
    BY <1>1, <1>2, StutterKeepsInv
  <1>3. CASE ConnectSm \/ ConnectNlm
    BY <1>1, <1>3, CreateKeepsInv DEF ConnectSm, ConnectNlm
  <1>4. CASE ClearConnecting
    BY <1>1, <1>4, GetPortKeepsInv, ConnectKeepsInv DEF ClearConnecting, RpcStep
  <1>5. CASE NotifyLost
    BY <1>1, <1>5, DestroyKeepsInv DEF NotifyLost
  <1>6. CASE ClearServers
    BY <1>1, <1>6, EnvironmentKeepsInv DEF ClearServers
  <1>7. QED
    BY <1>2, <1>3, <1>4, <1>5, <1>6
    DEF ClearNext, ClearProcess, NotifyAnswered, NoSm, FreeAll, NoNlm, ClearEnded,
        clearLocksVars

\* Every step keeps the types, and the exit status in line with the answers.
LEMMA ResultStep ==
    ASSUME ClearInv, [ClearNext]_clearLocksVars
    PROVE  ClearTypeOK' /\ ResultInv'
  <1> USE ClearLocksAssumption
  <1>1. ClearTypeOK /\ ResultInv /\ RpcTypeOK'
    BY ClearRpcStep DEF ClearInv, RpcInv
  <1>2. CASE ConnectSm \/ ConnectNlm \/ NotifyLost \/ NoSm
    <2>1. /\ pc # "done" /\ pc' \in {"notify", "reconnect", "free_all"}
          /\ UNCHANGED <<result, replied>>
          /\ notified' \in BOOLEAN /\ calm' \in BOOLEAN
      BY <1>1, <1>2 DEF ConnectSm, ConnectNlm, NotifyLost, NoSm, ClearTypeOK, RpcTypeOK
    <2>2. QED
      BY <1>1, <2>1 DEF ClearTypeOK, ResultInv
  <1>3. CASE NotifyAnswered \/ FreeAll
    <2>1. /\ pc # "done" /\ notified' \in BOOLEAN /\ calm' = calm
          /\ \/ Return(TRUE, SM_PROG) \/ Return(TRUE, NLM_PROG)
             \/ Return(FALSE, NLM_PROG)
      BY <1>1, <1>3 DEF NotifyAnswered, FreeAll, ClearTypeOK
    <2>2. QED
      BY <1>1, <2>1 DEF Return, ClearTypeOK, ResultInv
  <1>4. CASE NoNlm
    BY <1>1, <1>4 DEF NoNlm, ClearTypeOK, ResultInv
  <1>5. CASE UNCHANGED clearVars
    BY <1>1, <1>5 DEF clearVars, ClearTypeOK, ResultInv
  <1>6. QED
    BY <1>2, <1>3, <1>4, <1>5
    DEF ClearNext, ClearProcess, ClearConnecting, ClearServers, ClearEnded, clearLocksVars

\* A connection is only made or held where main() uses it, and for the
\* program it is used for.
LEMMA ConnectionStep ==
    ASSUME ClearInv, [ClearNext]_clearLocksVars
    PROVE  ConnectionInv'
  <1> USE ClearLocksAssumption, OneServerAssumption
  <1>1. /\ ConnectionInv /\ RpcInv /\ RpcTypeOK /\ Server \in Target
        /\ pc \in {"start", "notify", "reconnect", "free_all", "done"}
    BY DEF ClearInv, ClearTypeOK
  <1>2. CASE ConnectSm \/ ConnectNlm
    <2>1. PICK p \in Program :
            /\ create_rpc_client(Server, p)
            /\ \/ pc' = "notify" /\ p = SM_PROG
               \/ pc' = "free_all" /\ p = NLM_PROG
      BY <1>2 DEF ConnectSm, ConnectNlm
    <2>2. /\ client'[Server] = NULL
          /\ call' # NULL => call'.prog = p
      BY <2>1 DEF create_rpc_client, PortmapConnect, UseKnownPort
    <2>3. QED
      BY <2>1, <2>2 DEF ConnectionInv
  <1>3. CASE ClearConnecting
    <2>1. /\ call # NULL /\ call \in Call /\ call.target = Server
          /\ pc' = pc /\ pc \in {"notify", "free_all"}
          /\ call.prog = IF pc = "notify" THEN SM_PROG ELSE NLM_PROG
      BY <1>1, <1>3 DEF ClearConnecting, RpcStep, get_rpc_port, ConnectProgram,
                        RpcTypeOK, Call, ConnectionInv, clearVars
    <2>2. CASE get_rpc_port
      <3>1. /\ client' = client
            /\ call' = NULL \/ call' = [call EXCEPT !.step = "connect"]
        BY <2>2 DEF get_rpc_port
      <3>2. call' # NULL => call'.prog = call.prog
        BY <2>1, <3>1 DEF Call
      <3>3. QED
        BY <1>1, <2>1, <3>1, <3>2 DEF ConnectionInv
    <2>3. CASE ConnectProgram
      <3>1. /\ call' = NULL
            /\ \/ client' = client
               \/ \E fd \in Fds :
                     client' = [client EXCEPT ![Server] =
                                  NewClient(Server, call.prog, fd)]
        BY <2>1, <2>3 DEF ConnectProgram
      <3>2. client'[Server] = client[Server] \/ client'[Server].prog = call.prog
        BY <1>1, <3>1 DEF NewClient, RpcTypeOK
      <3>3. QED
        BY <1>1, <2>1, <3>1, <3>2 DEF ConnectionInv
    <2>4. QED
      BY <1>3, <2>2, <2>3 DEF ClearConnecting, RpcStep
  <1>4. CASE NotifyLost
    <2>1. pc' = "reconnect" /\ call' = NULL /\ client'[Server] = NULL
      BY <1>1, <1>4 DEF NotifyLost, destroy_rpc_client, RpcTypeOK
    <2>2. QED
      BY <2>1 DEF ConnectionInv
  <1>5. CASE NoSm
    <2>1. pc' = "reconnect" /\ call' = NULL /\ client'[Server] = NULL
      BY <1>5 DEF NoSm, rpcVars
    <2>2. QED
      BY <2>1 DEF ConnectionInv
  <1>6. CASE NotifyAnswered \/ FreeAll \/ NoNlm
    <2>1. pc' = "done" /\ call' = NULL
      BY <1>6 DEF NotifyAnswered, FreeAll, NoNlm, Return, rpcVars
    <2>2. QED
      BY <2>1 DEF ConnectionInv
  <1>7. CASE ClearServers
    <2>1. UNCHANGED <<call, pc>> /\ RpcTypeOK /\ Environment
      BY <1>1, <1>7, EnvironmentKeepsClient DEF ClearServers, clearVars
    <2>2. QED
      BY <1>1, <2>1, EnvironmentKeepsClient DEF ConnectionInv
  <1>8. CASE UNCHANGED clearLocksVars
    BY <1>1, <1>8 DEF ConnectionInv, clearLocksVars, clearVars, rpcVars
  <1>9. QED
    BY <1>2, <1>3, <1>4, <1>5, <1>6, <1>7, <1>8
    DEF ClearNext, ClearProcess, ClearEnded

\* The port in clnt_info always comes from the portmapper, or is its own; the
\* status monitor is notified at the status monitor's port.
LEMMA ClntInfoStep ==
    ASSUME ClearInv, [ClearNext]_clearLocksVars
    PROVE  ClntInfoInv'
  <1> USE ClearLocksAssumption, OneServerAssumption, RpcAssumption
  <1>1. /\ ClntInfoInv /\ ConnectionInv /\ RpcInv /\ RpcTypeOK /\ Server \in Target
        /\ pc \in {"start", "notify", "reconnect", "free_all", "done"}
        /\ notified \in BOOLEAN
    BY DEF ClearInv, ClearTypeOK
  <1>2. PMAPPORT \notin Port /\ 0 \notin Port
    BY DEF PMAPPORT
  <1>3. CASE ConnectSm
    <2>1. /\ pc = "start" /\ pc' = "notify" /\ notified' = notified /\ ~notified
          /\ sin_port[Server] = 0 /\ client[Server] = NULL
          /\ create_rpc_client(Server, SM_PROG)
      BY <1>1, <1>3 DEF ConnectSm, ClntInfoInv, ConnectionInv
    <2>2. PortmapConnect(Server, SM_PROG)
      BY <2>1 DEF create_rpc_client, LookupNeeded
    <2>3. /\ sin_port'[Server] = PMAPPORT /\ client' = client
          /\ call' # NULL => call'.step = "getport"
      BY <1>1, <2>2 DEF PortmapConnect, RpcTypeOK
    <2>4. QED
      BY <1>2, <2>1, <2>3 DEF ClntInfoInv
  <1>4. CASE ConnectNlm
    <2>1. /\ pc = "reconnect" /\ pc' = "free_all" /\ notified' = notified
          /\ client[Server] = NULL /\ given' = given
          /\ \/ /\ sin_port[Server] = 0
                /\ sin_port' = [sin_port EXCEPT ![Server] = PMAPPORT]
             \/ sin_port' = sin_port
      BY <1>1, <1>4 DEF ConnectNlm, create_rpc_client, LookupNeeded, PortmapConnect,
                        UseKnownPort, ConnectionInv
    <2>2. notified => sin_port[Server] # 0
      BY <1>1, <1>2, <2>1 DEF ClntInfoInv, RpcTypeOK
    <2>3. \/ sin_port[Server] = 0 /\ sin_port'[Server] = PMAPPORT
          \/ sin_port'[Server] = sin_port[Server]
      BY <1>1, <2>1 DEF RpcTypeOK
    <2>4. QED
      BY <1>1, <1>2, <2>1, <2>2, <2>3 DEF ClntInfoInv
  <1>5. CASE ClearConnecting
    <2>1. /\ call # NULL /\ call \in Call /\ call.target = Server
          /\ UNCHANGED <<pc, notified>> /\ pc \in {"notify", "free_all"}
          /\ call.prog = IF pc = "notify" THEN SM_PROG ELSE NLM_PROG
          /\ client[Server] = NULL
      BY <1>1, <1>5 DEF ClearConnecting, RpcStep, get_rpc_port, ConnectProgram,
                        RpcTypeOK, RpcInv, Call, ConnectionInv, clearVars
    <2>2. CASE get_rpc_port
      <3>1. PICK port \in PortmapAnswers(call.target, call.prog) :
              /\ sin_port' = [sin_port EXCEPT ![call.target] = port]
              /\ call' = IF port = 0 THEN NULL ELSE [call EXCEPT !.step = "connect"]
              /\ given' = IF port = 0 THEN given
                          ELSE given \cup {<<call.target, call.prog, port>>}
        BY <2>2 DEF get_rpc_port
      <3>2. call.step = "getport" /\ client' = client /\ sin_port[Server] = PMAPPORT
        BY <1>1, <2>1, <2>2 DEF get_rpc_port, RpcInv
      <3>3. sin_port'[Server] = port /\ (port = 0 => call' = NULL)
        BY <1>1, <2>1, <3>1 DEF RpcTypeOK
      <3>4. port # 0 => <<Server, call.prog, port>> \in given'
        BY <2>1, <3>1
      <3>5. ~notified
        BY <1>1, <1>2, <2>1, <3>2 DEF ClntInfoInv, RpcTypeOK
      <3>6. QED
        BY <1>2, <2>1, <3>2, <3>3, <3>4, <3>5 DEF ClntInfoInv
    <2>3. CASE ConnectProgram
      <3>1. call.step = "connect" /\ call' = NULL /\ UNCHANGED <<sin_port, given>>
        BY <2>3 DEF ConnectProgram
      <3>2. QED
        BY <1>1, <2>1, <3>1 DEF ClntInfoInv
    <2>4. QED
      BY <1>5, <2>2, <2>3 DEF ClearConnecting, RpcStep
  <1>6. CASE NotifyLost
    <2>1. /\ pc = "notify" /\ pc' = "reconnect" /\ client[Server] # NULL
          /\ UNCHANGED <<sin_port, given>>
      BY <1>6 DEF NotifyLost
    <2>2. QED
      BY <1>1, <2>1 DEF ClntInfoInv
  <1>7. CASE NoSm
    BY <1>1, <1>7 DEF NoSm, ClntInfoInv, rpcVars
  <1>8. CASE NotifyAnswered \/ FreeAll \/ NoNlm
    <2>1. pc' = "done" /\ UNCHANGED <<sin_port, given>>
      BY <1>8 DEF NotifyAnswered, FreeAll, NoNlm, Return, rpcVars
    <2>2. QED
      BY <1>1, <2>1 DEF ClntInfoInv
  <1>9. CASE ClearServers
    <2>1. /\ UNCHANGED <<sin_port, call, given, pc, notified>>
          /\ client[Server] = NULL <=> client'[Server] = NULL
      BY <1>1, <1>9, EnvironmentKeepsClient DEF ClearServers, clearVars
    <2>2. QED
      BY <1>1, <2>1 DEF ClntInfoInv
  <1>10. CASE UNCHANGED clearLocksVars
    BY <1>1, <1>10 DEF ClntInfoInv, clearLocksVars, clearVars, rpcVars
  <1>11. QED
    BY <1>3, <1>4, <1>5, <1>6, <1>7, <1>8, <1>9, <1>10
    DEF ClearNext, ClearProcess, ClearEnded

\* The inductive invariant holds throughout every run of clear_locks.
THEOREM ClearInvariant == ClearSpec => []ClearInv
  <1> USE ClearLocksAssumption, OneServerAssumption
  <1>1. ClearInit => ClearInv
    <2> SUFFICES ASSUME ClearInit PROVE ClearInv
      OBVIOUS
    <2>1. /\ RpcInv /\ RpcTypeOK /\ call = NULL /\ client[Server] = NULL
          /\ sin_port[Server] = 0
      BY InitHasInv DEF ClearInit, OneServerInit, RpcInv, RpcInit
    <2>2. /\ pc = "start" /\ notified = FALSE /\ result = "running"
          /\ replied = {} /\ calm = FALSE
      BY DEF ClearInit, OneServerInit
    <2>3. replied \subseteq Program
      BY <2>2
    <2>4. ClearTypeOK
      BY <2>1, <2>2, <2>3, Zenon DEF ClearTypeOK
    <2>5. ResultInv /\ ConnectionInv
      BY <2>1, <2>2 DEF ResultInv, ConnectionInv
    <2>6. ClntInfoInv
      BY <2>1, <2>2, RpcAssumption DEF ClntInfoInv
    <2>7. QED
      BY <2>1, <2>4, <2>5, <2>6 DEF ClearInv
  <1>2. ClearInv /\ [ClearNext]_clearLocksVars => ClearInv'
    BY ClearRpcStep, ResultStep, ConnectionStep, ClntInfoStep DEF ClearInv
  <1>3. QED
    BY <1>1, <1>2, PTL DEF ClearSpec

\* clear_locks exits with 0 exactly when one of its requests was answered.
THEOREM SuccessIsReplied == ClearSpec => []SuccessMeansReply
  <1>1. ClearInv => SuccessMeansReply
    BY DEF ClearInv, ResultInv, SuccessMeansReply
  <1>2. QED
    BY ClearInvariant, <1>1, PTL

\* The server runs a lock manager, but no status monitor, and nothing
\* changed or failed from the start.
SmDown ==
    calm /\ registry[Server][SM_PROG] = 0 /\ registry[Server][NLM_PROG] # 0

\* What clear_locks has done against such a server at each point.  The lookup
\* for the status monitor and the one for the lock manager leave a socket
\* open each, so the lock manager's connection needs a third.
SmDownInv ==
    /\ pc = "start" => open = {}
    /\ calm => stable
    /\ SmDown =>
         /\ pc = "notify" =>
              /\ client[Server] = NULL
              /\ open = 1 .. 1
              /\ IF call = NULL THEN sin_port[Server] = 0 ELSE call.step = "getport"
         /\ pc = "reconnect" => open = 1 .. 1 /\ sin_port[Server] = 0
         /\ pc = "free_all" /\ call # NULL =>
              /\ open = 1 .. 2
              /\ call.step = "connect" => sin_port[Server] = registry[Server][NLM_PROG]
         /\ pc = "free_all" /\ call = NULL =>
              /\ client[Server] # NULL
              /\ client[Server].live
              /\ client[Server].port = registry[Server][NLM_PROG]
         /\ pc = "done" => replied = {NLM_PROG}

\* Every step against a healthy server without a status monitor goes well.
LEMMA SmDownStep ==
    ASSUME MaxFds >= 3, ClearInv, ClearInv', SmDownInv, [ClearNext]_clearLocksVars
    PROVE  SmDownInv'
  <1> USE ClearLocksAssumption, OneServerAssumption, RpcAssumption
  <1>1. /\ ConnectionInv /\ ClntInfoInv /\ ResultInv /\ RpcInv /\ RpcTypeOK
        /\ Server \in Target /\ {SM_PROG, NLM_PROG} \subseteq Program
        /\ pc \in {"start", "notify", "reconnect", "free_all", "done"}
        /\ calm \in BOOLEAN /\ stable \in BOOLEAN
    BY DEF ClearInv, ClearTypeOK, RpcTypeOK
  <1>2. stable => ~MayRefuse(Server, PMAPPORT)
    BY StableAccepts DEF CanConnect
  <1>3. {} = 1 .. 0
    OBVIOUS
  <1>4. CASE ConnectSm
    <2>1. /\ pc = "start" /\ pc' = "notify" /\ calm' = stable
          /\ UNCHANGED <<registry, stable>> /\ open = 1 .. 0
          /\ sin_port[Server] = 0 /\ client[Server] = NULL
          /\ create_rpc_client(Server, SM_PROG)
      BY <1>1, <1>3, <1>4 DEF ConnectSm, ClntInfoInv, ConnectionInv, SmDownInv,
                              create_rpc_client
    <2>2. PortmapConnect(Server, SM_PROG)
      BY <2>1 DEF create_rpc_client, LookupNeeded
    <2>3. ASSUME stable
          PROVE  /\ client'[Server] = NULL /\ open' = 1 .. 1
                 /\ call' # NULL /\ call'.step = "getport"
      BY <1>1, <1>2, <2>1, <2>2, <2>3, LookupOpens
    <2>4. QED
      BY <1>1, <2>1, <2>3 DEF SmDownInv, SmDown
  <1>5. CASE ConnectNlm
    <2>1. /\ pc = "reconnect" /\ pc' = "free_all" /\ client[Server] = NULL
          /\ UNCHANGED <<registry, stable, calm>>
          /\ create_rpc_client(Server, NLM_PROG)
      BY <1>1, <1>5 DEF ConnectNlm, ConnectionInv, create_rpc_client
    <2>2. ASSUME SmDown
          PROVE  call' # NULL /\ call'.step = "getport" /\ open' = 1 .. 2
      <3>1. stable /\ open = 1 .. 1 /\ sin_port[Server] = 0
        BY <2>1, <2>2 DEF SmDownInv, SmDown
      <3>2. PortmapConnect(Server, NLM_PROG)
        BY <2>1, <3>1 DEF create_rpc_client, LookupNeeded
      <3>3. QED
        BY <1>1, <1>2, <2>1, <3>1, <3>2, LookupOpens
    <2>3. QED
      BY <1>1, <2>1, <2>2 DEF SmDownInv, SmDown
  <1>6. CASE ClearConnecting
    <2>1. /\ call # NULL /\ call \in Call /\ call.target = Server
          /\ UNCHANGED <<pc, calm, replied, registry, stable>>
          /\ pc \in {"notify", "free_all"}
          /\ call.prog = IF pc = "notify" THEN SM_PROG ELSE NLM_PROG
      BY <1>1, <1>6 DEF ClearConnecting, RpcStep, get_rpc_port, ConnectProgram,
                        RpcTypeOK, Call, ConnectionInv, clearVars
    <2>2. SUFFICES ASSUME SmDown
                   PROVE  SmDownInv'
      BY <1>1, <2>1 DEF SmDownInv, SmDown
    <2>3. stable
      BY <2>2 DEF SmDownInv, SmDown
    <2>4. CASE get_rpc_port
      <3>1. PICK port \in PortmapAnswers(Server, call.prog) :
              /\ sin_port' = [sin_port EXCEPT ![Server] = port]
              /\ call' = IF port = 0 THEN NULL ELSE [call EXCEPT !.step = "connect"]
        BY <2>1, <2>4 DEF get_rpc_port
      <3>2. /\ port = registry[Server][call.prog] /\ sin_port'[Server] = port
            /\ UNCHANGED <<client, open>>
        BY <1>1, <2>3, <2>4, <3>1 DEF PortmapAnswers, RpcTypeOK, get_rpc_port
      <3>3. CASE pc = "notify"
        <4>1. /\ call' = NULL /\ sin_port'[Server] = 0
              /\ client'[Server] = NULL /\ open' = 1 .. 1
          BY <2>1, <2>2, <3>1, <3>2, <3>3 DEF SmDown, SmDownInv
        <4>2. QED
          BY <1>1, <2>1, <2>2, <3>3, <4>1 DEF SmDown, SmDownInv
      <3>4. CASE pc = "free_all"
        <4>1. call' # NULL /\ open' = 1 .. 2 /\ sin_port'[Server] = registry[Server][NLM_PROG]
          <5>1. port # 0 /\ call' = [call EXCEPT !.step = "connect"]
            BY <2>1, <2>2, <3>1, <3>2, <3>4 DEF SmDown
          <5>2. call' \in Call
            BY <2>1, <5>1 DEF Call
          <5>3. QED
            BY <2>1, <2>2, <3>2, <3>4, <5>2 DEF SmDownInv
        <4>2. QED
          BY <1>1, <2>1, <2>2, <3>4, <4>1 DEF SmDown, SmDownInv
      <3>5. QED
        BY <2>1, <3>3, <3>4
    <2>5. CASE ConnectProgram
      <3>1. pc = "free_all" /\ call.step = "connect" /\ call.prog = NLM_PROG
        BY <2>1, <2>2, <2>5 DEF ConnectProgram, SmDownInv
      <3>2. open = 1 .. 2 /\ sin_port[Server] = registry[Server][NLM_PROG]
        BY <2>1, <2>2, <3>1 DEF SmDownInv
      <3>3. CanConnect(Server, sin_port[Server])
        BY <1>1, <3>2 DEF CanConnect
      <3>4. ~(Fds \subseteq open)
        BY <3>2, NextSocket
      <3>5. PICK fd \in Fds, created \in BOOLEAN :
              /\ OpenSocket(Server, sin_port[Server], fd, created)
              /\ client' = IF created
                           THEN [client EXCEPT ![Server] = NewClient(Server, call.prog, fd)]
                           ELSE client
        BY <2>1, <2>5, <3>4 DEF ConnectProgram
      <3>6. created /\ call' = NULL
        BY <2>3, <2>5, <3>3, <3>5, StableAccepts DEF ConnectProgram, OpenSocket
      <3>7. client'[Server] = NewClient(Server, call.prog, fd)
        BY <1>1, <3>5, <3>6 DEF RpcTypeOK
      <3>8. client'[Server].live /\ client'[Server].port = registry[Server][NLM_PROG]
        BY <3>2, <3>7 DEF NewClient
      <3>9. client'[Server] # NULL
        <4>1. sin_port[Server] \in Port \cup {PMAPPORT}
          BY <1>1, <2>1, <3>1 DEF RpcInv, RpcTypeOK
        <4>2. client'[Server] \in Client
          BY <1>1, <3>1, <3>7, <4>1 DEF NewClient, Client
        <4>3. QED
          BY <4>2
      <3>10. QED
        BY <1>1, <2>1, <2>2, <3>1, <3>6, <3>8, <3>9 DEF SmDown, SmDownInv
    <2>6. QED
      BY <1>6, <2>4, <2>5 DEF ClearConnecting, RpcStep
  <1>7. CASE NoSm
    BY <1>1, <1>7 DEF NoSm, SmDown, SmDownInv, rpcVars
  <1>8. CASE NotifyLost \/ NotifyAnswered
    <2>1. /\ pc = "notify" /\ client[Server] # NULL /\ pc' \notin {"start", "notify"}
          /\ UNCHANGED <<registry, stable, calm>>
      BY <1>8 DEF NotifyLost, NotifyAnswered, MayReply, Return, rpcVars
    <2>2. ~SmDown
      BY <2>1 DEF SmDownInv
    <2>3. QED
      BY <2>1, <2>2 DEF SmDown, SmDownInv
  <1>9. CASE FreeAll \/ NoNlm
    <2>1. /\ pc = "free_all" /\ call = NULL /\ pc' = "done"
          /\ UNCHANGED <<registry, stable, calm>>
      BY <1>9 DEF FreeAll, NoNlm, Return, rpcVars
    <2>2. ASSUME SmDown
          PROVE  replied' = {NLM_PROG}
      <3>1. /\ client[Server] # NULL /\ client[Server].live /\ stable
            /\ client[Server].port = registry[Server][NLM_PROG]
        BY <2>1, <2>2 DEF SmDownInv, SmDown
      <3>2. MayReply(Server) /\ client[Server].prog = NLM_PROG
        BY <1>1, <2>1, <3>1 DEF MayReply, ConnectionInv
      <3>3. Return(TRUE, NLM_PROG)
        BY <1>9, <3>1, <3>2 DEF FreeAll, NoNlm, MayLose
      <3>4. replied = {}
        BY <1>1, <2>1 DEF ResultInv
      <3>5. QED
        BY <3>3, <3>4 DEF Return
    <2>3. QED
      BY <2>1, <2>2 DEF SmDown, SmDownInv
  <1>10. CASE ClearServers
    <2>1. ~stable /\ UNCHANGED <<open, pc, calm>>
      BY <1>1, <1>10, EnvironmentKeepsClient DEF ClearServers, clearVars
    <2>2. QED
      BY <2>1 DEF SmDown, SmDownInv
  <1>11. CASE UNCHANGED clearLocksVars
    BY <1>11 DEF clearLocksVars, rpcVars, clearVars, SmDown, SmDownInv
  <1>12. QED
    BY <1>4, <1>5, <1>6, <1>7, <1>8, <1>9, <1>10, <1>11
    DEF ClearNext, ClearProcess, ClearEnded

\* On a server without a status monitor clear_locks has the lock manager drop
\* the locks, unless something changes or fails on the way or the process may
\* not have three sockets open.
THEOREM FallsBack == ASSUME MaxFds >= 3 PROVE ClearSpec => []WorksWithoutSm
  <1>1. ClearInit => SmDownInv
    BY DEF ClearInit, OneServerInit, RpcInit, SmDownInv, SmDown
  <1>2. ClearInv /\ ClearInv' /\ SmDownInv /\ [ClearNext]_clearLocksVars => SmDownInv'
    BY SmDownStep
  <1>3. SmDownInv => WorksWithoutSm
    BY DEF SmDownInv, SmDown, WorksWithoutSm
  <1>4. QED
    BY <1>1, <1>2, <1>3, ClearInvariant, PTL DEF ClearSpec

\* What saves clear_locks from a crash after an unanswered notify: the lookup
\* left socket 1 open, the connection to the status monitor had socket 2, and
\* that one is free again for the lock manager.
SecondSocketInv ==
    /\ pc = "start" => open = {}
    /\ pc = "notify" /\ call # NULL => open = 1 .. 1
    /\ pc = "notify" /\ client[Server] # NULL =>
         open = 1 .. 2 /\ client[Server].fd = 2
    /\ pc = "reconnect" /\ notified => open = 1 .. 1
    /\ pc = "free_all" /\ notified =>
         IF call = NULL THEN client[Server] # NULL
         ELSE open = 1 .. 1 /\ call.step = "connect"

\* The next connection over UDP gets the next socket, and is made.
LEMMA ConnectOpens ==
    ASSUME ~Tcp, ~LocalErrors, NEW k \in Nat, k < MaxFds, open = 1 .. k,
           RpcInv, ConnectProgram, call.target = Server
    PROVE  /\ call' = NULL
           /\ open' = 1 .. (k + 1)
           /\ client'[Server] # NULL
           /\ client'[Server].fd = k + 1
  <1> USE OneServerAssumption, RpcAssumption
  <1>1. /\ RpcTypeOK /\ call # NULL /\ call \in Call /\ call.prog \in Program
        /\ call.step = "connect" /\ call' = NULL
        /\ sin_port[Server] \in Port \cup {PMAPPORT}
    BY DEF RpcInv, RpcTypeOK, ConnectProgram, Call
  <1>2. /\ ~(Fds \subseteq open)
        /\ \A fd \in Fds : LowestFree(fd) => fd = k + 1
        /\ open \cup {k + 1} = 1 .. (k + 1)
    BY NextSocket
  <1>3. PICK fd \in Fds, created \in BOOLEAN :
          /\ OpenSocket(Server, sin_port[Server], fd, created)
          /\ client' = IF created
                       THEN [client EXCEPT ![Server] = NewClient(Server, call.prog, fd)]
                       ELSE client
    BY <1>2 DEF ConnectProgram
  <1>4. created
    BY <1>3 DEF OpenSocket, MayRefuse, CanConnect
  <1>5. fd = k + 1 /\ open' = 1 .. (k + 1)
    BY <1>2, <1>3 DEF OpenSocket
  <1>6. client'[Server] = [fd |-> fd, port |-> sin_port[Server], prog |-> call.prog,
                           live |-> TRUE]
    BY <1>1, <1>3, <1>4 DEF RpcTypeOK, NewClient
  <1>7. client'[Server] \in Client
    <2>1. [fd |-> fd, port |-> sin_port[Server], prog |-> call.prog,
           live |-> TRUE] \in Client
      BY <1>1, <1>3, Zenon DEF Client
    <2>2. QED
      BY <1>6, <2>1
  <1>8. client'[Server] # NULL
    BY <1>7
  <1>9. QED
    BY <1>1, <1>5, <1>6, <1>8

\* Every step keeps a socket for the lock manager.
LEMMA SecondSocketStep ==
    ASSUME ~Tcp, ~LocalErrors, MaxFds >= 2, ClearInv, SecondSocketInv,
           [ClearNext]_clearLocksVars
    PROVE  SecondSocketInv'
  <1> USE ClearLocksAssumption, OneServerAssumption, RpcAssumption
  <1>1. /\ ConnectionInv /\ ClntInfoInv /\ RpcInv /\ RpcTypeOK
        /\ Server \in Target /\ {SM_PROG, NLM_PROG} \subseteq Program
        /\ pc \in {"start", "notify", "reconnect", "free_all", "done"}
        /\ notified \in BOOLEAN
    BY DEF ClearInv, ClearTypeOK
  <1>2. ~MayRefuse(Server, PMAPPORT)
    BY DEF MayRefuse, CanConnect
  <1>3. CASE ConnectSm
    <2>1. /\ pc = "start" /\ pc' = "notify" /\ client[Server] = NULL
          /\ create_rpc_client(Server, SM_PROG) /\ sin_port[Server] = 0
      BY <1>1, <1>3 DEF ConnectSm, ConnectionInv, ClntInfoInv
    <2>2. PortmapConnect(Server, SM_PROG)
      BY <2>1 DEF create_rpc_client, LookupNeeded
    <2>3. open = 1 .. 0
      BY <2>1 DEF SecondSocketInv
    <2>4. open' = 1 .. 1 /\ client'[Server] = NULL
      BY <1>1, <1>2, <2>1, <2>2, <2>3, LookupOpens
    <2>5. QED
      BY <2>1, <2>4 DEF SecondSocketInv
  <1>4. CASE ConnectNlm
    <2>1. /\ pc = "reconnect" /\ pc' = "free_all" /\ notified' = notified
          /\ create_rpc_client(Server, NLM_PROG)
      BY <1>4 DEF ConnectNlm
    <2>2. ASSUME notified
          PROVE  call' # NULL /\ open' = 1 .. 1 /\ call'.step = "connect"
      <3>1. sin_port[Server] # 0
        BY <1>1, <2>1, <2>2 DEF ClntInfoInv, RpcTypeOK
      <3>2. UseKnownPort(Server, NLM_PROG)
        BY <2>1, <3>1 DEF create_rpc_client, LookupNeeded
      <3>3. call' \in Call
        BY <1>1, <3>2 DEF UseKnownPort, Call
      <3>4. open = 1 .. 1
        BY <2>1, <2>2 DEF SecondSocketInv
      <3>5. QED
        BY <3>2, <3>3, <3>4 DEF UseKnownPort
    <2>3. QED
      BY <2>1, <2>2 DEF SecondSocketInv
  <1>5. CASE ClearConnecting
    <2>1. /\ call # NULL /\ call \in Call /\ call.target = Server
          /\ UNCHANGED <<pc, notified>> /\ pc \in {"notify", "free_all"}
          /\ client[Server] = NULL
      BY <1>1, <1>5 DEF ClearConnecting, RpcStep, get_rpc_port, ConnectProgram,
                        RpcTypeOK, RpcInv, Call, ConnectionInv, clearVars
    <2>2. pc = "notify" => ~notified
      BY <1>1 DEF ClntInfoInv
    <2>3. CASE get_rpc_port
      <3>1. UNCHANGED <<client, open>> /\ call.step = "getport"
        BY <2>3 DEF get_rpc_port
      <3>2. pc = "notify" \/ ~notified
        BY <2>1, <3>1 DEF SecondSocketInv
      <3>3. QED
        BY <2>1, <2>2, <3>1, <3>2 DEF SecondSocketInv
    <2>4. CASE ConnectProgram
      <3>1. CASE pc = "notify" \/ notified
        <4>1. open = 1 .. 1
          BY <2>1, <3>1 DEF SecondSocketInv
        <4>2. /\ call' = NULL /\ open' = 1 .. 2
              /\ client'[Server] # NULL /\ client'[Server].fd = 2
          BY <1>1, <2>1, <2>4, <4>1, ConnectOpens
        <4>3. QED
          BY <2>1, <2>2, <4>2 DEF SecondSocketInv
      <3>2. CASE pc # "notify" /\ ~notified
        BY <2>1, <3>2 DEF SecondSocketInv
      <3>3. QED
        BY <3>1, <3>2
    <2>5. QED
      BY <1>5, <2>3, <2>4 DEF ClearConnecting, RpcStep
  <1>6. CASE NotifyLost
    <2>1. /\ pc = "notify" /\ pc' = "reconnect" /\ client[Server] # NULL
          /\ destroy_rpc_client(Server)
      BY <1>6 DEF NotifyLost
    <2>2. open' = (1 .. 2) \ {2}
      BY <2>1 DEF SecondSocketInv, destroy_rpc_client
    <2>3. QED
      BY <2>1, <2>2 DEF SecondSocketInv
  <1>7. CASE NoSm
    <2>1. pc = "notify" /\ pc' = "reconnect" /\ notified' = notified
      BY <1>7 DEF NoSm
    <2>2. QED
      BY <1>1, <2>1 DEF ClntInfoInv, SecondSocketInv
  <1>8. CASE NotifyAnswered \/ FreeAll \/ NoNlm
    BY <1>8 DEF NotifyAnswered, FreeAll, NoNlm, Return, SecondSocketInv
  <1>9. CASE ClearServers
    <2>1. /\ UNCHANGED <<open, call, pc, notified>>
          /\ client[Server] = NULL <=> client'[Server] = NULL
      BY <1>1, <1>9, EnvironmentKeepsClient DEF ClearServers, clearVars
    <2>2. client' = client
      BY <1>9 DEF ClearServers, Environment, Rebind, Stabilise
    <2>3. QED
      BY <2>1, <2>2 DEF SecondSocketInv
  <1>10. CASE UNCHANGED clearLocksVars
    BY <1>10 DEF clearLocksVars, rpcVars, clearVars, SecondSocketInv
  <1>11. QED
    BY <1>3, <1>4, <1>5, <1>6, <1>7, <1>8, <1>9, <1>10
    DEF ClearNext, ClearProcess, ClearEnded

\* Over UDP, if the local host refuses nothing and allows two sockets,
\* clear_locks ends with an exit status whatever the server does.
THEOREM NoCrashOverUdp ==
    ASSUME ~Tcp, ~LocalErrors, MaxFds >= 2
    PROVE  ClearSpec => []NeverCrashes
  <1> DEFINE Inv == SecondSocketInv /\ NeverCrashes
  <1>1. ClearInit => Inv
    BY OneServerAssumption
    DEF ClearInit, OneServerInit, RpcInit, SecondSocketInv, NeverCrashes
  <1>2. ClearInv /\ Inv /\ [ClearNext]_clearLocksVars => Inv'
    <2> SUFFICES ASSUME ClearInv, Inv, [ClearNext]_clearLocksVars
                 PROVE  NeverCrashes'
      BY SecondSocketStep
    <2>1. CASE NoNlm
      <3>1. ~notified
        BY <2>1 DEF NoNlm, SecondSocketInv
      <3>2. QED
        BY <2>1, <3>1 DEF NoNlm, NeverCrashes
    <2>2. CASE ~NoNlm
      BY <2>2 DEF NeverCrashes, ClearNext, ClearProcess, ConnectSm, ClearConnecting,
                  NotifyAnswered, NotifyLost, NoSm, ConnectNlm, FreeAll, Return,
                  ClearServers, ClearEnded, clearLocksVars, clearVars
    <2>3. QED
      BY <2>1, <2>2
  <1>3. QED
    BY <1>1, <1>2, ClearInvariant, PTL DEF ClearSpec
=============================================================================
