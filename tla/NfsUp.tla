------------------------------- MODULE NfsUp --------------------------------
(***************************************************************************)
(* src/src/nfsup.c: a Nagios check.  Three protocols are tried in turn,    *)
(* the portmapper at its own port and the other two at the ports it gives  *)
(* for them, all through one sockaddr_in and one status variable.  nfsup   *)
(* only makes datagram sockets (Tcp = FALSE in the run); the theorems do   *)
(* not depend on it.                                                       *)
(***************************************************************************)
EXTENDS OneServer

CONSTANTS
    PMAPPROG,     \* the portmapper, as a program of its own
    MOUNTPROG,    \* the mount protocol
    NFS_PROGRAM   \* NFS version 3

ASSUME NfsUpAssumption ==
    /\ {PMAPPROG, MOUNTPROG, NFS_PROGRAM} \subseteq Program
    /\ PMAPPROG # MOUNTPROG /\ PMAPPROG # NFS_PROGRAM /\ MOUNTPROG # NFS_PROGRAM

\* The protocols in the order they are tried.
Protocol == <<PMAPPROG, MOUNTPROG, NFS_PROGRAM>>

AllProtocols == {PMAPPROG, MOUNTPROG, NFS_PROGRAM}

VARIABLES
    stage,    \* which protocol: 1, 2 or 3
    status,   \* TRUE if the last call stored an answer in status
    state     \* "running", or the exit status

upVars == <<pc, stage, status, state, replied, calm>>

nfsupVars == <<rpcVars, upVars>>

UpTypeOK ==
    /\ RpcTypeOK
    /\ pc \in {"start", "connect", "call", "exit", "done"}
    /\ stage \in 1 .. 3
    /\ status \in BOOLEAN
    /\ state \in {"running", "STATE_OK", "STATE_CRITICAL"}
    /\ replied \subseteq Program
    /\ calm \in BOOLEAN

UpInit ==
    /\ OneServerInit
    /\ stage = 1
    /\ status = FALSE
    /\ state = "running"

-----------------------------------------------------------------------------
\* The portmapper has a fixed port.
Start ==
    /\ pc = "start"
    /\ pc' = "connect"
    /\ sin_port' = [sin_port EXCEPT ![Server] = PMAPPORT]
    /\ calm' = stable
    /\ UNCHANGED <<client, open, call, registry, stable, given, stage, status, state,
                   replied>>

Connect ==
    /\ pc = "connect"
    /\ create_rpc_client(Server, Protocol[stage])
    /\ pc' = "call"
    /\ UNCHANGED <<stage, status, state, replied, calm>>

\* create_rpc_client() going on.
UpConnecting ==
    /\ RpcStep
    /\ UNCHANGED upVars

\* The call can be answered; the portmapper listens where it always does.
Answerable ==
    IF stage = 1 THEN client[Server] # NULL ELSE MayReply(Server)

\* Mutant: the next protocol is called at the port of the last one.
KeepPort == UNCHANGED sin_port

\* "use portmapper" for the next protocol, if there is one.
ForgetPort ==
    sin_port' = IF stage < 3 THEN [sin_port EXCEPT ![Server] = 0] ELSE sin_port

\* An answer: on to the next protocol.
Answered ==
    /\ pc = "call"
    /\ call = NULL
    /\ Answerable
    /\ status' = TRUE
    /\ replied' = replied \cup {Protocol[stage]}
    /\ destroy_rpc_client(Server)
    /\ ForgetPort
    /\ IF stage < 3
       THEN pc' = "connect" /\ stage' = stage + 1
       ELSE pc' = "exit" /\ UNCHANGED stage
    /\ UNCHANGED <<call, registry, stable, given, state, calm>>

UnansweredStale ==
    /\ pc = "call"
    /\ call = NULL
    /\ client[Server] # NULL
    /\ ~stable \/ ~Answerable
    /\ pc' = "exit"
    /\ UNCHANGED <<rpcVars, stage, status, state, replied, calm>>

\* No answer: the remaining protocols are not tried.
Unanswered ==
    /\ pc = "call"
    /\ call = NULL
    /\ client[Server] # NULL
    /\ ~stable \/ ~Answerable
    /\ pc' = "exit"
    /\ status' = FALSE
    /\ UNCHANGED <<rpcVars, stage, state, replied, calm>>

\* Mutant: status keeps the answer of the protocol before.
NoClientStale ==
    /\ pc = "call"
    /\ call = NULL
    /\ client[Server] = NULL
    /\ pc' = "exit"
    /\ UNCHANGED <<rpcVars, stage, status, state, replied, calm>>

\* No connection: status is cleared, except for the portmapper's, where it
\* has not been set.
NoClient ==
    /\ pc = "call"
    /\ call = NULL
    /\ client[Server] = NULL
    /\ pc' = "exit"
    /\ status' = IF stage = 1 THEN status ELSE FALSE
    /\ UNCHANGED <<rpcVars, stage, state, replied, calm>>

Exit ==
    /\ pc = "exit"
    /\ pc' = "done"
    /\ state' = IF status THEN "STATE_OK" ELSE "STATE_CRITICAL"
    /\ UNCHANGED <<rpcVars, stage, status, replied, calm>>

UpProcess ==
    \/ Start \/ Connect \/ UpConnecting \/ Answered \/ Unanswered \/ NoClient \/ Exit

UpServers ==
    /\ pc # "done"
    /\ Environment
    /\ UNCHANGED upVars

\* The process has ended.
UpEnded ==
    /\ pc = "done"
    /\ UNCHANGED nfsupVars

UpNext == UpProcess \/ UpServers \/ UpEnded

UpSpec == UpInit /\ [][UpNext]_nfsupVars

-----------------------------------------------------------------------------
\* man/nfsup.8.ronn:14 "will return 0 (STATUS_OK) if the server responds to
\* all 3 protocols": and only then, although one status variable serves all
\* three.
OkMeansAllReplied ==
    pc = "done" => (state = "STATE_OK" <=> replied = AllProtocols)

\* No alarm is raised for a server that is well from the start of the check.
HealthyIsOk ==
    (pc = "done" /\ calm /\ registry[Server][MOUNTPROG] # 0
        /\ registry[Server][NFS_PROGRAM] # 0) => state = "STATE_OK"

\* Mount and NFS are called at the port that the portmapper gave for each,
\* never at the one of the protocol before.
EachAtItsPort ==
    (client[Server] # NULL /\ client[Server].prog # PMAPPROG) =>
       <<Server, client[Server].prog, client[Server].port>> \in given

-----------------------------------------------------------------------------
\* The protocols before this one.
Earlier ==
    IF stage = 1 THEN {} ELSE IF stage = 2 THEN {PMAPPROG} ELSE {PMAPPROG, MOUNTPROG}

\* status, replied and the exit status tell the same story: while a protocol
\* is tried, status is the answer of the one before.
StatusInv ==
    /\ pc = "start" => stage = 1
    /\ pc \in {"start", "connect", "call"} =>
          (status <=> stage > 1) /\ replied = Earlier
    /\ pc \in {"exit", "done"} => (status <=> replied = AllProtocols)
    /\ state = IF pc # "done" THEN "running"
               ELSE IF status THEN "STATE_OK" ELSE "STATE_CRITICAL"

\* Where the port in the sockaddr_in comes from at each point.
PortInv ==
    /\ pc \in {"start", "connect"} => call = NULL /\ client[Server] = NULL
    /\ pc = "connect" => sin_port[Server] = IF stage = 1 THEN PMAPPORT ELSE 0
    /\ call # NULL =>
          /\ pc = "call"
          /\ call.prog = Protocol[stage]
          /\ (stage > 1 /\ call.step = "connect") =>
                <<Server, call.prog, sin_port[Server]>> \in given
    /\ EachAtItsPort

\* The inductive invariant of the check.
UpInv == UpTypeOK /\ RpcInv /\ StatusInv /\ PortInv
=============================================================================
