----------------------------- MODULE ClearLocks -----------------------------
(***************************************************************************)
(* src/src/clear_locks.c: have a server drop the locks of a client.  The   *)
(* status monitor (NSM) is notified first; if it cannot be reached or does *)
(* not answer, the lock manager (NLM) is asked instead.  Both connections  *)
(* are made through the one sockaddr_in clnt_info.                         *)
(***************************************************************************)
EXTENDS OneServer

CONSTANTS
    SM_PROG,   \* the status monitor
    NLM_PROG   \* the lock manager

ASSUME ClearLocksAssumption ==
    /\ {SM_PROG, NLM_PROG} \subseteq Program
    /\ SM_PROG # NLM_PROG

VARIABLES
    notified,  \* TRUE once do_notify() was called
    result     \* "running", the exit status, or "crashed"

clearVars == <<pc, notified, result, replied, calm>>

clearLocksVars == <<rpcVars, clearVars>>

ClearTypeOK ==
    /\ RpcTypeOK
    /\ pc \in {"start", "notify", "reconnect", "free_all", "done"}
    /\ notified \in BOOLEAN
    /\ result \in {"running", "success", "failure", "crashed"}
    /\ replied \subseteq Program
    /\ calm \in BOOLEAN

ClearInit ==
    /\ OneServerInit
    /\ notified = FALSE
    /\ result = "running"

-----------------------------------------------------------------------------
\* Connect to the status monitor.
ConnectSm ==
    /\ pc = "start"
    /\ create_rpc_client(Server, SM_PROG)
    /\ pc' = "notify"
    /\ calm' = stable
    /\ UNCHANGED <<notified, result, replied>>

\* create_rpc_client() going on.
ClearConnecting ==
    /\ RpcStep
    /\ UNCHANGED clearVars

\* The process ends; its request was answered or not.
Return(answered, by) ==
    /\ pc' = "done"
    /\ result' = IF answered THEN "success" ELSE "failure"
    /\ replied' = IF answered THEN replied \cup {by} ELSE replied

\* SM_NOTIFY is answered: that is all.
NotifyAnswered ==
    /\ pc = "notify"
    /\ call = NULL
    /\ MayReply(Server)
    /\ notified' = TRUE
    /\ Return(TRUE, SM_PROG)
    /\ UNCHANGED <<rpcVars, calm>>

\* SM_NOTIFY is not answered: give the connection up for another one.
NotifyLost ==
    /\ pc = "notify"
    /\ call = NULL
    /\ client[Server] # NULL
    /\ MayLose(Server)
    /\ notified' = TRUE
    /\ pc' = "reconnect"
    /\ destroy_rpc_client(Server)
    /\ UNCHANGED <<sin_port, call, registry, stable, given, result, replied, calm>>

\* Mutant: without a status monitor there is nothing to do.
GiveUpOnSm ==
    /\ pc = "notify"
    /\ call = NULL
    /\ client[Server] = NULL
    /\ Return(FALSE, SM_PROG)
    /\ UNCHANGED <<rpcVars, notified, calm>>

\* "can't connect to SM, try NLM"
NoSm ==
    /\ pc = "notify"
    /\ call = NULL
    /\ client[Server] = NULL
    /\ pc' = "reconnect"
    /\ UNCHANGED <<rpcVars, notified, result, replied, calm>>

\* Connect to the lock manager, on the port that clnt_info has by now.
ConnectNlm ==
    /\ pc = "reconnect"
    /\ create_rpc_client(Server, NLM_PROG)
    /\ pc' = "free_all"
    /\ UNCHANGED <<notified, result, replied, calm>>

\* Mutant: the status of the request is not looked at.
FreeAllAssumed ==
    /\ pc = "free_all"
    /\ call = NULL
    /\ client[Server] # NULL
    /\ pc' = "done"
    /\ result' = "success"
    /\ UNCHANGED <<rpcVars, notified, replied, calm>>

\* NLM_FREE_ALL, answered or not.
FreeAll ==
    /\ pc = "free_all"
    /\ call = NULL
    /\ client[Server] # NULL
    /\ \/ MayReply(Server) /\ Return(TRUE, NLM_PROG)
       \/ MayLose(Server) /\ Return(FALSE, NLM_PROG)
    /\ UNCHANGED <<rpcVars, notified, calm>>

\* There is no connection to the lock manager.  After an unanswered notify
\* the code does not look, and calls NLM_FREE_ALL on a NULL client.
NoNlm ==
    /\ pc = "free_all"
    /\ call = NULL
    /\ client[Server] = NULL
    /\ pc' = "done"
    /\ result' = IF notified THEN "crashed" ELSE "failure"
    /\ UNCHANGED <<rpcVars, notified, replied, calm>>

ClearProcess ==
    \/ ConnectSm \/ ClearConnecting \/ NotifyAnswered \/ NotifyLost \/ NoSm
    \/ ConnectNlm \/ FreeAll \/ NoNlm

ClearServers ==
    /\ pc # "done"
    /\ Environment
    /\ UNCHANGED clearVars

\* The process has ended.
ClearEnded ==
    /\ pc = "done"
    /\ UNCHANGED clearLocksVars

ClearNext == ClearProcess \/ ClearServers \/ ClearEnded

ClearSpec == ClearInit /\ [][ClearNext]_clearLocksVars

-----------------------------------------------------------------------------
\* man/clear_locks.8.ronn:40 "will return 0 if the request to the server
\* received a response": exit status 0 exactly when one of the two requests
\* was answered, whichever way the connections went.
SuccessMeansReply ==
    pc = "done" => (result = "success" <=> replied # {})

\* man/clear_locks.8.ronn:15 "if the server isn't running an NSM daemon ...
\* makes a second attempt": on a server without a status monitor the lock
\* manager does the job, unless something fails on the way.
WorksWithoutSm ==
    (pc = "done" /\ calm /\ registry[Server][SM_PROG] = 0
        /\ registry[Server][NLM_PROG] # 0) => replied = {NLM_PROG}

\* man/clear_locks.8.ronn:40 "1 is an RPC error": a server that cannot be
\* reached any more gives an exit status, not a crash.  Over UDP the second
\* connection needs no answer of the server, but a socket: the first one's.
NeverCrashes == result # "crashed"

-----------------------------------------------------------------------------
\* The exit status follows from the answers, also where it is a crash.
ResultInv ==
    IF pc = "done"
    THEN result # "running" /\ (result = "success" <=> replied # {})
    ELSE result = "running" /\ replied = {}

\* Which connection there is, or is being made, at each point.
ConnectionInv ==
    /\ pc \in {"start", "reconnect"} => call = NULL /\ client[Server] = NULL
    /\ call # NULL => \/ pc = "notify" /\ call.prog = SM_PROG
                      \/ pc = "free_all" /\ call.prog = NLM_PROG
    /\ (pc = "notify" /\ client[Server] # NULL) => client[Server].prog = SM_PROG
    /\ (pc = "free_all" /\ client[Server] # NULL) => client[Server].prog = NLM_PROG

\* What clnt_info holds: nothing, the portmapper's port after a lookup that
\* failed, or a port given for one of the programs.  A notify goes to the
\* status monitor's own port, which the code never forgets afterwards.
ClntInfoInv ==
    /\ pc = "start" => sin_port[Server] = 0
    /\ sin_port[Server] \in Port =>
          \E p \in {SM_PROG, NLM_PROG} : <<Server, p, sin_port[Server]>> \in given
    /\ \/ pc = "notify" /\ call # NULL /\ call.step = "connect"
       \/ pc = "notify" /\ client[Server] # NULL
       \/ pc # "done" /\ notified
       => <<Server, SM_PROG, sin_port[Server]>> \in given
    /\ pc \in {"start", "notify"} => ~notified

\* The inductive invariant: which request was made over which connection at
\* which port, and what the exit status says of it.
ClearInv == ClearTypeOK /\ RpcInv /\ ResultInv /\ ConnectionInv /\ ClntInfoInv
=============================================================================
