----------------------------- MODULE OneServer ------------------------------
(***************************************************************************)
(* What nfsup and clear_locks have in common: they talk to one server, one *)
(* program after another, through one sockaddr_in that starts without a    *)
(* port, and end.                                                          *)
(***************************************************************************)
EXTENDS RpcClient

CONSTANT Server   \* the server on the command line

ASSUME OneServerAssumption ==
    /\ Target = {Server}
    /\ InitPort = 0

VARIABLES
    pc,       \* where main() is
    replied,  \* history: the programs that answered their request
    calm      \* history: TRUE if nothing changed or failed from the start on

OneServerInit ==
    /\ RpcInit
    /\ pc = "start"
    /\ replied = {}
    /\ calm = FALSE
=============================================================================
