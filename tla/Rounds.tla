------------------------------- MODULE Rounds -------------------------------
(***************************************************************************)
(* What nfsls and nfsdf promise of the filehandles they are given, however *)
(* they talk to the servers: they ask in turns, as often as they were told *)
(* or until they are interrupted, never leave a round half way, and report *)
(* success exactly when there was something to ask and all was answered.   *)
(*                                                                         *)
(* The promise is the one of man/nfsls.8.ronn: "count of requests to send  *)
(* to each input filehandle before exiting", "return 0 if all requests to  *)
(* all targets received successful responses".                             *)
(***************************************************************************)
EXTENDS Naturals, Sequences

VARIABLES
    asked,     \* for each server the requests sent for each of its filehandles
    goal,      \* requests to send for each; 0 means until interrupted
    stopping,  \* TRUE once the user interrupted the tool
    lost,      \* TRUE once a request was not answered
    verdict    \* "running", or what the tool reports

roundsVars == <<asked, goal, stopping, lost, verdict>>

RoundsInit ==
    /\ asked = <<>>
    /\ goal = 0
    /\ stopping = FALSE
    /\ lost = FALSE
    /\ verdict = "running"

\* All filehandles are known.
Begin ==
    /\ asked = <<>>
    /\ verdict = "running"
    /\ asked' \in Seq(Seq({0}))
    /\ goal' \in Nat
    /\ UNCHANGED <<stopping, lost, verdict>>

\* No filehandle has been asked less often, and whichever is earlier in the
\* list, at this server or one before, has had this round's turn.
Turn(i, j) ==
    \A k \in DOMAIN asked : \A l \in DOMAIN asked[k] :
        /\ asked[k][l] >= asked[i][j]
        /\ k < i \/ (k = i /\ l < j) => asked[k][l] > asked[i][j]

Ask ==
    /\ verdict = "running"
    /\ \E i \in DOMAIN asked : \E j \in DOMAIN asked[i] :
         /\ Turn(i, j)
         /\ goal = 0 \/ asked[i][j] < goal
         /\ asked' = [asked EXCEPT ![i][j] = @ + 1]
    /\ lost' \in {lost, TRUE}
    /\ UNCHANGED <<goal, stopping, verdict>>

Stop ==
    /\ verdict = "running"
    /\ stopping' = TRUE
    /\ UNCHANGED <<asked, goal, lost, verdict>>

\* There is nothing to ask.
NoFilehandle == \A i \in DOMAIN asked : asked[i] = <<>>

\* All have been asked equally often, and as often as they were to be unless
\* the user interrupted the tool.
Report ==
    /\ verdict = "running"
    /\ \A i, k \in DOMAIN asked : \A j \in DOMAIN asked[i] : \A l \in DOMAIN asked[k] :
         asked[i][j] = asked[k][l] /\ asked[i][j] > 0
    /\ \/ stopping
       \/ /\ goal > 0
          /\ \A i \in DOMAIN asked : \A j \in DOMAIN asked[i] : asked[i][j] = goal
    /\ verdict' = IF lost \/ NoFilehandle THEN "failure" ELSE "success"
    /\ UNCHANGED <<asked, goal, stopping, lost>>

RoundsNext == Begin \/ Ask \/ Stop \/ Report

RoundsSpec == RoundsInit /\ [][RoundsNext]_roundsVars
=============================================================================
