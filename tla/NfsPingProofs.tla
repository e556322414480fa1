--------------------------- MODULE NfsPingProofs ----------------------------
(***************************************************************************)
(* Proofs about nfsping's main loop, for any list of targets, any count    *)
(* and interval, over UDP and TCP, with -R or without.                     *)
(***************************************************************************)
EXTENDS NfsPing, RpcClientProofs, FiniteSetTheorems

\* The state of rpc.c stays in order through every step of the tool.
LEMMA RpcInvStep ==
    ASSUME PingInv, [Next]_vars
    PROVE  RpcInv'
  <1> USE PingAssumption
  <1>1. RpcInv
    BY DEF PingInv
  <1>2. CASE UNCHANGED rpcVars
    BY <1>1, <1>2, StutterKeepsInv
  <1>3. CASE Connect
    <2>1. target \in Target
      BY <1>3 DEF Connect, PingInv, TypeOK, ControlInv
    <2>2. CASE create_rpc_client(target, Prog)
      BY <1>1, <2>1, <2>2, CreateKeepsInv
    <2>3. QED
      BY <1>2, <1>3, <2>2 DEF Connect
  <1>4. CASE Connecting
    BY <1>1, <1>4, GetPortKeepsInv, ConnectKeepsInv DEF Connecting, RpcStep
  <1>5. CASE PingAnswered \/ PingLost
    <2>1. pc = "ping" /\ call = NULL
      BY <1>5 DEF PingAnswered, PingLost
    <2>2. target \in Target
      BY <2>1 DEF PingInv, TypeOK, ControlInv
    <2>3. /\ UNCHANGED <<sin_port, call, registry, stable, given>>
          /\ destroy_rpc_client(target) \/ UNCHANGED <<client, open>>
      BY <1>5 DEF PingAnswered, PingLost, Disconnect
    <2>4. QED
      BY <1>1, <1>2, <2>1, <2>2, <2>3, DestroyKeepsInv DEF rpcVars
  <1>6. CASE Servers
    BY <1>1, <1>6, EnvironmentKeepsInv DEF Servers
  <1>7. QED
    BY <1>2, <1>3, <1>4, <1>5, <1>6
    DEF Next, Process, StartRound, Sleep, WakeUp, Exit, sigint_handler, Exited, vars

\* A counter, kept or reset, stays in any set that has both values.
LEMMA AfterIntervalType ==
    ASSUME NEW S, NEW f \in S, NEW reset \in S
    PROVE  AfterInterval(f, reset) \in S
  BY DEF AfterInterval

\* What print_interval() shows of counters of the right types.
LEMMA IntervalType ==
    ASSUME NEW snt \in Nat, NEW rcv \in Nat, NEW lo \in Rtt \cup {ULONG_MAX},
           NEW hi \in Rtt \cup {0}, NEW values \in Nat
    PROVE  print_interval(snt, rcv, lo, hi, values) \in Summary
  <1> DEFINE extremes == rcv > 0 /\ Format \in {"fping", "unixtime"}
             quantiles == rcv > 0 /\ Format \in {"ping", "graphite"}
             lower == IF extremes THEN lo ELSE 0
             upper == IF extremes THEN hi ELSE 0
             shown == IF quantiles THEN values ELSE 0
  <1>1. /\ lower \in Rtt \cup {0, ULONG_MAX}
        /\ upper \in Rtt \cup {0}
        /\ shown \in Nat
    OBVIOUS
  <1>2. print_interval(snt, rcv, lo, hi, values) =
           [sent |-> snt, received |-> rcv, lower |-> lower, upper |-> upper,
            values |-> shown]
    BY DEF print_interval
  <1> HIDE DEF lower, upper, shown
  <1>3. QED
    BY <1>1, <1>2 DEF Summary

\* The counters keep their types when a ping is accounted for, ...
LEMMA CountTypes ==
    ASSUME TypeOK, target \in Target, NEW rcv \in Nat,
           NEW lo \in Rtt \cup {ULONG_MAX}, NEW hi \in Rtt \cup {0},
           NEW values \in Nat, CountPing(rcv, lo, hi, values)
    PROVE  /\ sent' \in [Target -> Nat]
           /\ received' \in [Target -> Nat]
           /\ min' \in [Target -> Rtt \cup {ULONG_MAX}]
           /\ max' \in [Target -> Rtt \cup {0}]
           /\ interval_histogram' \in [Target -> Nat]
           /\ summary' \in [Target -> Summary \cup {NULL}]
  <1> USE PingAssumption
  <1> DEFINE t == target
  <1>1. /\ sent \in [Target -> Nat] /\ received \in [Target -> Nat]
        /\ min \in [Target -> Rtt \cup {ULONG_MAX}] /\ max \in [Target -> Rtt \cup {0}]
        /\ interval_histogram \in [Target -> Nat]
        /\ summary \in [Target -> Summary \cup {NULL}]
    BY DEF TypeOK
  <1>2. sent[t] + 1 \in Nat
    BY <1>1
  <1>3. /\ AfterInterval(sent[t] + 1, 0) \in Nat
        /\ AfterInterval(rcv, 0) \in Nat
        /\ AfterInterval(values, 0) \in Nat
        /\ AfterInterval(lo, ULONG_MAX) \in Rtt \cup {ULONG_MAX}
        /\ AfterInterval(hi, 0) \in Rtt \cup {0}
    BY <1>2, AfterIntervalType
  <1>4. /\ sent' = [sent EXCEPT ![t] = AfterInterval(sent[t] + 1, 0)]
        /\ received' = [received EXCEPT ![t] = AfterInterval(rcv, 0)]
    BY DEF CountPing
  <1>5. sent' \in [Target -> Nat] /\ received' \in [Target -> Nat]
    BY <1>1, <1>3, <1>4
  <1>6. summary' \in [Target -> Summary \cup {NULL}]
    <2>1. \/ summary' = summary
          \/ summary' = [summary EXCEPT ![t] =
                           print_interval(sent[t] + 1, rcv, lo, hi, values)]
      BY DEF CountPing
    <2>2. print_interval(sent[t] + 1, rcv, lo, hi, values) \in Summary
      BY <1>2, IntervalType
    <2>3. QED
      BY <1>1, <2>1, <2>2
  <1>7. CASE Fping
    <2>1. /\ min' = [min EXCEPT ![t] = AfterInterval(lo, ULONG_MAX)]
          /\ max' = [max EXCEPT ![t] = AfterInterval(hi, 0)]
          /\ interval_histogram' = interval_histogram
      BY <1>7 DEF CountPing, StoreExtremes, StoreValues
    <2>2. min' \in [Target -> Rtt \cup {ULONG_MAX}]
      BY <1>1, <1>3, <2>1
    <2>3. max' \in [Target -> Rtt \cup {0}]
      BY <1>1, <1>3, <2>1
    <2>4. QED
      BY <1>1, <1>5, <1>6, <2>1, <2>2, <2>3
  <1>8. CASE ~Fping
    <2>1. /\ min' = min /\ max' = max
          /\ interval_histogram' =
                [interval_histogram EXCEPT ![t] = AfterInterval(values, 0)]
      BY <1>8 DEF CountPing, StoreExtremes, StoreValues
    <2>2. interval_histogram' \in [Target -> Nat]
      BY <1>1, <1>3, <2>1
    <2>3. QED
      BY <1>1, <1>5, <1>6, <2>1, <2>2
  <1>9. QED
    BY <1>7, <1>8

\* ... and so does everything else an answer changes, ...
LEMMA ReplyTypes ==
    ASSUME TypeOK, target \in Target, NEW us \in Rtt, CountReply(us)
    PROVE  /\ sent' \in [Target -> Nat]
           /\ received' \in [Target -> Nat]
           /\ min' \in [Target -> Rtt \cup {ULONG_MAX}]
           /\ max' \in [Target -> Rtt \cup {0}]
           /\ histogram' \in [Target -> Nat]
           /\ interval_histogram' \in [Target -> Nat]
           /\ results' \in [Target -> [0 .. Count - 1 -> Rtt \cup {0}]]
           /\ overrun' \in BOOLEAN
           /\ summary' \in [Target -> Summary \cup {NULL}]
           /\ answered' \in [Target -> SUBSET Nat]
           /\ lost_stable' \in [Target -> Nat]
  <1> USE PingAssumption
  <1> DEFINE t == target
             kept == Recorded(us)
             less == IF us < min[t] /\ Fping THEN us ELSE min[t]
             more == IF us > max[t] /\ Fping THEN us ELSE max[t]
  <1>1. /\ received[t] + 1 \in Nat /\ histogram[t] + kept \in Nat
        /\ interval_histogram[t] + kept \in Nat
        /\ less \in Rtt \cup {ULONG_MAX} /\ more \in Rtt \cup {0}
        /\ answered[t] \cup {loop_count} \in SUBSET Nat
        /\ total_sent \in Nat
    <2>1. /\ received[t] \in Nat /\ histogram[t] \in Nat
          /\ interval_histogram[t] \in Nat /\ kept \in Nat /\ total_sent \in Nat
      BY DEF TypeOK, Recorded
    <2>2. less \in Rtt \cup {ULONG_MAX} /\ more \in Rtt \cup {0}
      BY DEF TypeOK
    <2>3. answered[t] \cup {loop_count} \in SUBSET Nat
      BY DEF TypeOK
    <2> HIDE DEF kept, less, more
    <2>4. /\ received[t] + 1 \in Nat /\ histogram[t] + kept \in Nat
          /\ interval_histogram[t] + kept \in Nat
      BY <2>1
    <2>5. QED
      BY <2>1, <2>2, <2>3, <2>4
  <1>2. /\ CountPing(received[t] + 1, less, more, interval_histogram[t] + kept)
        /\ histogram' = [histogram EXCEPT ![t] = histogram[t] + kept]
        /\ answered' = [answered EXCEPT ![t] = answered[t] \cup {loop_count}]
        /\ lost_stable' = lost_stable
    BY DEF CountReply
  <1> HIDE DEF kept, less, more
  <1>3. /\ sent' \in [Target -> Nat]
        /\ received' \in [Target -> Nat]
        /\ min' \in [Target -> Rtt \cup {ULONG_MAX}]
        /\ max' \in [Target -> Rtt \cup {0}]
        /\ interval_histogram' \in [Target -> Nat]
        /\ summary' \in [Target -> Summary \cup {NULL}]
    BY <1>1, <1>2, CountTypes
  <1>4. histogram' \in [Target -> Nat] /\ lost_stable' \in [Target -> Nat]
    BY <1>1, <1>2 DEF TypeOK
  <1>5. answered' \in [Target -> SUBSET Nat]
    BY <1>1, <1>2 DEF TypeOK
  <1>6. results' \in [Target -> [0 .. Count - 1 -> Rtt \cup {0}]]
    <2>1. \/ results' = results
          \/ /\ total_sent < Count
             /\ results' = [results EXCEPT ![t] =
                              [results[t] EXCEPT ![total_sent] = us]]
      BY DEF CountReply, ResultIndex
    <2>2. results[t] \in [0 .. Count - 1 -> Rtt \cup {0}]
      BY DEF TypeOK
    <2>3. [results[t] EXCEPT ![total_sent] = us] \in [0 .. Count - 1 -> Rtt \cup {0}]
      BY <2>2
    <2>4. results \in [Target -> [0 .. Count - 1 -> Rtt \cup {0}]]
      BY DEF TypeOK
    <2> DEFINE S == [0 .. Count - 1 -> Rtt \cup {0}]
    <2> HIDE DEF S
    <2>5. ASSUME NEW v \in S, results \in [Target -> S]
          PROVE  [results EXCEPT ![t] = v] \in [Target -> S]
      BY <2>5
    <2>6. QED
      BY <2>1, <2>3, <2>4, <2>5 DEF S
  <1>7. overrun' \in BOOLEAN
    BY Zenon DEF CountReply
  <1>8. QED
    BY <1>3, <1>4, <1>5, <1>6, <1>7

\* ... and everything a loss changes.
LEMMA LossTypes ==
    ASSUME TypeOK, target \in Target, CountLoss
    PROVE  /\ sent' \in [Target -> Nat]
           /\ received' \in [Target -> Nat]
           /\ min' \in [Target -> Rtt \cup {ULONG_MAX}]
           /\ max' \in [Target -> Rtt \cup {0}]
           /\ interval_histogram' \in [Target -> Nat]
           /\ summary' \in [Target -> Summary \cup {NULL}]
           /\ lost_stable' \in [Target -> Nat]
           /\ UNCHANGED <<answered, histogram, results, overrun>>
  <1> USE PingAssumption
  <1> DEFINE t == target
  <1>1. /\ CountPing(received[t], min[t], max[t], interval_histogram[t])
        /\ UNCHANGED <<answered, histogram, results, overrun>>
    BY DEF CountLoss
  <1>2. /\ received[t] \in Nat /\ interval_histogram[t] \in Nat
        /\ min[t] \in Rtt \cup {ULONG_MAX} /\ max[t] \in Rtt \cup {0}
    BY DEF TypeOK
  <1>3. lost_stable' \in [Target -> Nat]
    <2>1. \/ lost_stable' = lost_stable
          \/ lost_stable' = [lost_stable EXCEPT ![t] = lost_stable[t] + 1]
      BY DEF CountLoss
    <2>2. lost_stable \in [Target -> Nat]
      BY DEF TypeOK
    <2>3. QED
      BY <2>1, <2>2
  <1>4. QED
    BY <1>1, <1>2, <1>3, CountTypes

\* What a ping, answered or lost, does to the control state and the totals.
LEMMA PingStep ==
    ASSUME PingInv, PingAnswered \/ PingLost
    PROVE  /\ pc = "ping" /\ call = NULL /\ call' = NULL
           /\ target \in Target /\ target' = target + 1
           /\ pc' = IF target = NTargets THEN "check" ELSE "target"
           /\ UNCHANGED <<loop_count, quitting, status, signalled>>
           /\ total_sent' = total_sent + 1
           /\ total_recv' \in {total_recv, total_recv + 1}
           /\ sent' = [sent EXCEPT ![target] = AfterInterval(@ + 1, 0)]
  <1> USE PingAssumption
  <1>1. pc = "ping" /\ call = NULL /\ NextTarget /\ call' = call
    BY DEF PingAnswered, PingLost, Disconnect
  <1>2. target \in Target
    BY <1>1 DEF PingInv, TypeOK, ControlInv
  <1>3. total_recv' \in {total_recv, total_recv + 1}
    BY DEF PingAnswered, PingLost, CountReply, CountLoss
  <1>4. \E rcv, lo, hi, values : CountPing(rcv, lo, hi, values)
    BY DEF PingAnswered, PingLost, CountReply, CountLoss
  <1>5. /\ total_sent' = total_sent + 1
        /\ sent' = [sent EXCEPT ![target] = AfterInterval(@ + 1, 0)]
    BY <1>4 DEF CountPing
  <1>6. QED
    BY <1>1, <1>2, <1>3, <1>5 DEF NextTarget

\* Every step keeps the types.
LEMMA TypeStep ==
    ASSUME PingInv, [Next]_vars
    PROVE  TypeOK'
  <1> USE PingAssumption
  <1>1. TypeOK /\ RpcTypeOK'
    BY RpcInvStep DEF PingInv, RpcInv
  <1>2. CASE PingAnswered \/ PingLost
    <2>1. /\ pc' \in {"check", "target"} /\ target' \in 1 .. NTargets + 1
          /\ loop_count' \in Nat /\ total_sent' \in Nat /\ total_recv' \in Nat
          /\ UNCHANGED <<quitting, status, signalled>>
      <3>1. loop_count \in Nat /\ total_sent \in Nat /\ total_recv \in Nat
        BY <1>1 DEF TypeOK
      <3>2. QED
        BY <1>2, <3>1, PingStep
    <2>2. target \in Target
      BY <1>2, PingStep
    <2>3. CASE PingAnswered
      <3>1. PICK us \in Rtt : CountReply(us)
        BY <2>3 DEF PingAnswered
      <3>2. QED
        BY <1>1, <2>1, <2>2, <3>1, ReplyTypes DEF TypeOK
    <2>4. CASE PingLost
      <3>1. CountLoss
        BY <2>4 DEF PingLost
      <3>2. QED
        BY <1>1, <2>1, <2>2, <3>1, LossTypes DEF TypeOK
    <2>5. QED
      BY <1>2, <2>3, <2>4
  <1>3. CASE StartRound \/ Connect \/ Sleep \/ WakeUp
    <2>1. /\ pc' \in {"round", "target", "ping", "sleep"}
          /\ target' \in {target, 1} /\ loop_count' \in {loop_count, loop_count + 1}
          /\ UNCHANGED <<statVars, quitting, status, signalled>>
      BY <1>3 DEF StartRound, Connect, Sleep, WakeUp
    <2>2. target' \in 1 .. NTargets + 1 /\ loop_count' \in Nat
      BY <1>1, <2>1 DEF TypeOK
    <2>3. QED
      BY <1>1, <2>1, <2>2 DEF TypeOK, statVars
  <1>4. CASE Exit
    BY <1>1, <1>4 DEF Exit, TypeOK, statVars
  <1>5. CASE sigint_handler
    BY <1>1, <1>5 DEF sigint_handler, TypeOK, statVars
  <1>6. CASE UNCHANGED pingVars
    BY <1>1, <1>6 DEF TypeOK, pingVars
  <1>7. QED
    BY <1>2, <1>3, <1>4, <1>5, <1>6
    DEF Next, Process, Connecting, Servers, Exited, vars

\* Every step keeps the control state in order.
LEMMA ControlStep ==
    ASSUME PingInv, [Next]_vars
    PROVE  ControlInv'
  <1> USE PingAssumption
  <1>1. /\ ControlInv /\ target \in 1 .. NTargets + 1 /\ loop_count \in Nat
        /\ call \in Call \cup {NULL}
        /\ pc \in {"round", "target", "ping", "check", "sleep", "done"}
    BY DEF PingInv, TypeOK, RpcTypeOK
  <1>2. CASE StartRound
    BY <1>1, <1>2 DEF StartRound, ControlInv, rpcVars
  <1>3. CASE Connect
    <2>1. \/ call' = call
          \/ call' = NULL
          \/ call' = [step |-> "getport", target |-> target, prog |-> Prog]
          \/ call' = [step |-> "connect", target |-> target, prog |-> Prog]
      BY <1>3 DEF Connect, create_rpc_client, PortmapConnect, UseKnownPort, rpcVars
    <2>2. pc = "target" /\ pc' = "ping" /\ UNCHANGED <<target, loop_count>>
      BY <1>3 DEF Connect
    <2>3. QED
      BY <1>1, <2>1, <2>2 DEF ControlInv
  <1>4. CASE Connecting
    <2>1. call # NULL /\ (call' = NULL \/ call' = [call EXCEPT !.step = "connect"])
      BY <1>4 DEF Connecting, RpcStep, get_rpc_port, ConnectProgram
    <2>2. UNCHANGED <<pc, target, loop_count>>
      BY <1>4 DEF Connecting, pingVars
    <2>3. QED
      BY <1>1, <2>1, <2>2 DEF ControlInv, Call
  <1>5. CASE PingAnswered \/ PingLost
    BY <1>1, <1>5, PingStep DEF ControlInv
  <1>6. CASE Sleep
    BY <1>1, <1>6 DEF Sleep, LoopAgain, ControlInv, rpcVars
  <1>7. CASE WakeUp
    BY <1>1, <1>7 DEF WakeUp, ControlInv, rpcVars
  <1>8. CASE Exit
    BY <1>1, <1>8 DEF Exit, ControlInv, rpcVars
  <1>9. CASE sigint_handler
    BY <1>1, <1>9 DEF sigint_handler, ControlInv, rpcVars
  <1>10. CASE Servers
    <2>1. UNCHANGED <<call, pc, target, loop_count>>
      BY <1>10 DEF Servers, Environment, Rebind, Stabilise, pingVars
    <2>2. QED
      BY <1>1, <2>1 DEF ControlInv
  <1>11. CASE UNCHANGED vars
    BY <1>1, <1>11 DEF ControlInv, vars, rpcVars, pingVars
  <1>12. QED
    BY <1>2, <1>3, <1>4, <1>5, <1>6, <1>7, <1>8, <1>9, <1>10, <1>11
    DEF Next, Process, Exited

\* Every step keeps the totals and the exit status in order.
LEMMA VerdictStep ==
    ASSUME PingInv, [Next]_vars
    PROVE  VerdictInv'
  <1> USE PingAssumption
  <1>1. VerdictInv /\ total_sent \in Nat /\ total_recv \in Nat
    BY DEF PingInv, TypeOK
  <1>2. CASE PingAnswered \/ PingLost
    BY <1>1, <1>2, PingStep DEF VerdictInv
  <1>3. CASE Exit
    BY <1>1, <1>3 DEF Exit, VerdictInv, statVars
  <1>4. CASE StartRound \/ Connect \/ Sleep \/ WakeUp
    <2>1. pc # "done" /\ pc' # "done" /\ UNCHANGED <<status, statVars>>
      BY <1>4 DEF StartRound, Connect, Sleep, WakeUp
    <2>2. QED
      BY <1>1, <2>1 DEF VerdictInv, statVars
  <1>5. CASE sigint_handler
    BY <1>1, <1>5 DEF sigint_handler, VerdictInv, statVars
  <1>6. CASE UNCHANGED pingVars
    BY <1>1, <1>6 DEF VerdictInv, pingVars
  <1>7. QED
    BY <1>2, <1>3, <1>4, <1>5, <1>6
    DEF Next, Process, Connecting, Servers, Exited, vars

\* Every step keeps the bound on the rounds after a signal.
LEMMA SignalStep ==
    ASSUME PingInv, [Next]_vars
    PROVE  SignalInv'
  <1> USE PingAssumption
  <1>1. SignalInv /\ loop_count \in Nat /\ signalled \in Nat
    BY DEF PingInv, TypeOK
  <1>2. CASE StartRound
    BY <1>1, <1>2 DEF StartRound, SignalInv
  <1>3. CASE Connect \/ Exit
    BY <1>1, <1>3 DEF Connect, Exit, SignalInv
  <1>4. CASE PingAnswered \/ PingLost
    BY <1>1, <1>4, PingStep DEF SignalInv
  <1>5. CASE Sleep
    BY <1>1, <1>5 DEF Sleep, LoopAgain, SignalInv
  <1>6. CASE WakeUp
    BY <1>1, <1>6 DEF WakeUp, SignalInv
  <1>7. CASE sigint_handler
    BY <1>1, <1>7 DEF sigint_handler, SignalInv
  <1>8. CASE UNCHANGED pingVars
    BY <1>1, <1>8 DEF SignalInv, pingVars
  <1>9. QED
    BY <1>2, <1>3, <1>4, <1>5, <1>6, <1>7, <1>8
    DEF Next, Process, Connecting, Servers, Exited, vars

-----------------------------------------------------------------------------
\* Everything starts in order.
LEMMA InitPing == Init => PingInv
  <1> SUFFICES ASSUME Init PROVE PingInv
    OBVIOUS
  <1> USE PingAssumption
  <1>1. RpcInv /\ RpcTypeOK /\ call = NULL
    BY InitHasInv DEF Init, RpcInv, RpcInit
  <1>2. TypeOK
    <2>1. /\ min \in [Target -> Rtt \cup {ULONG_MAX}] /\ max \in [Target -> Rtt \cup {0}]
          /\ answered \in [Target -> SUBSET Nat]
          /\ summary \in [Target -> Summary \cup {NULL}]
      BY DEF Init
    <2>2. results \in [Target -> [0 .. Count - 1 -> Rtt \cup {0}]]
      <3>1. results = [t \in Target |-> [i \in 0 .. Count - 1 |-> 0]]
        BY DEF Init
      <3>2. [i \in 0 .. Count - 1 |-> 0] \in [0 .. Count - 1 -> Rtt \cup {0}]
        OBVIOUS
      <3>3. QED
        BY <3>1, <3>2, Zenon
    <2>3. /\ sent \in [Target -> Nat] /\ received \in [Target -> Nat]
          /\ histogram \in [Target -> Nat] /\ interval_histogram \in [Target -> Nat]
          /\ lost_stable \in [Target -> Nat]
      BY DEF Init
    <2>4. /\ pc = "round" /\ target = 1 /\ loop_count = 0
          /\ total_sent = 0 /\ total_recv = 0 /\ signalled = 0
          /\ status = "running" /\ overrun = FALSE /\ quitting = FALSE
      BY DEF Init
    <2>5. /\ target \in 1 .. NTargets + 1 /\ loop_count \in Nat /\ total_sent \in Nat
          /\ total_recv \in Nat /\ signalled \in Nat
      BY <2>4
    <2>6. QED
      BY <1>1, <2>1, <2>2, <2>3, <2>4, <2>5, Zenon DEF TypeOK
  <1>3. ControlInv /\ VerdictInv /\ SignalInv
    BY <1>1 DEF Init, ControlInv, VerdictInv, SignalInv
  <1>4. QED
    BY <1>1, <1>2, <1>3 DEF PingInv

\* The inductive invariant of the main loop holds throughout every run.
THEOREM PingInvariant == Spec => []PingInv
  <1>1. PingInv /\ [Next]_vars => PingInv'
    BY RpcInvStep, TypeStep, ControlStep, VerdictStep, SignalStep DEF PingInv
  <1>2. QED
    BY InitPing, <1>1, PTL DEF Spec

\* A signal is obeyed after at most one more round.
THEOREM SignalObeyed == Spec => []StopsSoonAfterSignal
  <1>1. PingInv => StopsSoonAfterSignal
    BY DEF PingInv, SignalInv, StopsSoonAfterSignal
  <1>2. QED
    BY PingInvariant, <1>1, PTL

\* Every step of the process leads on: through the stages of a ping, from
\* target to target, and from round to round.
THEOREM MovesOn == Spec => EveryStepMovesOn
  <1> DEFINE On == \/ loop_count' > loop_count
                   \/ loop_count' = loop_count /\ Position' > Position
                   \/ /\ loop_count' = loop_count /\ Position' = Position
                      /\ Stage' > Stage
  <1> USE PingAssumption
  <1>1. ASSUME PingInv, Process
        PROVE  On
    <2>1. /\ ControlInv /\ RpcInv /\ target \in 1 .. NTargets + 1 /\ loop_count \in Nat
          /\ NTargets \in Nat /\ call \in Call \cup {NULL}
      BY <1>1 DEF PingInv, TypeOK, RpcTypeOK
    <2>2. CASE StartRound
      BY <2>1, <2>2 DEF StartRound
    <2>3. CASE Connect
      <3>1. /\ pc = "target" /\ pc' = "ping" /\ UNCHANGED <<target, loop_count>>
            /\ call = NULL
        BY <2>1, <2>3 DEF Connect, ControlInv
      <3>2. Stage = 0 /\ Stage' \in {1, 2, 3} /\ Position' = Position
        BY <3>1 DEF Stage, Position
      <3>3. QED
        BY <3>1, <3>2
    <2>4. CASE Connecting
      <3>1. /\ call # NULL /\ pc = "ping" /\ UNCHANGED <<pc, target, loop_count>>
        BY <2>1, <2>4 DEF Connecting, RpcStep, get_rpc_port, ConnectProgram,
                          ControlInv, pingVars
      <3>2. CASE get_rpc_port
        <4>1. /\ call.step = "getport"
              /\ call' = NULL \/ call' = [call EXCEPT !.step = "connect"]
          BY <3>2 DEF get_rpc_port
        <4>2. call' # NULL => call'.step = "connect"
          BY <2>1, <3>1, <4>1 DEF Call
        <4>3. Stage = 1 /\ Stage' \in {2, 3} /\ Position' = Position
          BY <3>1, <4>1, <4>2 DEF Stage, Position
        <4>4. QED
          BY <3>1, <4>3
      <3>3. CASE ConnectProgram
        <4>1. call.step = "connect" /\ call' = NULL
          BY <3>3 DEF ConnectProgram
        <4>2. Stage = 2 /\ Stage' = 3 /\ Position' = Position
          BY <3>1, <4>1 DEF Stage, Position
        <4>3. QED
          BY <3>1, <4>2
      <3>4. QED
        BY <2>4, <3>2, <3>3 DEF Connecting, RpcStep
    <2>5. CASE PingAnswered \/ PingLost
      <3>1. /\ pc = "ping" /\ pc' \in {"check", "target"} /\ target' = target + 1
            /\ loop_count' = loop_count
        BY <1>1, <2>5, PingStep
      <3>2. Position = target /\ Position' = target + 1
        BY <3>1 DEF Position
      <3>3. QED
        BY <2>1, <3>1, <3>2
    <2>6. CASE Sleep \/ Exit
      <3>1. /\ pc = "check" /\ pc' \in {"sleep", "done"}
            /\ UNCHANGED <<target, loop_count>>
        BY <2>6 DEF Sleep, Exit
      <3>2. Stage = 0 /\ Stage' = 1 /\ Position' = Position
        BY <3>1 DEF Stage, Position
      <3>3. QED
        BY <3>1, <3>2
    <2>7. CASE WakeUp
      <3>1. /\ pc = "sleep" /\ pc' = "round" /\ loop_count' = loop_count
            /\ target = NTargets + 1
        BY <2>1, <2>7 DEF WakeUp, ControlInv
      <3>2. Position = NTargets + 1 /\ Position' = NTargets + 2
        BY <3>1 DEF Position
      <3>3. QED
        BY <2>1, <3>1, <3>2
    <2>8. QED
      BY <1>1, <2>2, <2>3, <2>4, <2>5, <2>6, <2>7 DEF Process
  <1>2. PingInv /\ [Next]_vars => [Process => On]_vars
    BY <1>1
  <1>3. QED
    BY PingInvariant, <1>2, PTL DEF Spec, EveryStepMovesOn

-----------------------------------------------------------------------------
(***************************************************************************)
(* The main loop implements Poller.  Connecting, sleeping and what servers *)
(* do are stutters of it; a ping is a probe of its target.                 *)
(***************************************************************************)

\* The abstract variables of a state in which the list position is known.
LEMMA PolledValues ==
    ASSUME PingInv
    PROVE  /\ pc \in {"round", "check", "sleep", "done"} => Polled = Target
           /\ pc = "target" /\ target = 1 => Polled = {}
           /\ pc = "ping" => Polled = {t \in Target : t < target}
  <1> USE PingAssumption
  <1>1. ControlInv /\ Target = 1 .. NTargets
    BY DEF PingInv
  <1>2. ASSUME target = NTargets + 1
        PROVE  {t \in Target : t < target} = Target
    BY <1>1, <1>2
  <1>3. pc \in {"round", "check", "sleep", "done"} => Polled = Target
    BY <1>1, <1>2 DEF ControlInv, Polled
  <1>4. pc = "target" /\ target = 1 => Polled = {}
    BY <1>1 DEF Polled
  <1>5. pc = "ping" => Polled = {t \in Target : t < target}
    BY DEF Polled
  <1>6. QED
    BY <1>3, <1>4, <1>5

\* Every step of the main loop is a step of Poller, or a stutter.
LEMMA PollerStep ==
    ASSUME PingInv, PingInv', [Next]_vars
    PROVE  [P!PollerNext]_(P!pollerVars)
  <1> USE PingAssumption
  <1>1. /\ target \in 1 .. NTargets + 1 /\ loop_count \in Nat
        /\ total_sent \in Nat /\ total_recv \in Nat /\ total_recv <= total_sent
        /\ ControlInv /\ VerdictInv
    BY DEF PingInv, TypeOK, VerdictInv
  <1>2. CASE StartRound
    <2>1. /\ status = "running" /\ Polled = Target /\ (Count = 0 \/ loop_count < Count)
      BY <1>1, <1>2, PolledValues DEF StartRound, VerdictInv, ControlInv
    <2>2. Polled' = {} /\ loop_count' = loop_count + 1
      BY <1>1, <1>2 DEF StartRound, Polled, ControlInv
    <2>3. UNCHANGED <<total_sent, total_recv, quitting, status>>
      BY <1>2 DEF StartRound, statVars
    <2>4. P!StartRound
      BY <2>1, <2>2, <2>3 DEF P!StartRound
    <2>5. QED
      BY <2>4 DEF P!PollerNext
  <1>3. CASE PingAnswered \/ PingLost
    <2>1. /\ pc = "ping" /\ target \in Target /\ target' = target + 1
          /\ pc' \in {"check", "target"}
          /\ UNCHANGED <<loop_count, quitting, status>>
          /\ total_sent' = total_sent + 1
          /\ total_recv' \in {total_recv, total_recv + 1}
      BY <1>3, PingStep
    <2>2. Polled = {t \in Target : t < target} /\ Polled' = {t \in Target : t < target'}
      BY <2>1 DEF Polled
    <2>3. Polled' = Polled \cup {target} /\ target \notin Polled
      BY <2>1, <2>2
    <2>4. (total_recv' < total_sent') \in {total_recv < total_sent, TRUE}
      <3>1. (total_recv < total_sent) => (total_recv' < total_sent')
        BY <1>1, <2>1
      <3>2. CASE total_recv' < total_sent'
        BY <3>2
      <3>3. CASE ~(total_recv' < total_sent')
        <4>1. (total_recv' < total_sent') = FALSE /\ (total_recv < total_sent) = FALSE
          BY <3>1, <3>3
        <4>2. QED
          BY <4>1
      <3>4. QED
        BY <3>2, <3>3
    <2>5. status = "running"
      BY <1>1, <2>1 DEF VerdictInv
    <2>6. P!Probe(target)
      BY <2>1, <2>3, <2>4, <2>5 DEF P!Probe
    <2>7. QED
      BY <2>1, <2>6 DEF P!PollerNext
  <1>4. CASE Exit
    <2>1. /\ pc = "check" /\ pc' = "done" /\ UNCHANGED <<target, loop_count, quitting>>
          /\ quitting \/ (Count > 0 /\ loop_count >= Count)
          /\ status' = IF total_recv < total_sent THEN "failure" ELSE "success"
          /\ UNCHANGED <<total_sent, total_recv>>
      BY <1>1, <1>4 DEF Exit, LoopAgain, statVars
    <2>2. /\ loop_count > 0 /\ (quitting \/ (Count > 0 /\ loop_count = Count))
          /\ status = "running"
      BY <1>1, <2>1 DEF ControlInv, VerdictInv
    <2>3. Polled = Target /\ Polled' = Polled
      BY <2>1, PolledValues DEF Polled
    <2>4. P!Finish
      BY <2>1, <2>2, <2>3 DEF P!Finish
    <2>5. QED
      BY <2>4 DEF P!PollerNext
  <1>5. CASE sigint_handler
    <2>1. /\ pc # "done" /\ quitting' = TRUE
          /\ UNCHANGED <<pc, target, loop_count, status, total_sent, total_recv>>
      BY <1>5 DEF sigint_handler, statVars
    <2>2. status = "running" /\ Polled' = Polled
      BY <1>1, <2>1 DEF VerdictInv, Polled
    <2>3. P!Interrupt
      BY <2>1, <2>2 DEF P!Interrupt
    <2>4. QED
      BY <2>3 DEF P!PollerNext
  <1>6. CASE Connect \/ Sleep \/ WakeUp
    <2>1. /\ UNCHANGED <<loop_count, quitting, status, total_sent, total_recv>>
      BY <1>6 DEF Connect, Sleep, WakeUp, statVars
    <2>2. Polled' = Polled
      <3>1. CASE Connect
        BY <3>1 DEF Connect, Polled
      <3>2. CASE Sleep
        BY <3>2 DEF Sleep, Polled
      <3>3. CASE WakeUp
        <4>1. pc = "sleep" /\ pc' = "round"
          BY <3>3 DEF WakeUp
        <4>2. QED
          BY <4>1, PolledValues DEF Polled
      <3>4. QED
        BY <1>6, <3>1, <3>2, <3>3
    <2>3. QED
      BY <2>1, <2>2 DEF P!pollerVars
  <1>7. CASE UNCHANGED pingVars
    BY <1>7 DEF pingVars, P!pollerVars, Polled
  <1>8. QED
    BY <1>2, <1>3, <1>4, <1>5, <1>6, <1>7
    DEF Next, Process, Connecting, Servers, Exited, vars

\* nfsping polls as Poller promises: rounds over all targets, the count asked
\* for, exit status 0 exactly when every ping was answered.
THEOREM PingImplementsPoller == Spec => ImplementsPoller
  <1>1. Init => P!PollerInit
    <2> SUFFICES ASSUME Init PROVE P!PollerInit
      OBVIOUS
    <2>1. /\ loop_count = 0 /\ quitting = FALSE /\ status = "running"
          /\ total_recv = 0 /\ total_sent = 0 /\ pc = "round"
      BY DEF Init
    <2>2. Polled = Target /\ (total_recv < total_sent) = FALSE
      BY <2>1 DEF Polled
    <2>3. QED
      BY <2>1, <2>2 DEF P!PollerInit
  <1>2. PingInv /\ PingInv' /\ [Next]_vars => [P!PollerNext]_(P!pollerVars)
    BY PollerStep
  <1>3. QED
    BY PingInvariant, <1>1, <1>2, PTL DEF Spec, ImplementsPoller, P!PollerSpec

-----------------------------------------------------------------------------
\* What is left over after whole multiples of n is the remainder.
LEMMA Remainder ==
    ASSUME NEW a \in Nat, NEW b \in Nat, NEW n \in Nat \ {0}, b < n
    PROVE  (n * a + b) % n = b
  OBVIOUS

\* Counting up to a multiple of n: the next number is one, or its remainder
\* is one more.
LEMMA NextRemainder ==
    ASSUME NEW x \in Nat, NEW n \in Nat \ {0}
    PROVE  /\ x % n \in 0 .. n - 1
           /\ (x + 1) % n = IF (x % n) + 1 = n THEN 0 ELSE (x % n) + 1
  <1> DEFINE q == x \div n
             r == x % n
  <1>1. q \in Nat /\ r \in 0 .. n - 1
    OBVIOUS
  <1>2. r = x - n * q
    OBVIOUS
  <1> HIDE DEF q, r
  <1>3. n * q \in Nat /\ x = n * q + r
    BY <1>1, <1>2
  <1>4. CASE r + 1 = n
    <2>1. x + 1 = n * q + n
      BY <1>1, <1>3, <1>4
    <2>2. n * q + n = n * (q + 1) + 0
      BY <1>1
    <2>3. (n * (q + 1) + 0) % n = 0
      BY <1>1, Remainder
    <2>4. QED
      BY <1>1, <1>4, <2>1, <2>2, <2>3 DEF r
  <1>5. CASE r + 1 # n
    <2>1. r + 1 \in Nat /\ r + 1 < n
      BY <1>1, <1>5
    <2>2. x + 1 = n * q + (r + 1)
      BY <1>1, <1>3
    <2>3. (n * q + (r + 1)) % n = r + 1
      BY <1>1, <2>1, Remainder
    <2>4. QED
      BY <1>1, <1>5, <2>2, <2>3 DEF r
  <1>6. QED
    BY <1>4, <1>5

\* The counter a target should have after some rounds.
SentAfter(rounds) == IF Interval = 0 THEN rounds ELSE rounds % Interval

\* One more round, with the reset after an interval summary, is one more step
\* of that counter.
LEMMA SentAfterStep ==
    ASSUME NEW k \in Nat, loop_count = k + 1
    PROVE  AfterInterval(SentAfter(k) + 1, 0) = SentAfter(k + 1)
  <1> USE PingAssumption
  <1>1. CASE Interval = 0
    BY <1>1 DEF AfterInterval, IntervalEnds, SentAfter
  <1>2. CASE Interval # 0
    <2>1. Interval \in Nat \ {0}
      BY <1>2
    <2>2. /\ k % Interval \in 0 .. Interval - 1
          /\ (k + 1) % Interval = IF (k % Interval) + 1 = Interval THEN 0
                                  ELSE (k % Interval) + 1
      BY <2>1, NextRemainder
    <2>3. CASE (k + 1) % Interval = 0
      BY <2>1, <2>3 DEF AfterInterval, IntervalEnds, SentAfter
    <2>4. CASE (k + 1) % Interval # 0
      BY <2>1, <2>2, <2>4 DEF AfterInterval, IntervalEnds, SentAfter
    <2>5. QED
      BY <2>3, <2>4
  <1>3. QED
    BY <1>1, <1>2

\* Each target's counter is the number of pings since its last summary: no
\* target is skipped or pinged twice in a round, no summary is empty.
THEOREM RoundsAreFair == Spec => []SentCountsRounds
  <1> USE PingAssumption
  <1>1. Init => SentCountsRounds
    <2> SUFFICES ASSUME Init, NEW t \in Target
                 PROVE  sent[t] = SentAfter(RoundsOf(t))
      BY DEF SentCountsRounds, SentAfter
    <2>1. sent[t] = 0 /\ RoundsOf(t) = 0
      BY DEF Init, RoundsOf
    <2>2. Interval # 0 => 0 % Interval = 0
      OBVIOUS
    <2>3. QED
      BY <2>1, <2>2 DEF SentAfter
  <1>2. PingInv /\ SentCountsRounds /\ [Next]_vars => SentCountsRounds'
    <2> SUFFICES ASSUME PingInv, SentCountsRounds, [Next]_vars, NEW t \in Target
                 PROVE  sent'[t] = SentAfter(RoundsOf(t)')
      BY DEF SentCountsRounds, SentAfter
    <2>1. /\ sent[t] = SentAfter(RoundsOf(t)) /\ ControlInv
          /\ loop_count \in Nat /\ target \in 1 .. NTargets + 1
          /\ sent \in [Target -> Nat]
      BY DEF SentCountsRounds, SentAfter, PingInv, TypeOK
    <2>2. CASE PingAnswered \/ PingLost
      <3>1. /\ pc = "ping" /\ pc' # "round" /\ target \in Target
            /\ target' = target + 1 /\ loop_count' = loop_count
            /\ sent' = [sent EXCEPT ![target] = AfterInterval(sent[target] + 1, 0)]
        BY <2>2, PingStep
      <3>2. CASE t = target
        <4>1. RoundsOf(t) = loop_count - 1 /\ RoundsOf(t)' = loop_count
          BY <2>1, <3>1, <3>2 DEF RoundsOf
        <4>2. loop_count - 1 \in Nat /\ loop_count = (loop_count - 1) + 1
          BY <2>1, <3>1 DEF ControlInv
        <4>3. AfterInterval(SentAfter(loop_count - 1) + 1, 0) = SentAfter(loop_count)
          BY <4>2, SentAfterStep
        <4>4. QED
          BY <2>1, <3>1, <3>2, <4>1, <4>3
      <3>3. CASE t # target
        <4>1. RoundsOf(t)' = RoundsOf(t)
          BY <2>1, <3>1, <3>3 DEF RoundsOf
        <4>2. QED
          BY <2>1, <3>1, <3>3, <4>1
      <3>4. QED
        BY <3>2, <3>3
    <2>3. CASE StartRound
      <3>1. RoundsOf(t)' = RoundsOf(t)
        BY <2>1, <2>3 DEF StartRound, RoundsOf, ControlInv
      <3>2. QED
        BY <2>1, <2>3, <3>1 DEF StartRound, statVars
    <2>4. CASE WakeUp
      <3>1. RoundsOf(t)' = RoundsOf(t)
        BY <2>1, <2>4 DEF WakeUp, RoundsOf, ControlInv
      <3>2. QED
        BY <2>1, <2>4, <3>1 DEF WakeUp, statVars
    <2>5. CASE Connect \/ Sleep \/ Exit
      <3>1. /\ pc # "round" /\ pc' # "round"
            /\ UNCHANGED <<target, loop_count, sent>>
        BY <2>5 DEF Connect, Sleep, Exit, statVars
      <3>2. QED
        BY <2>1, <3>1 DEF RoundsOf
    <2>6. CASE sigint_handler
      BY <2>1, <2>6 DEF sigint_handler, RoundsOf, statVars
    <2>7. CASE UNCHANGED pingVars
      BY <2>1, <2>7 DEF pingVars, RoundsOf
    <2>8. QED
      BY <2>2, <2>3, <2>4, <2>5, <2>6, <2>7
      DEF Next, Process, Connecting, Servers, Exited, vars
  <1>3. QED
    BY PingInvariant, <1>1, <1>2, PTL DEF Spec
-----------------------------------------------------------------------------
(***************************************************************************)
(* How many pings there were, and how many sockets they can have used.     *)
(***************************************************************************)

\* Rounds of NTargets pings, and those of the current one.
TotalInv ==
    total_sent = IF pc = "round" THEN loop_count * NTargets
                 ELSE (loop_count - 1) * NTargets + (target - 1)

\* The sockets one create_rpc_client() opens: the portmapper's, unless the
\* port is known from the start, and the program's.
PerCall == IF InitPort = 0 THEN 2 ELSE 1

\* Sockets are never numbered higher than if none was ever closed.
SocketInv ==
    /\ \A t \in Target : client[t] # NULL => client[t].prog = Prog
    /\ InitPort # 0 => \A t \in Target : sin_port[t] = InitPort
    /\ open \subseteq 1 .. (PerCall * total_sent +
                           (IF pc # "ping" THEN 0
                            ELSE IF call = NULL THEN PerCall ELSE PerCall - 1))

\* Enough sockets for every call of a run with a count.
EnoughSockets == Count > 0 /\ MaxFds >= PerCall * (Count * NTargets)

\* Every port in a sockaddr_in but the portmapper's is from -P or was given
\* for the program.
GivenInv ==
    \A t \in Target :
        sin_port[t] \in Port =>
           sin_port[t] = InitPort \/ <<t, Prog, sin_port[t]>> \in given

\* The target's program will be reached through the port it is on.
Reachable(t) ==
    /\ registry[t][Prog] \in Port
    /\ \/ sin_port[t] \in {0, registry[t][Prog]}
       \/ call # NULL /\ call.target = t /\ call.step = "getport"

\* The next ping of this target will be lost in spite of that.
Vulnerable(t) ==
    \/ client[t] # NULL /\ ~client[t].live
    \/ pc = "ping" /\ target = t /\ call = NULL /\ client[t] = NULL

\* Once nothing fails any more a reachable target loses one ping, and only if
\* it was vulnerable when the outage ended.
RecoverInv ==
    \A t \in Target :
        /\ ~stable => lost_stable[t] = 0
        /\ Reachable(t) => /\ lost_stable[t] <= 1
                           /\ Vulnerable(t) => lost_stable[t] = 0

\* The -C line of a single target so far.
ResultsInv ==
    /\ answered[1] \subseteq 1 .. total_sent
    /\ \A i \in 0 .. Count - 1 : results[1][i] # 0 <=> i + 1 \in answered[1]

\* The rounds a target answered have begun.
AnsweredInv == \A t \in Target : answered[t] \subseteq 1 .. RoundsOf(t)

LEMMA Distributes ==
    ASSUME NEW a \in Nat, NEW n \in Nat
    PROVE  /\ a * n \in Nat
           /\ (a + 1) * n = a * n + n
  OBVIOUS

LEMMA MulGrows ==
    ASSUME NEW a \in Nat, NEW b \in Nat, NEW n \in Nat, a <= b
    PROVE  a * n <= b * n
  <1>1. PICK d \in Nat : b = a + d
    BY b - a \in Nat
  <1>2. d * n \in Nat /\ a * n \in Nat
    BY Distributes
  <1>3. b * n = a * n + d * n
    BY <1>1
  <1>4. QED
    BY <1>2, <1>3

LEMMA InitTotal == Init => TotalInv
  BY PingAssumption DEF Init, TotalInv

\* Every ping is counted, answered or not, connected or not.
LEMMA TotalStep ==
    ASSUME PingInv, TotalInv, [Next]_vars
    PROVE  TotalInv'
  <1> USE PingAssumption
  <1>1. /\ ControlInv /\ loop_count \in Nat /\ target \in 1 .. NTargets + 1
        /\ total_sent \in Nat
    BY DEF PingInv, TypeOK
  <1>2. pc # "round" => loop_count - 1 \in Nat /\ loop_count = (loop_count - 1) + 1
    BY <1>1 DEF ControlInv
  <1>3. CASE StartRound
    BY <1>1, <1>3 DEF StartRound, TotalInv, ControlInv, statVars
  <1>4. CASE PingAnswered \/ PingLost
    <2>1. /\ pc = "ping" /\ pc' # "round" /\ target' = target + 1
          /\ loop_count' = loop_count /\ total_sent' = total_sent + 1
      BY <1>4, PingStep
    <2>2. (loop_count - 1) * NTargets \in Nat
      BY <1>2, <2>1, Distributes
    <2>3. QED
      BY <1>1, <2>1, <2>2 DEF TotalInv
  <1>5. CASE WakeUp
    <2>1. /\ pc = "sleep" /\ pc' = "round" /\ target = NTargets + 1
          /\ UNCHANGED <<loop_count, total_sent>>
      BY <1>1, <1>5 DEF WakeUp, ControlInv, statVars
    <2>2. loop_count * NTargets = (loop_count - 1) * NTargets + NTargets
      BY <1>2, <2>1, Distributes
    <2>3. total_sent = (loop_count - 1) * NTargets + (target - 1)
      BY <2>1 DEF TotalInv
    <2>4. total_sent = loop_count * NTargets
      BY <2>1, <2>2, <2>3
    <2>5. QED
      BY <2>1, <2>4 DEF TotalInv
  <1>6. CASE Connect \/ Sleep \/ Exit
    <2>1. pc # "round" /\ pc' # "round" /\ UNCHANGED <<target, loop_count, total_sent>>
      BY <1>6 DEF Connect, Sleep, Exit, statVars
    <2>2. QED
      BY <2>1 DEF TotalInv
  <1>7. CASE sigint_handler
    BY <1>7 DEF sigint_handler, TotalInv, statVars
  <1>8. CASE UNCHANGED pingVars
    BY <1>8 DEF TotalInv, pingVars
  <1>9. QED
    BY <1>3, <1>4, <1>5, <1>6, <1>7, <1>8
    DEF Next, Process, Connecting, Servers, Exited, vars

\* With a count, the ping that is going on is one of Count * NTargets.
LEMMA PingsAreBounded ==
    ASSUME PingInv, TotalInv, Count > 0, pc \in {"target", "ping"}
    PROVE  total_sent + 1 <= Count * NTargets
  <1> USE PingAssumption
  <1>1. /\ loop_count \in Nat \ {0} /\ target \in 1 .. NTargets /\ loop_count <= Count
    BY DEF PingInv, TypeOK, ControlInv
  <1>2. total_sent = (loop_count - 1) * NTargets + (target - 1)
    BY DEF TotalInv
  <1>3. /\ loop_count - 1 \in Nat /\ (loop_count - 1) * NTargets \in Nat
        /\ loop_count * NTargets = (loop_count - 1) * NTargets + NTargets
    <2>1. loop_count - 1 \in Nat /\ loop_count = (loop_count - 1) + 1
      BY <1>1
    <2>2. QED
      BY <2>1, Distributes
  <1>4. loop_count * NTargets <= Count * NTargets /\ Count * NTargets \in Nat
    BY <1>1, MulGrows, Distributes
  <1>5. QED
    BY <1>1, <1>2, <1>3, <1>4

-----------------------------------------------------------------------------
\* A new socket is numbered one above the highest open one, at most.
LEMMA NextSocketNumber ==
    ASSUME NEW k \in Nat, open \subseteq 1 .. k, NEW fd \in Fds, LowestFree(fd)
    PROVE  open \cup {fd} \subseteq 1 .. k + 1
  <1>1. fd \in 1 .. k + 1
    <2>1. CASE k + 1 \in Fds
      <3>1. k + 1 \in Fds \ open
        BY <2>1
      <3>2. fd <= k + 1
        BY <3>1 DEF LowestFree
      <3>3. QED
        BY <3>2 DEF Fds
    <2>2. CASE k + 1 \notin Fds
      BY <2>2, RpcAssumption DEF Fds
    <2>3. QED
      BY <2>1, <2>2
  <1>2. QED
    BY <1>1

\* The bound on the numbers of open sockets, by what has been called so far.
SocketBound ==
    PerCall * total_sent + (IF pc # "ping" THEN 0
                            ELSE IF call = NULL THEN PerCall ELSE PerCall - 1)

LEMMA SocketBoundIsNat ==
    ASSUME total_sent \in Nat
    PROVE  SocketBound \in Nat /\ PerCall \in {1, 2} /\ (InitPort = 0 => PerCall = 2)
  BY DEF SocketBound, PerCall

LEMMA InitSocket == Init => SocketInv
  BY DEF Init, RpcInit, SocketInv

\* Each ping opens its sockets at most one above those before it.
LEMMA SocketStep ==
    ASSUME PingInv, SocketInv, [Next]_vars
    PROVE  SocketInv'
  <1> USE PingAssumption, RpcAssumption
  <1>1. /\ ControlInv /\ RpcTypeOK /\ total_sent \in Nat
        /\ \A t \in Target : client[t] # NULL => client[t].prog = Prog
        /\ InitPort # 0 => \A t \in Target : sin_port[t] = InitPort
        /\ open \subseteq 1 .. SocketBound
        /\ SocketBound \in Nat /\ PerCall \in {1, 2} /\ (InitPort = 0 => PerCall = 2)
    BY SocketBoundIsNat DEF PingInv, TypeOK, SocketInv, SocketBound
  <1>2. SUFFICES /\ \A t \in Target : client'[t] # NULL => client'[t].prog = Prog
                 /\ InitPort # 0 => \A t \in Target : sin_port'[t] = InitPort
                 /\ open' \subseteq 1 .. SocketBound'
    BY DEF SocketInv, SocketBound, PerCall
  <1>3. CASE Connect
    <2>1. /\ pc = "target" /\ pc' = "ping" /\ target \in Target /\ call = NULL
          /\ UNCHANGED total_sent
      BY <1>1, <1>3 DEF Connect, ControlInv, statVars, PingInv, TypeOK
    <2>2. SocketBound = PerCall * total_sent
      BY <1>1, <2>1 DEF SocketBound
    <2>3. CASE UNCHANGED rpcVars
      <3>1. SocketBound' = SocketBound + PerCall
        BY <2>1, <2>2, <2>3 DEF SocketBound, PerCall, rpcVars
      <3>2. QED
        BY <1>1, <2>3, <3>1 DEF rpcVars
    <2>4. CASE LookupNeeded(target) /\ PortmapConnect(target, Prog)
      <3>1. InitPort = 0 /\ PerCall = 2
        BY <1>1, <2>1, <2>4 DEF LookupNeeded
      <3>2. SocketBound' = SocketBound + (IF call' = NULL THEN 2 ELSE 1)
        BY <2>1, <2>2, <3>1 DEF SocketBound, PerCall
      <3>3. UNCHANGED client
        BY <2>4 DEF PortmapConnect
      <3>4. open' \subseteq 1 .. SocketBound + 1
        <4>1. CASE UNCHANGED open
          BY <1>1, <4>1
        <4>2. CASE \E fd \in Fds : LowestFree(fd) /\ open' = open \cup {fd}
          BY <1>1, <4>2, NextSocketNumber
        <4>3. QED
          BY <2>4, <4>1, <4>2 DEF PortmapConnect, OpenSocket
      <3>5. QED
        BY <1>1, <3>1, <3>2, <3>3, <3>4
    <2>5. CASE UseKnownPort(target, Prog)
      <3>1. UNCHANGED <<sin_port, client, open>>
        BY <2>5 DEF UseKnownPort
      <3>2. SocketBound' \in Nat /\ SocketBound' >= SocketBound
        BY <1>1, <2>1, <2>2 DEF SocketBound, PerCall
      <3>3. QED
        BY <1>1, <3>1, <3>2
    <2>6. QED
      BY <1>3, <2>3, <2>4, <2>5 DEF Connect, create_rpc_client
  <1>4. CASE Connecting
    <2>1. /\ pc = "ping" /\ call # NULL /\ call.prog = Prog /\ call \in Call
          /\ UNCHANGED <<pc, total_sent>>
      BY <1>1, <1>4 DEF Connecting, RpcStep, get_rpc_port, ConnectProgram, ControlInv,
                        pingVars, RpcTypeOK
    <2>2. CASE get_rpc_port
      <3>1. /\ UNCHANGED <<client, open>>
            /\ call' = NULL \/ call' = [call EXCEPT !.step = "connect"]
        BY <2>2 DEF get_rpc_port
      <3>2. InitPort = 0
        <4>1. sin_port[call.target] = PMAPPORT /\ call.target \in Target
          BY <2>1, <2>2 DEF get_rpc_port, PingInv, RpcInv, Call
        <4>2. QED
          BY <1>1, <4>1
      <3>3. SocketBound' \in Nat /\ SocketBound' >= SocketBound
        BY <1>1, <2>1, <3>1, <3>2 DEF SocketBound, PerCall
      <3>4. QED
        BY <1>1, <3>1, <3>2, <3>3
    <2>3. CASE ConnectProgram
      <3>1. call' = NULL /\ UNCHANGED sin_port /\ SocketBound' = SocketBound + 1
        BY <1>1, <2>1, <2>3 DEF ConnectProgram, SocketBound, PerCall
      <3>2. \/ UNCHANGED client
            \/ \E fd \in Fds : client' = [client EXCEPT ![call.target] =
                                             NewClient(call.target, call.prog, fd)]
        BY <2>3 DEF ConnectProgram
      <3>3. \A t \in Target : client'[t] # NULL => client'[t].prog = Prog
        <4>1. \A fd : NewClient(call.target, call.prog, fd).prog = Prog
          BY <2>1 DEF NewClient
        <4>2. client \in [Target -> Client \cup {NULL}] /\ call.target \in Target
          BY <1>1, <2>1 DEF RpcTypeOK, Call
        <4>3. QED
          BY <1>1, <3>2, <4>1, <4>2
      <3>4. open' \subseteq 1 .. SocketBound + 1
        <4>1. CASE UNCHANGED open
          BY <1>1, <4>1
        <4>2. CASE \E fd \in Fds : LowestFree(fd) /\ open' = open \cup {fd}
          BY <1>1, <4>2, NextSocketNumber
        <4>3. QED
          BY <2>3, <4>1, <4>2 DEF ConnectProgram, OpenSocket
      <3>5. QED
        BY <1>1, <3>1, <3>3, <3>4
    <2>4. QED
      BY <1>4, <2>2, <2>3 DEF Connecting, RpcStep
  <1>5. CASE PingAnswered \/ PingLost
    <2>1. /\ pc = "ping" /\ call = NULL /\ pc' # "ping" /\ target \in Target
          /\ total_sent' = total_sent + 1
      BY <1>5, PingStep
    <2>2. /\ UNCHANGED sin_port
          /\ \/ UNCHANGED <<client, open>>
             \/ client' = [client EXCEPT ![target] = NULL] /\ open' \subseteq open
      BY <1>5 DEF PingAnswered, PingLost, Disconnect, destroy_rpc_client
    <2>3. SocketBound' = SocketBound
      BY <1>1, <2>1 DEF SocketBound, PerCall
    <2>4. QED
      BY <1>1, <2>1, <2>2, <2>3 DEF RpcTypeOK
  <1>6. CASE Servers
    <2>1. UNCHANGED <<sin_port, open, call, pc, total_sent>>
      BY <1>6 DEF Servers, Environment, Rebind, Stabilise, pingVars
    <2>2. \/ UNCHANGED client
          \/ \E t \in Target : client' = [client EXCEPT ![t].live = FALSE]
                               /\ client[t] # NULL
      BY <1>6 DEF Servers, Environment, Rebind, Stabilise
    <2>3. \A t \in Target : client'[t] # NULL => client'[t].prog = Prog
      <3>1. client \in [Target -> Client \cup {NULL}]
        BY <1>1 DEF RpcTypeOK
      <3>2. CASE UNCHANGED client
        BY <1>1, <3>2
      <3>3. ASSUME NEW t \in Target, client[t] # NULL,
                   client' = [client EXCEPT ![t].live = FALSE]
            PROVE  \A u \in Target : client'[u] # NULL => client'[u].prog = Prog
        <4>1. client' = [client EXCEPT ![t] = [client[t] EXCEPT !.live = FALSE]]
          BY <3>3
        <4>2. client[t] \in Client /\ client[t].prog = Prog
          BY <1>1, <3>1, <3>3
        <4>3. [client[t] EXCEPT !.live = FALSE].prog = Prog
          BY <4>2 DEF Client
        <4>4. QED
          BY <1>1, <3>1, <4>1, <4>3
      <3>4. QED
        BY <2>2, <3>2, <3>3
    <2>4. QED
      BY <1>1, <2>1, <2>3 DEF SocketBound, PerCall
  <1>7. CASE StartRound \/ Sleep \/ WakeUp \/ Exit
    <2>1. pc # "ping" /\ pc' # "ping" /\ UNCHANGED <<rpcVars, total_sent>>
      BY <1>7 DEF StartRound, Sleep, WakeUp, Exit, statVars
    <2>2. QED
      BY <1>1, <2>1 DEF SocketBound, PerCall, rpcVars
  <1>8. CASE sigint_handler
    BY <1>1, <1>8 DEF sigint_handler, SocketBound, PerCall, rpcVars, statVars
  <1>9. CASE UNCHANGED vars
    BY <1>1, <1>9 DEF SocketBound, PerCall, vars, rpcVars, pingVars
  <1>10. QED
    BY <1>3, <1>4, <1>5, <1>6, <1>7, <1>8, <1>9 DEF Next, Process, Exited

\* Enough sockets means that one is left for each leg of each call.
LEMMA SocketsSuffice ==
    ASSUME PingInv, TotalInv, SocketInv, EnoughSockets,
           \/ pc = "target"
           \/ pc = "ping" /\ call # NULL
    PROVE  ~(Fds \subseteq open)
  <1> USE PingAssumption, RpcAssumption
  <1>1. /\ total_sent \in Nat /\ Count * NTargets \in Nat
        /\ total_sent + 1 <= Count * NTargets
        /\ PerCall \in {1, 2} /\ SocketBound \in Nat
        /\ open \subseteq 1 .. SocketBound
    <2>1. total_sent \in Nat
      BY DEF PingInv, TypeOK
    <2>2. Count * NTargets \in Nat
      BY Distributes
    <2>3. QED
      BY <2>1, <2>2, PingsAreBounded, SocketBoundIsNat
      DEF EnoughSockets, SocketInv, SocketBound
  <1> DEFINE most == Count * NTargets
  <1>2. MaxFds >= PerCall * most
    BY DEF EnoughSockets
  <1>3. SocketBound <= PerCall * total_sent + PerCall - 1
    BY <1>1 DEF SocketBound
  <1> HIDE DEF most
  <1>4. SocketBound + 1 <= MaxFds
    BY <1>1, <1>2, <1>3 DEF most
  <1>5. SocketBound + 1 \in Fds \ open
    BY <1>1, <1>4 DEF Fds
  <1>6. QED
    BY <1>5

\* The facts about totals and sockets hold throughout every run.
LEMMA SocketInvariant == Spec => [](PingInv /\ TotalInv /\ SocketInv)
  <1>1. PingInv /\ TotalInv /\ SocketInv /\ [Next]_vars => TotalInv' /\ SocketInv'
    BY TotalStep, SocketStep
  <1>2. QED
    BY PingInvariant, InitTotal, InitSocket, <1>1, PTL DEF Spec

-----------------------------------------------------------------------------
\* Where a port in a sockaddr_in comes from.
LEMMA GivenStep ==
    ASSUME PingInv, GivenInv, [Next]_vars
    PROVE  GivenInv'
  <1> USE PingAssumption, RpcAssumption
  <1>1. /\ sin_port \in [Target -> Port \cup {0, PMAPPORT}]
        /\ call \in Call \cup {NULL}
        /\ PMAPPORT \notin Port /\ 0 \notin Port
    BY DEF PingInv, RpcInv, RpcTypeOK
  <1>2. CASE Connect
    <2>1. target \in Target
      BY <1>2 DEF Connect, PingInv, ControlInv, TypeOK
    <2>2. CASE UNCHANGED <<sin_port, given>>
      BY <2>2 DEF GivenInv
    <2>3. CASE sin_port' = [sin_port EXCEPT ![target] = PMAPPORT] /\ UNCHANGED given
      BY <1>1, <2>1, <2>3 DEF GivenInv
    <2>4. QED
      BY <1>2, <2>2, <2>3
      DEF Connect, create_rpc_client, PortmapConnect, UseKnownPort, rpcVars
  <1>3. CASE get_rpc_port
    <2>1. /\ call \in Call /\ call.target \in Target /\ call.prog = Prog /\ call # NULL
      BY <1>1, <1>3 DEF get_rpc_port, PingInv, ControlInv, Call
    <2>2. PICK port \in PortmapAnswers(call.target, call.prog) :
             /\ sin_port' = [sin_port EXCEPT ![call.target] = port]
             /\ given' = IF port = 0 THEN given
                         ELSE given \cup {<<call.target, call.prog, port>>}
      BY <1>3 DEF get_rpc_port
    <2>3. ASSUME NEW t \in Target, sin_port'[t] \in Port
          PROVE  sin_port'[t] = InitPort \/ <<t, Prog, sin_port'[t]>> \in given'
      <3>1. CASE t = call.target
        <4>1. sin_port'[t] = port /\ port # 0
          BY <1>1, <2>1, <2>2, <2>3, <3>1
        <4>2. QED
          BY <2>1, <2>2, <3>1, <4>1
      <3>2. CASE t # call.target
        BY <1>1, <2>1, <2>2, <2>3, <3>2 DEF GivenInv
      <3>3. QED
        BY <3>1, <3>2
    <2>4. QED
      BY <2>3 DEF GivenInv
  <1>4. CASE UNCHANGED <<sin_port, given>>
    BY <1>4 DEF GivenInv
  <1>5. QED
    BY <1>2, <1>3, <1>4
    DEF Next, Process, StartRound, Connecting, RpcStep, ConnectProgram, PingAnswered,
        PingLost, Disconnect, Sleep, WakeUp, Exit, sigint_handler, Servers, Environment,
        Rebind, Stabilise, Exited, vars, rpcVars

\* Only the connecting steps of the tool touch what LeftBehind looks at.
LEMMA LeftStep ==
    ASSUME PingInv, [Next]_vars
    PROVE  [LeftOnReturn]_rpcVars
  <1> USE PingAssumption
  <1>1. RpcInv
    BY DEF PingInv
  <1>2. CASE UNCHANGED <<sin_port, call>>
    BY <1>2 DEF LeftOnReturn, LeftBehind
  <1>3. CASE Connect
    <2>1. target \in Target
      BY <1>3 DEF Connect, PingInv, ControlInv, TypeOK
    <2>2. QED
      BY <1>1, <1>3, <2>1, CreateLeavesOnReturn DEF Connect
  <1>4. CASE Connecting
    BY <1>1, <1>4, RpcStepLeavesNothing DEF Connecting
  <1>5. QED
    BY <1>2, <1>3, <1>4
    DEF Next, Process, StartRound, PingAnswered, PingLost, Disconnect, Sleep, WakeUp,
        Exit, sigint_handler, Servers, Environment, Rebind, Stabilise, Exited, vars, rpcVars

\* nfsping, with any sockets, over UDP and TCP, and whatever fails: it calls
\* the program on the port from -P, on one its target's portmapper gave for
\* the program, or on the portmapper's own, and on that only after a call for
\* the target returned before it had asked.
THEOREM PortsAreKnownOrLeft == Spec => PortIsKnownOrLeft
  <1> USE PingAssumption, RpcAssumption
  <1> DEFINE Known == \A t \in Target :
                client[t] # NULL =>
                   PortIsKnown(t) \/ (client[t].port = PMAPPORT /\ LeftBehind(t))
  <1>1. Init => GivenInv
    BY DEF Init, RpcInit, GivenInv
  <1>2. PingInv /\ GivenInv /\ [Next]_vars => GivenInv'
    BY GivenStep
  <1>3. PingInv /\ SocketInv /\ GivenInv => Known
    <2> SUFFICES ASSUME PingInv, SocketInv, GivenInv,
                        NEW t \in Target, client[t] # NULL
                 PROVE  PortIsKnown(t) \/ (client[t].port = PMAPPORT /\ LeftBehind(t))
      OBVIOUS
    <2>1. /\ client[t].port = sin_port[t] /\ client[t].prog = Prog
          /\ client[t].port \in Port \cup {PMAPPORT}
          /\ call # NULL => client[call.target] = NULL
      <3>1. client[t] \in Client
        BY DEF PingInv, RpcInv, RpcTypeOK
      <3>2. client[t].port \in Port \cup {PMAPPORT}
        BY <3>1 DEF Client
      <3>3. QED
        BY <3>2 DEF PingInv, RpcInv, ClientUsesSinPort, SocketInv
    <2>2. CASE sin_port[t] = PMAPPORT
      BY <2>1, <2>2 DEF LeftBehind
    <2>3. CASE sin_port[t] \in Port
      BY <2>1, <2>3 DEF GivenInv, PortIsKnown
    <2>4. QED
      BY <2>1, <2>2, <2>3
  <1>4. PingInv /\ [Next]_vars => [LeftOnReturn]_rpcVars
    BY LeftStep
  <1>5. QED
    BY SocketInvariant, <1>1, <1>2, <1>3, <1>4, PTL DEF Spec, PortIsKnownOrLeft

-----------------------------------------------------------------------------
\* What accounting for a ping does to the counters of its target.
LEMMA CountPingEffect ==
    ASSUME TypeOK, target \in Target, NEW rcv, NEW lo, NEW hi, NEW values,
           CountPing(rcv, lo, hi, values)
    PROVE  LET t == target
               shown == print_interval(sent[t] + 1, rcv, lo, hi, values)
           IN  /\ IF IntervalEnds THEN received'[t] = 0 /\ sent'[t] = 0
                  ELSE received'[t] = rcv /\ sent'[t] = sent[t] + 1
               /\ Fping => IF IntervalEnds THEN min'[t] = ULONG_MAX /\ max'[t] = 0
                           ELSE min'[t] = lo /\ max'[t] = hi
               /\ ~Fping => IF IntervalEnds THEN interval_histogram'[t] = 0
                            ELSE interval_histogram'[t] = values
               /\ summary'[t] = IF IntervalEnds THEN shown ELSE summary[t]
               /\ \A u \in Target \ {t} :
                     /\ received'[u] = received[u] /\ sent'[u] = sent[u]
                     /\ min'[u] = min[u] /\ max'[u] = max[u]
                     /\ interval_histogram'[u] = interval_histogram[u]
                     /\ summary'[u] = summary[u]
  <1> DEFINE t == target
             shown == print_interval(sent[t] + 1, rcv, lo, hi, values)
  <1>1. /\ sent \in [Target -> Nat] /\ received \in [Target -> Nat]
        /\ min \in [Target -> Rtt \cup {ULONG_MAX}] /\ max \in [Target -> Rtt \cup {0}]
        /\ interval_histogram \in [Target -> Nat]
        /\ summary \in [Target -> Summary \cup {NULL}]
    BY DEF TypeOK
  <1>2. /\ summary' = IF IntervalEnds THEN [summary EXCEPT ![t] = shown] ELSE summary
        /\ sent' = [sent EXCEPT ![t] = AfterInterval(sent[t] + 1, 0)]
        /\ received' = [received EXCEPT ![t] = AfterInterval(rcv, 0)]
    BY DEF CountPing
  <1>3. IF Fping
        THEN /\ min' = [min EXCEPT ![t] = AfterInterval(lo, ULONG_MAX)]
             /\ max' = [max EXCEPT ![t] = AfterInterval(hi, 0)]
             /\ UNCHANGED interval_histogram
        ELSE /\ interval_histogram' =
                   [interval_histogram EXCEPT ![t] = AfterInterval(values, 0)]
             /\ UNCHANGED <<min, max>>
    BY DEF CountPing, StoreExtremes, StoreValues
  <1> HIDE DEF shown
  <1>4. summary'[t] = IF IntervalEnds THEN shown ELSE summary[t]
    BY <1>1, <1>2
  <1>5. \A u \in Target \ {t} :
           /\ received'[u] = received[u] /\ sent'[u] = sent[u]
           /\ summary'[u] = summary[u]
    BY <1>1, <1>2
  <1>6. \A u \in Target \ {t} :
           /\ min'[u] = min[u] /\ max'[u] = max[u]
           /\ interval_histogram'[u] = interval_histogram[u]
    BY <1>1, <1>3
  <1>7. IF IntervalEnds THEN received'[t] = 0 /\ sent'[t] = 0
        ELSE received'[t] = rcv /\ sent'[t] = sent[t] + 1
    BY <1>1, <1>2 DEF AfterInterval
  <1>8. /\ Fping => IF IntervalEnds THEN min'[t] = ULONG_MAX /\ max'[t] = 0
                    ELSE min'[t] = lo /\ max'[t] = hi
        /\ ~Fping => IF IntervalEnds THEN interval_histogram'[t] = 0
                     ELSE interval_histogram'[t] = values
    BY <1>1, <1>3 DEF AfterInterval
  <1>9. QED
    BY <1>4, <1>5, <1>6, <1>7, <1>8 DEF shown

\* Steps other than pings leave the statistics alone.
LEMMA StatsStep ==
    ASSUME [Next]_vars, ~PingAnswered, ~PingLost
    PROVE  UNCHANGED statVars
  BY DEF Next, Process, StartRound, Connect, Connecting, Sleep, WakeUp, Exit,
         sigint_handler, Servers, Exited, vars, pingVars, statVars

-----------------------------------------------------------------------------
\* The extremes of a target's interval: at their start values without an
\* answer, else in order and measured; and what a summary shows of them.
Extremes(rcv, lo, hi) ==
    IF rcv = 0 THEN lo = ULONG_MAX /\ hi = 0
    ELSE lo <= hi /\ {lo, hi} \subseteq Rtt

ShownExtremes(s) ==
    s # NULL /\ s.received > 0 => s.lower <= s.upper /\ {s.lower, s.upper} \subseteq Rtt

\* Counters with proper extremes give a summary with proper extremes, and
\* are left with proper extremes.
LEMMA ExtremesKept ==
    ASSUME TypeOK, ExtremesAreOfInterval, Fping, target \in Target,
           NEW rcv \in Nat, NEW lo, NEW hi, NEW values,
           CountPing(rcv, lo, hi, values), Extremes(rcv, lo, hi)
    PROVE  ExtremesAreOfInterval'
  <1> DEFINE shown == print_interval(sent[target] + 1, rcv, lo, hi, values)
  <1>1. ShownExtremes(shown)
    <2>1. /\ shown.received = rcv
          /\ rcv > 0 => shown.lower = lo /\ shown.upper = hi
      BY DEF print_interval, Fping
    <2>2. QED
      BY <2>1 DEF ShownExtremes, Extremes
  <1> HIDE DEF shown
  <1>2. /\ summary'[target] \in {shown, summary[target]}
        /\ Extremes(received'[target], min'[target], max'[target])
        /\ \A u \in Target \ {target} :
              /\ received'[u] = received[u] /\ min'[u] = min[u] /\ max'[u] = max[u]
              /\ summary'[u] = summary[u]
    BY CountPingEffect DEF Extremes, shown
  <1>3. \A t \in Target : /\ Extremes(received[t], min[t], max[t])
                          /\ ShownExtremes(summary[t])
    BY DEF ExtremesAreOfInterval, Extremes, ShownExtremes
  <1>4. \A t \in Target : /\ Extremes(received'[t], min'[t], max'[t])
                          /\ ShownExtremes(summary'[t])
    BY <1>1, <1>2, <1>3
  <1>5. QED
    BY <1>4 DEF ExtremesAreOfInterval, Extremes, ShownExtremes

\* The times an interval summary of -C -Q shows are those of its interval.
THEOREM ExtremesOfInterval == Spec => []ExtremesAreOfInterval
  <1> USE PingAssumption
  <1>1. Init => ExtremesAreOfInterval
    BY DEF Init, ExtremesAreOfInterval
  <1>2. PingInv /\ ExtremesAreOfInterval /\ [Next]_vars => ExtremesAreOfInterval'
    <2> SUFFICES ASSUME PingInv, ExtremesAreOfInterval, [Next]_vars
                 PROVE  ExtremesAreOfInterval'
      OBVIOUS
    <2> DEFINE t == target
    <2>1. CASE ~Fping
      BY <2>1 DEF ExtremesAreOfInterval, Fping
    <2>2. CASE Fping /\ PingAnswered
      <3>1. t \in Target /\ TypeOK
        BY <2>2, PingStep DEF PingInv
      <3>2. PICK us \in Rtt : CountReply(us)
        BY <2>2 DEF PingAnswered
      <3> DEFINE less == IF us < min[t] THEN us ELSE min[t]
                 more == IF us > max[t] THEN us ELSE max[t]
      <3>3. CountPing(received[t] + 1, less, more, interval_histogram[t] + Recorded(us))
        BY <2>2, <3>2 DEF CountReply
      <3>4. /\ received[t] \in Nat /\ min[t] \in Rtt \cup {ULONG_MAX}
            /\ max[t] \in Rtt \cup {0}
            /\ Extremes(received[t], min[t], max[t])
        BY <2>2, <3>1 DEF TypeOK, ExtremesAreOfInterval, Extremes
      <3>5. received[t] + 1 \in Nat /\ Extremes(received[t] + 1, less, more)
        <4>1. us \in Nat \ {0} /\ us < ULONG_MAX /\ ULONG_MAX \in Nat /\ Rtt \subseteq Nat
          OBVIOUS
        <4> DEFINE n == received[t] + 1
        <4>n. n \in Nat \ {0}
          BY <3>4
        <4> HIDE DEF n
        <4>2. CASE received[t] = 0
          <5>1. min[t] = ULONG_MAX /\ max[t] = 0
            BY <3>4, <4>2 DEF Extremes
          <5>2. less = us /\ more = us
            BY <4>1, <5>1
          <5>3. QED
            BY <4>1, <4>n, <5>2 DEF Extremes, n
        <4>3. CASE received[t] # 0
          <5>1. min[t] \in Rtt /\ max[t] \in Rtt /\ min[t] <= max[t]
            BY <3>4, <4>3 DEF Extremes
          <5>2. less \in Rtt /\ more \in Rtt /\ less <= more
            <6>1. ASSUME NEW lo \in Rtt, NEW hi \in Rtt, lo <= hi
                  PROVE  /\ (IF us < lo THEN us ELSE lo) \in Rtt
                         /\ (IF us > hi THEN us ELSE hi) \in Rtt
                         /\ (IF us < lo THEN us ELSE lo) <= (IF us > hi THEN us ELSE hi)
              BY <4>1, <6>1
            <6>2. QED
              BY <5>1, <6>1
          <5> HIDE DEF less, more
          <5>3. n \in Nat /\ Extremes(n, less, more)
            BY <4>n, <5>2 DEF Extremes
          <5>4. QED
            BY <5>3 DEF n
        <4>4. QED
          BY <4>2, <4>3
      <3> HIDE DEF less, more
      <3>6. QED
        BY <2>2, <3>1, <3>3, <3>5, ExtremesKept
    <2>3. CASE Fping /\ PingLost
      <3>1. t \in Target /\ TypeOK
        BY <2>3, PingStep DEF PingInv
      <3>2. CountPing(received[t], min[t], max[t], interval_histogram[t])
        BY <2>3 DEF PingLost, CountLoss
      <3>3. received[t] \in Nat /\ Extremes(received[t], min[t], max[t])
        BY <2>3, <3>1 DEF TypeOK, ExtremesAreOfInterval, Extremes
      <3>4. QED
        BY <2>3, <3>1, <3>2, <3>3, ExtremesKept
    <2>4. CASE ~PingAnswered /\ ~PingLost
      BY <2>4, StatsStep DEF statVars, ExtremesAreOfInterval
    <2>5. QED
      BY <2>1, <2>2, <2>3, <2>4
  <1>3. QED
    BY PingInvariant, <1>1, <1>2, PTL DEF Spec

-----------------------------------------------------------------------------
\* A ping takes its target, and no other, into the current round, ...
LEMMA RoundCounted ==
    ASSUME PingInv, PingAnswered \/ PingLost
    PROVE  /\ target \in Target /\ loop_count \in Nat \ {0}
           /\ loop_count' = loop_count
           /\ \A u \in Target :
                 IF u = target THEN RoundsOf(u) = loop_count - 1 /\ RoundsOf(u)' = loop_count
                 ELSE RoundsOf(u)' = RoundsOf(u)
  <1> USE PingAssumption
  <1>1. /\ pc = "ping" /\ pc' # "round" /\ target \in Target
        /\ target' = target + 1 /\ loop_count' = loop_count
    BY PingStep
  <1>2. loop_count \in Nat \ {0} /\ target \in Nat
    BY <1>1 DEF PingInv, TypeOK, ControlInv
  <1>3. QED
    BY <1>1, <1>2 DEF RoundsOf

\* ... and no other step does.
LEMMA RoundsKept ==
    ASSUME PingInv, [Next]_vars, ~PingAnswered, ~PingLost, NEW t \in Target
    PROVE  RoundsOf(t)' = RoundsOf(t)
  <1> USE PingAssumption
  <1>1. ControlInv /\ loop_count \in Nat /\ target \in 1 .. NTargets + 1
    BY DEF PingInv, TypeOK
  <1>2. CASE StartRound
    BY <1>1, <1>2 DEF StartRound, RoundsOf, ControlInv
  <1>3. CASE WakeUp
    BY <1>1, <1>3 DEF WakeUp, RoundsOf, ControlInv
  <1>4. CASE Connect \/ Sleep \/ Exit
    <2>1. pc # "round" /\ pc' # "round" /\ UNCHANGED <<target, loop_count>>
      BY <1>4 DEF Connect, Sleep, Exit
    <2>2. QED
      BY <2>1 DEF RoundsOf
  <1>5. CASE sigint_handler
    BY <1>5 DEF sigint_handler, RoundsOf
  <1>6. CASE UNCHANGED pingVars
    BY <1>6 DEF pingVars, RoundsOf
  <1>7. QED
    BY <1>2, <1>3, <1>4, <1>5, <1>6
    DEF Next, Process, Connecting, Servers, Exited, vars

\* What an answer and a loss do to the history of answers.
LEMMA AnsweredEffect ==
    ASSUME PingInv, PingAnswered \/ PingLost
    PROVE  /\ \/ PingAnswered /\ answered'[target] = answered[target] \cup {loop_count}
              \/ PingLost /\ answered'[target] = answered[target]
           /\ \A u \in Target \ {target} : answered'[u] = answered[u]
  <1>1. answered \in [Target -> SUBSET Nat] /\ target \in Target
    BY PingStep DEF PingInv, TypeOK
  <1>2. CASE PingAnswered
    <2>1. answered' = [answered EXCEPT ![target] = answered[target] \cup {loop_count}]
      BY <1>2 DEF PingAnswered, CountReply
    <2>2. QED
      BY <1>1, <1>2, <2>1
  <1>3. CASE PingLost
    BY <1>3 DEF PingLost, CountLoss
  <1>4. QED
    BY <1>2, <1>3

LEMMA AnsweredStep ==
    ASSUME PingInv, AnsweredInv, [Next]_vars
    PROVE  AnsweredInv'
  <1> SUFFICES ASSUME NEW t \in Target
               PROVE  answered'[t] \subseteq 1 .. RoundsOf(t)'
    BY DEF AnsweredInv
  <1>1. answered[t] \subseteq 1 .. RoundsOf(t)
    BY DEF AnsweredInv
  <1>2. CASE PingAnswered \/ PingLost
    <2>1. loop_count \in Nat \ {0}
      BY <1>2, RoundCounted
    <2>2. CASE t = target
      <3>1. RoundsOf(t) = loop_count - 1 /\ RoundsOf(t)' = loop_count
        BY <1>2, <2>2, RoundCounted
      <3>2. answered'[t] \subseteq answered[t] \cup {loop_count}
        BY <1>2, <2>2, AnsweredEffect
      <3>3. QED
        BY <1>1, <2>1, <3>1, <3>2
    <2>3. CASE t # target
      BY <1>1, <1>2, <2>3, RoundCounted, AnsweredEffect
    <2>4. QED
      BY <2>2, <2>3
  <1>3. CASE ~PingAnswered /\ ~PingLost
    BY <1>1, <1>3, RoundsKept, StatsStep DEF statVars
  <1>4. QED
    BY <1>2, <1>3

\* The last s of k rounds.
LastRounds(k, s) == (k - s) + 1 .. k

\* The answers of an interval, after one more round that is or is not the
\* interval's last.
LEMMA IntervalAnswers ==
    ASSUME NEW k \in Nat \ {0}, NEW s \in Nat, NEW A \in SUBSET (1 .. k - 1)
    PROVE  /\ Cardinality(A) \in Nat
           /\ Cardinality(A \cup {k}) = Cardinality(A) + 1
           /\ Cardinality(A \cap LastRounds(k, s + 1)) =
                 Cardinality(A \cap LastRounds(k - 1, s))
           /\ Cardinality((A \cup {k}) \cap LastRounds(k, s + 1)) =
                 Cardinality(A \cap LastRounds(k - 1, s)) + 1
  <1> DEFINE before == A \cap LastRounds(k - 1, s)
             now == LastRounds(k, s + 1)
  <1>1. k \notin A /\ IsFiniteSet(A)
    <2>1. IsFiniteSet(1 .. k - 1)
      BY FS_Interval
    <2>2. IsFiniteSet(A)
      BY <2>1, FS_Subset, Zenon
    <2>3. QED
      BY <2>2
  <1>2. IsFiniteSet(before) /\ k \notin before
    BY <1>1, FS_Subset
  <1>3. A \cap now = before /\ (A \cup {k}) \cap now = before \cup {k}
    BY DEF LastRounds
  <1> HIDE DEF before, now
  <1>4. /\ Cardinality(A) \in Nat /\ Cardinality(before) \in Nat
        /\ Cardinality(A \cup {k}) = Cardinality(A) + 1
        /\ Cardinality(before \cup {k}) = Cardinality(before) + 1
    BY <1>1, <1>2, FS_CardinalityType, FS_AddElement
  <1>5. QED
    BY <1>3, <1>4 DEF before, now

LEMMA NoAnswersYet ==
    ASSUME NEW k \in Nat, NEW A
    PROVE  Cardinality(A \cap LastRounds(k, 0)) = 0
  <1>1. A \cap LastRounds(k, 0) = {}
    BY DEF LastRounds
  <1>2. QED
    BY <1>1, FS_EmptySet

\* The counters of one target agree with the history of its answers.
Accounted(t) ==
    /\ received[t] = Cardinality(answered[t] \cap ThisInterval(t))
    /\ ~Fping => /\ interval_histogram[t] = received[t]
                 /\ histogram[t] = Cardinality(answered[t])
    /\ summary[t] # NULL /\ Format \in {"ping", "graphite"} =>
          summary[t].values = summary[t].received

\* A ping that is accounted for with agreeing numbers leaves them agreeing.
LEMMA SummaryAgrees ==
    ASSUME NEW snt, NEW rcv \in Nat, NEW lo, NEW hi, NEW values,
           Format \in {"ping", "graphite"}, values = rcv
    PROVE  print_interval(snt, rcv, lo, hi, values).values =
           print_interval(snt, rcv, lo, hi, values).received
  BY DEF print_interval

LEMMA AccountedStep ==
    ASSUME \A us \in Rtt : us <= HistMax,
           PingInv, AnsweredInv, AnswersAccountedFor, PingAnswered \/ PingLost,
           NEW t \in Target, t = target
    PROVE  Accounted(t)'
  <1> DEFINE A == answered[t]
             k == loop_count
             s == sent[t]
             n == received[t]
  <1>1. /\ t \in Target /\ TypeOK /\ k \in Nat \ {0} /\ s \in Nat /\ n \in Nat
        /\ RoundsOf(t) = k - 1 /\ RoundsOf(t)' = k /\ A \subseteq 1 .. k - 1
    <2>1. /\ t \in Target /\ k \in Nat \ {0} /\ RoundsOf(t) = k - 1 /\ RoundsOf(t)' = k
      BY RoundCounted
    <2>2. TypeOK /\ s \in Nat /\ n \in Nat
      BY <2>1 DEF PingInv, TypeOK
    <2>3. A \subseteq 1 .. k - 1
      BY <2>1 DEF AnsweredInv
    <2>4. QED
      BY <2>1, <2>2, <2>3
  <1>2. /\ n = Cardinality(A \cap ThisInterval(t))
        /\ ~Fping => interval_histogram[t] = n /\ histogram[t] = Cardinality(A)
        /\ summary[t] # NULL /\ Format \in {"ping", "graphite"} =>
              summary[t].values = summary[t].received
    BY <1>1 DEF AnswersAccountedFor
  <1>3. ThisInterval(t) = LastRounds(k - 1, s)
    BY <1>1 DEF ThisInterval, LastRounds
  <1>4. /\ Cardinality(A) \in Nat /\ Cardinality(A \cup {k}) = Cardinality(A) + 1
        /\ Cardinality(A \cap LastRounds(k, s + 1)) = n
        /\ Cardinality((A \cup {k}) \cap LastRounds(k, s + 1)) = n + 1
    <2> HIDE DEF A, k, s, n
    <2>1. n = Cardinality(A \cap LastRounds(k - 1, s))
      BY <1>2, <1>3
    <2>2. A \in SUBSET (1 .. k - 1)
      BY <1>1
    <2>3. k \in Nat \ {0} /\ s \in Nat
      BY <1>1
    <2>4. /\ Cardinality(A) \in Nat
          /\ Cardinality(A \cup {k}) = Cardinality(A) + 1
      BY <2>2, <2>3, IntervalAnswers
    <2>5. Cardinality(A \cap LastRounds(k, s + 1)) =
             Cardinality(A \cap LastRounds(k - 1, s))
      BY <2>2, <2>3, IntervalAnswers
    <2>6. Cardinality((A \cup {k}) \cap LastRounds(k, s + 1)) =
             Cardinality(A \cap LastRounds(k - 1, s)) + 1
      BY <2>2, <2>3, IntervalAnswers
    <2>7. QED
      BY <2>1, <2>4, <2>5, <2>6
  <1>5. ThisInterval(t)' = LastRounds(k, sent'[t])
    BY <1>1, PingStep DEF ThisInterval, LastRounds
  <1>6. PICK hit \in {0, 1} :
           /\ answered'[t] = IF hit = 1 THEN A \cup {k} ELSE A
           /\ \E lo, hi, values : /\ CountPing(n + hit, lo, hi, values)
                                  /\ ~Fping => values = n + hit
           /\ ~Fping => histogram'[t] = histogram[t] + hit
    <2>1. CASE PingAnswered
      <3>1. PICK us \in Rtt : CountReply(us)
        BY <2>1 DEF PingAnswered
      <3>2. ~Fping => Recorded(us) = 1
        BY DEF Recorded
      <3>3. \E lo, hi : CountPing(n + 1, lo, hi, interval_histogram[t] + Recorded(us))
        BY <3>1 DEF CountReply
      <3>4. answered'[t] = A \cup {k}
        BY <1>1, <3>1 DEF CountReply, TypeOK
      <3>5. ~Fping => histogram'[t] = histogram[t] + 1
        BY <1>1, <3>1, <3>2 DEF CountReply, TypeOK
      <3>6. QED
        BY <1>2, <3>2, <3>3, <3>4, <3>5
    <2>2. CASE PingLost
      <3>1. /\ CountPing(n, min[t], max[t], interval_histogram[t])
            /\ answered' = answered /\ histogram' = histogram
        BY <2>2 DEF PingLost, CountLoss
      <3>2. n + 0 = n /\ histogram[t] + 0 = histogram[t]
        <4>1. histogram \in [Target -> Nat]
          BY <1>1 DEF TypeOK
        <4>2. histogram[t] \in Nat
          BY <1>1, <4>1
        <4>3. QED
          BY <1>1, <4>2
      <3>3. QED
        BY <1>2, <3>1, <3>2
    <2>3. QED
      BY <2>1, <2>2
  <1>7. PICK lo, hi, values : /\ CountPing(n + hit, lo, hi, values)
                              /\ ~Fping => values = n + hit
    BY <1>6
  <1> DEFINE shown == print_interval(s + 1, n + hit, lo, hi, values)
  <1>8. /\ IF IntervalEnds THEN received'[t] = 0 /\ sent'[t] = 0
           ELSE received'[t] = n + hit /\ sent'[t] = s + 1
        /\ ~Fping => IF IntervalEnds THEN interval_histogram'[t] = 0
                     ELSE interval_histogram'[t] = values
        /\ summary'[t] = IF IntervalEnds THEN shown ELSE summary[t]
    BY <1>1, <1>7, CountPingEffect
  <1>9. Format \in {"ping", "graphite"} => ~Fping /\ shown.values = shown.received
    BY <1>1, <1>7, SummaryAgrees DEF Fping
  <1>10. n + hit \in Nat /\ n + 0 = n
    BY <1>1
  <1> HIDE DEF shown, A, k, s, n
  <1>11. ~Fping => histogram'[t] = Cardinality(answered'[t])
    BY <1>1, <1>2, <1>4, <1>6
  <1>12. received'[t] = Cardinality(answered'[t] \cap ThisInterval(t)')
    <2>1. CASE IntervalEnds
      <3>1. ThisInterval(t)' = LastRounds(k, 0) /\ received'[t] = 0
        BY <1>5, <1>8, <2>1
      <3>2. QED
        BY <1>1, <3>1, NoAnswersYet
    <2>2. CASE ~IntervalEnds
      <3>1. ThisInterval(t)' = LastRounds(k, s + 1)
        BY <1>5, <1>8, <2>2
      <3>2. QED
        BY <1>4, <1>6, <1>8, <1>10, <2>2, <3>1
    <2>3. QED
      BY <2>1, <2>2
  <1>13. ~Fping => interval_histogram'[t] = received'[t]
    BY <1>7, <1>8
  <1>14. summary'[t] # NULL /\ Format \in {"ping", "graphite"} =>
            summary'[t].values = summary'[t].received
    BY <1>2, <1>8, <1>9
  <1>15. QED
    BY <1>11, <1>12, <1>13, <1>14 DEF Accounted

\* If no measured time is beyond the range of the histograms, whose largest
\* value is the timeout of the calls (util.c:313), every interval summary
\* counts, and takes its percentiles from, exactly the answers of its
\* interval, and no answer is missing in the summary at exit.
THEOREM AnswersAreAccountedFor ==
    ASSUME \A us \in Rtt : us <= HistMax
    PROVE  Spec => []AnswersAccountedFor
  <1>1. Init => AnsweredInv /\ AnswersAccountedFor
    <2> SUFFICES ASSUME Init, NEW t \in Target
                 PROVE  answered[t] \subseteq 1 .. RoundsOf(t) /\ Accounted(t)
      BY DEF AnsweredInv, AnswersAccountedFor, Accounted
    <2>1. /\ answered[t] = {} /\ received[t] = 0 /\ interval_histogram[t] = 0
          /\ histogram[t] = 0 /\ summary[t] = NULL
      BY DEF Init
    <2>2. Cardinality({}) = 0 /\ {} \cap ThisInterval(t) = {}
      BY FS_EmptySet
    <2>3. QED
      BY <2>1, <2>2 DEF Accounted
  <1>2. PingInv /\ AnsweredInv /\ AnswersAccountedFor /\ [Next]_vars
           => AnsweredInv' /\ AnswersAccountedFor'
    <2> SUFFICES ASSUME PingInv, AnsweredInv, AnswersAccountedFor, [Next]_vars
                 PROVE  AnswersAccountedFor'
      BY AnsweredStep
    <2> SUFFICES ASSUME NEW t \in Target PROVE Accounted(t)'
      BY DEF AnswersAccountedFor, Accounted
    <2>1. Accounted(t)
      BY DEF AnswersAccountedFor, Accounted
    <2>2. CASE ~PingAnswered /\ ~PingLost
      <3>1. UNCHANGED statVars /\ RoundsOf(t)' = RoundsOf(t)
        BY <2>2, StatsStep, RoundsKept
      <3>2. ThisInterval(t)' = ThisInterval(t)
        BY <3>1 DEF ThisInterval, statVars
      <3>3. QED
        BY <2>1, <3>1, <3>2 DEF Accounted, statVars
    <2>3. CASE (PingAnswered \/ PingLost) /\ t = target
      BY <2>3, AccountedStep
    <2>4. CASE (PingAnswered \/ PingLost) /\ t # target
      <3>1. target \in Target /\ TypeOK
        BY <2>4, PingStep DEF PingInv
      <3>2. \E rcv, lo, hi, values : CountPing(rcv, lo, hi, values)
        BY <2>4 DEF PingAnswered, PingLost, CountReply, CountLoss
      <3>3. /\ received'[t] = received[t] /\ sent'[t] = sent[t]
            /\ interval_histogram'[t] = interval_histogram[t]
            /\ summary'[t] = summary[t]
        BY <2>4, <3>1, <3>2, CountPingEffect
      <3>4. answered'[t] = answered[t]
        BY <2>4, AnsweredEffect
      <3>5. histogram'[t] = histogram[t]
        BY <2>4, <3>1 DEF PingAnswered, PingLost, CountReply, CountLoss, TypeOK
      <3>6. RoundsOf(t)' = RoundsOf(t)
        BY <2>4, RoundCounted
      <3>7. ThisInterval(t)' = ThisInterval(t)
        BY <3>3, <3>6 DEF ThisInterval
      <3>8. QED
        BY <2>1, <3>3, <3>4, <3>5, <3>7 DEF Accounted
    <2>5. QED
      BY <2>2, <2>3, <2>4
  <1>3. QED
    BY PingInvariant, <1>1, <1>2, PTL DEF Spec

-----------------------------------------------------------------------------
\* An answer writes its time to the place of its ping.
LEMMA ResultsStep ==
    ASSUME NTargets = 1, Fping, PingInv, TotalInv, ResultsInv, [Next]_vars
    PROVE  ResultsInv'
  <1>1. /\ answered[1] \subseteq 1 .. total_sent
        /\ \A i \in 0 .. Count - 1 : results[1][i] # 0 <=> i + 1 \in answered[1]
        /\ total_sent \in Nat /\ Count \in Nat \ {0} /\ 1 \in Target
    BY PingAssumption DEF ResultsInv, PingInv, TypeOK
  <1>2. CASE PingAnswered
    <2>1. /\ pc = "ping" /\ target = 1 /\ total_sent' = total_sent + 1
          /\ loop_count \in Nat \ {0}
      <3>1. pc = "ping" /\ target \in Target /\ total_sent' = total_sent + 1
        BY <1>2, PingStep
      <3>2. QED
        BY <1>2, <3>1, RoundCounted, PingAssumption
    <2>2. loop_count = total_sent + 1
      BY <2>1 DEF TotalInv
    <2>3. total_sent + 1 <= Count
      BY <1>1, <2>1, PingsAreBounded
    <2>4. PICK us \in Rtt : CountReply(us)
      BY <1>2 DEF PingAnswered
    <2>5. answered'[1] = answered[1] \cup {total_sent + 1}
      BY <1>1, <2>1, <2>2, <2>4 DEF CountReply, PingInv, TypeOK
    <2>6. /\ results' = [results EXCEPT ![1] = [results[1] EXCEPT ![total_sent] = us]]
          /\ us # 0
      BY <1>1, <2>1, <2>3, <2>4, PingAssumption DEF CountReply, ResultIndex
    <2>7. /\ results \in [Target -> [0 .. Count - 1 -> Rtt \cup {0}]]
          /\ results[1] \in [0 .. Count - 1 -> Rtt \cup {0}]
      BY <1>1 DEF PingInv, TypeOK
    <2>8. results'[1] = [results[1] EXCEPT ![total_sent] = us]
      BY <1>1, <2>6, <2>7
    <2>9. ASSUME NEW i \in 0 .. Count - 1
          PROVE  results'[1][i] # 0 <=> i + 1 \in answered'[1]
      <3>1. CASE i = total_sent
        BY <2>5, <2>6, <2>7, <2>8, <3>1
      <3>2. CASE i # total_sent
        <4>1. i + 1 # total_sent + 1
          BY <1>1, <3>2
        <4>2. results'[1][i] = results[1][i]
          BY <2>7, <2>8, <3>2
        <4>3. QED
          BY <1>1, <2>5, <4>1, <4>2
      <3>3. QED
        BY <3>1, <3>2
    <2>10. answered'[1] \subseteq 1 .. total_sent'
      BY <1>1, <2>1, <2>5
    <2>11. QED
      BY <2>9, <2>10 DEF ResultsInv
  <1>3. CASE PingLost
    <2>1. total_sent' = total_sent + 1 /\ UNCHANGED <<answered, results>>
      BY <1>3, PingStep DEF PingLost, CountLoss
    <2>2. QED
      BY <1>1, <2>1 DEF ResultsInv
  <1>4. CASE ~PingAnswered /\ ~PingLost
    BY <1>4, StatsStep DEF ResultsInv, statVars
  <1>5. QED
    BY <1>2, <1>3, <1>4

\* With a single target the -C line at exit has a time for each ping that was
\* answered, in order, and a dash for the others.  (With more targets the
\* index runs over the pings of all of them.)
THEOREM SummaryIsRight ==
    ASSUME NTargets = 1
    PROVE  Spec => []SummaryShowsPings
  <1>1. CASE ~Fping
    <2>1. SummaryShowsPings
      BY <1>1 DEF SummaryShowsPings
    <2>2. QED
      BY <2>1, PTL
  <1>2. CASE Fping
    <2>1. Init => ResultsInv
      <3> SUFFICES ASSUME Init PROVE ResultsInv
        OBVIOUS
      <3>1. answered[1] = {} /\ results[1] = [i \in 0 .. Count - 1 |-> 0]
        BY PingAssumption DEF Init
      <3>2. QED
        BY <3>1 DEF ResultsInv
    <2>2. PingInv /\ TotalInv /\ ResultsInv /\ [Next]_vars => ResultsInv'
      BY <1>2, ResultsStep
    <2>3. PingInv /\ TotalInv /\ ResultsInv => SummaryShowsPings
      <3> SUFFICES ASSUME PingInv, TotalInv, ResultsInv, pc = "done", NEW t \in Target
                   PROVE  SummaryLine(t) =
                             {[i \in 0 .. loop_count - 1 |-> i + 1 \in answered[t]]}
        BY DEF SummaryShowsPings
      <3>1. t = 1 /\ Count \in Nat \ {0} /\ loop_count \in Nat
            /\ loop_count <= Count /\ total_sent = loop_count
        <4>1. /\ t = 1 /\ Count \in Nat \ {0} /\ loop_count \in Nat /\ target = 2
              /\ loop_count <= Count
          BY <1>2, PingAssumption DEF PingInv, TypeOK, ControlInv
        <4>2. total_sent = loop_count
          BY <4>1 DEF TotalInv
        <4>3. QED
          BY <4>1, <4>2
      <3> DEFINE places == 0 .. loop_count - 1
                 shown == [i \in places |-> i + 1 \in answered[t]]
      <3>2. \A i \in places : /\ i < Count
                              /\ (results[t][i] # 0) = (i + 1 \in answered[t])
        BY <3>1 DEF ResultsInv
      <3>3. SummaryLine(t) = {line \in [places -> BOOLEAN] :
                                 \A i \in places : line[i] = (i + 1 \in answered[t])}
        BY <3>1, <3>2 DEF SummaryLine
      <3> HIDE DEF places
      <3>4. shown \in [places -> BOOLEAN]
        OBVIOUS
      <3>5. \A line \in [places -> BOOLEAN] :
               (\A i \in places : line[i] = (i + 1 \in answered[t])) <=> line = shown
        OBVIOUS
      <3>6. QED
        BY <3>3, <3>4, <3>5 DEF places
    <2>4. QED
      BY SocketInvariant, <2>1, <2>2, <2>3, PTL DEF Spec
  <1>3. QED
    BY <1>1, <1>2

-----------------------------------------------------------------------------
\* One target, after the outage.
Recovered(t) ==
    /\ ~stable => lost_stable[t] = 0
    /\ Reachable(t) => /\ lost_stable[t] <= 1
                       /\ Vulnerable(t) => lost_stable[t] = 0

\* Nothing that decides whether a target is reachable or vulnerable changes.
LEMMA RecoveredKept ==
    ASSUME NEW t \in Target, Recovered(t), stable' = stable,
           lost_stable'[t] = lost_stable[t],
           Reachable(t)' => Reachable(t),
           Vulnerable(t)' => Vulnerable(t)
    PROVE  Recovered(t)'
  BY DEF Recovered

\* As long as something may still fail, no loss counts.
LEMMA NotYetStable ==
    ASSUME NEW t \in Target, Recovered(t), ~stable, lost_stable'[t] = lost_stable[t]
    PROVE  Recovered(t)'
  BY DEF Recovered

\* Looking for a client leaves a reachable target reachable, unless the call
\* gives up at once for want of a socket.
LEMMA ConnectRecovers ==
    ASSUME EnoughSockets, PingInv, TotalInv, SocketInv, Connect,
           NEW t \in Target, Recovered(t), stable
    PROVE  Recovered(t)'
  <1>1. /\ target \in Target /\ pc = "target" /\ pc' = "ping" /\ call = NULL
        /\ UNCHANGED <<target, lost_stable, registry, stable, client>>
        /\ sin_port \in [Target -> Port \cup {0, PMAPPORT}]
        /\ PMAPPORT \notin Port /\ PMAPPORT # 0
    <2>1. target \in Target /\ pc = "target"
      BY PingAssumption DEF Connect, PingInv, ControlInv, TypeOK
    <2>2. call = NULL
      BY <2>1 DEF PingInv, ControlInv
    <2>3. pc' = "ping" /\ UNCHANGED <<target, lost_stable>>
      BY DEF Connect, statVars
    <2>4. UNCHANGED <<registry, stable, client>>
      BY DEF Connect, rpcVars, create_rpc_client, PortmapConnect, UseKnownPort
    <2>5. sin_port \in [Target -> Port \cup {0, PMAPPORT}]
      BY DEF PingInv, RpcInv, RpcTypeOK
    <2>6. PMAPPORT \notin Port /\ PMAPPORT # 0
      BY RpcAssumption DEF PMAPPORT
    <2>7. QED
      BY <2>1, <2>2, <2>3, <2>4, <2>5, <2>6
  <1>2. CASE client[target] # NULL
    <2>1. UNCHANGED rpcVars
      BY <1>2 DEF Connect
    <2>2. Reachable(t)' => Reachable(t)
      BY <2>1 DEF Reachable, rpcVars
    <2>3. Vulnerable(t)' => Vulnerable(t)
      BY <1>1, <1>2, <2>1 DEF Vulnerable, rpcVars
    <2>4. QED
      BY <1>1, <2>2, <2>3, RecoveredKept
  <1>3. CASE client[target] = NULL /\ LookupNeeded(target) /\ PortmapConnect(target, Prog)
    <2>1. /\ sin_port' = [sin_port EXCEPT ![target] = PMAPPORT]
          /\ call' = NULL \/ (call' # NULL /\ call'.target = target)
      BY <1>1, <1>3, RpcAssumption, PingAssumption DEF PortmapConnect, Call
    <2>2. Reachable(t)' => Reachable(t) /\ (t = target => call' # NULL)
      BY <1>1, <1>3, <2>1 DEF Reachable, LookupNeeded
    <2>3. Reachable(t)' => (Vulnerable(t)' => Vulnerable(t))
      BY <1>1, <2>1, <2>2 DEF Vulnerable
    <2>4. QED
      BY <1>1, <2>2, <2>3 DEF Recovered
  <1>4. CASE client[target] = NULL /\ UseKnownPort(target, Prog)
    <2>1. /\ UNCHANGED sin_port /\ call' # NULL /\ call'.step = "connect"
      BY <1>1, <1>4, RpcAssumption, PingAssumption DEF UseKnownPort, Call
    <2>2. Reachable(t)' => Reachable(t)
      BY <1>1, <2>1 DEF Reachable
    <2>3. Vulnerable(t)' => Vulnerable(t)
      BY <1>1, <2>1 DEF Vulnerable
    <2>4. QED
      BY <1>1, <2>2, <2>3, RecoveredKept
  <1>5. QED
    BY <1>2, <1>3, <1>4 DEF Connect, create_rpc_client

\* The portmapper's answer makes its target reachable, and a reachable target
\* gets its client.
LEMMA ConnectingRecovers ==
    ASSUME EnoughSockets, PingInv, TotalInv, SocketInv, Connecting,
           NEW t \in Target, Recovered(t), stable
    PROVE  Recovered(t)'
  <1>1. /\ call # NULL /\ pc = "ping" /\ call \in Call /\ call.target = target
        /\ call.prog = Prog /\ target \in Target /\ client[target] = NULL
        /\ UNCHANGED <<pc, target, lost_stable, registry, stable>>
        /\ sin_port \in [Target -> Port \cup {0, PMAPPORT}]
        /\ client \in [Target -> Client \cup {NULL}]
        /\ 0 \notin Port
        /\ call.step = "getport" => sin_port[target] = PMAPPORT
        /\ call.step = "connect" => sin_port[target] # 0
    <2>1. call # NULL /\ UNCHANGED <<pc, target, lost_stable, registry, stable>>
      BY DEF Connecting, RpcStep, get_rpc_port, ConnectProgram, pingVars
    <2>2. pc = "ping" /\ call.target = target /\ call.prog = Prog
      BY <2>1 DEF PingInv, ControlInv
    <2>3. target \in Target
      BY <2>2, PingAssumption DEF PingInv, ControlInv, TypeOK
    <2>4. /\ call \in Call /\ client[call.target] = NULL
          /\ call.step = "getport" => sin_port[call.target] = PMAPPORT
          /\ call.step = "connect" => sin_port[call.target] # 0
          /\ sin_port \in [Target -> Port \cup {0, PMAPPORT}]
          /\ client \in [Target -> Client \cup {NULL}]
      BY <2>1 DEF PingInv, RpcInv, RpcTypeOK
    <2>5. 0 \notin Port
      BY RpcAssumption
    <2>6. QED
      BY <2>1, <2>2, <2>3, <2>4, <2>5
  <1>2. CASE get_rpc_port
    <2>1. /\ sin_port' = [sin_port EXCEPT ![target] = registry[target][Prog]]
          /\ call.step = "getport" /\ UNCHANGED client
          /\ call' = IF registry[target][Prog] = 0 THEN NULL
                     ELSE [call EXCEPT !.step = "connect"]
      BY <1>1, <1>2 DEF get_rpc_port, PortmapAnswers
    <2>2. Reachable(t)' => Reachable(t)
      BY <1>1, <2>1 DEF Reachable, Call
    <2>3. Reachable(t)' => (Vulnerable(t)' => Vulnerable(t))
      <3>1. CASE t = target /\ Reachable(t)'
        <4>1. registry[target][Prog] # 0
          BY <1>1, <3>1 DEF Reachable
        <4>2. call' = [call EXCEPT !.step = "connect"] /\ call' \in Call
          BY <1>1, <2>1, <4>1 DEF Call
        <4>3. call' # NULL
          BY <4>2, RpcAssumption
        <4>4. QED
          BY <1>1, <2>1, <3>1, <4>3 DEF Vulnerable
      <3>2. CASE t # target
        BY <1>1, <2>1, <3>2 DEF Vulnerable
      <3>3. QED
        BY <3>1, <3>2
    <2>4. QED
      BY <1>1, <2>2, <2>3 DEF Recovered
  <1>3. CASE ConnectProgram
    <2>1. call' = NULL /\ call.step = "connect" /\ UNCHANGED sin_port
      BY <1>3 DEF ConnectProgram
    <2>2. Reachable(t)' => Reachable(t) /\ sin_port[t] \in {0, registry[t][Prog]}
      BY <1>1, <2>1 DEF Reachable
    <2>3. CASE t # target
      <3>1. client'[t] = client[t]
        BY <1>1, <1>3, <2>3 DEF ConnectProgram
      <3>2. Vulnerable(t)' => Vulnerable(t)
        BY <1>1, <2>3, <3>1 DEF Vulnerable
      <3>3. QED
        BY <1>1, <2>2, <3>2, RecoveredKept
    <2>4. CASE t = target /\ Reachable(t)'
      <3>1. sin_port[t] = registry[t][Prog] /\ Prog \in Program
        BY <1>1, <2>1, <2>2, <2>4, PingAssumption
      <3>2. CanConnect(t, sin_port[t]) /\ ~MayRefuse(t, sin_port[t])
        BY <3>1 DEF CanConnect, MayRefuse
      <3>3. ~(Fds \subseteq open)
        BY <1>1, SocketsSuffice
      <3>4. PICK fd \in Fds : client' = [client EXCEPT ![t] = NewClient(t, Prog, fd)]
        BY <1>1, <1>3, <2>4, <3>2, <3>3 DEF ConnectProgram, OpenSocket
      <3>5. client'[t] = NewClient(t, Prog, fd)
        BY <1>1, <3>4
      <3>6. client'[t] # NULL /\ client'[t].live
        <4>1. sin_port[t] \in Port
          BY <2>2, <2>4, <3>1 DEF Reachable
        <4>2. NewClient(t, Prog, fd) \in Client /\ NewClient(t, Prog, fd).live
          BY <3>1, <4>1 DEF NewClient, Client
        <4>3. QED
          BY <3>5, <4>2, RpcAssumption
      <3>7. ~Vulnerable(t)'
        BY <3>6 DEF Vulnerable
      <3>8. QED
        BY <1>1, <2>2, <2>4, <3>7 DEF Recovered
    <2>5. CASE ~Reachable(t)'
      BY <1>1, <2>5 DEF Recovered
    <2>6. QED
      BY <2>3, <2>4, <2>5
  <1>4. QED
    BY <1>2, <1>3 DEF Connecting, RpcStep

\* Only a vulnerable target loses a ping, and it is not vulnerable then.
LEMMA PingRecovers ==
    ASSUME PingInv, SocketInv, PingAnswered \/ PingLost,
           NEW t \in Target, Recovered(t), stable
    PROVE  Recovered(t)'
  <1>1. /\ pc = "ping" /\ call = NULL /\ call' = NULL /\ target \in Target
        /\ pc' # "ping"
        /\ UNCHANGED <<sin_port, registry, stable>>
        /\ client \in [Target -> Client \cup {NULL}]
        /\ lost_stable \in [Target -> Nat]
    BY PingStep, PingAssumption
    DEF PingAnswered, PingLost, Disconnect, PingInv, TypeOK, RpcInv, RpcTypeOK
  <1>2. Reachable(t)' => Reachable(t)
    BY <1>1 DEF Reachable
  <1>3. client'[t] \in {client[t], NULL}
    BY <1>1 DEF PingAnswered, PingLost, Disconnect, destroy_rpc_client
  <1>4. Vulnerable(t)' => Vulnerable(t)
    BY <1>1, <1>3 DEF Vulnerable
  <1>5. CASE lost_stable'[t] = lost_stable[t]
    BY <1>1, <1>2, <1>4, <1>5, RecoveredKept
  <1>6. CASE lost_stable'[t] # lost_stable[t]
    <2>1. PingLost /\ t = target /\ lost_stable'[t] = lost_stable[t] + 1
      BY <1>1, <1>6 DEF PingAnswered, PingLost, CountReply, CountLoss
    <2>2. CASE Reachable(t)
      <3>1. ~MayReply(t) /\ client'[t] = NULL
        BY <1>1, <2>1 DEF PingLost, MayLose, Disconnect, destroy_rpc_client
      <3>2. sin_port[t] \in {0, registry[t][Prog]} /\ registry[t][Prog] \in Port
        BY <1>1, <2>2 DEF Reachable
      <3>3. Vulnerable(t)
        <4>1. CASE client[t] = NULL
          BY <1>1, <2>1, <4>1 DEF Vulnerable
        <4>2. CASE client[t] # NULL
          <5>1. client[t].prog = Prog /\ client[t].port = sin_port[t]
            BY <4>2 DEF SocketInv, PingInv, RpcInv, ClientUsesSinPort
          <5>2. client[t].port # 0
            <6>1. client[t].port \in Port \cup {PMAPPORT}
              BY <1>1, <4>2 DEF Client
            <6>2. QED
              BY <6>1, RpcAssumption DEF PMAPPORT
          <5>3. ~client[t].live
            BY <3>1, <3>2, <4>2, <5>1, <5>2 DEF MayReply
          <5>4. QED
            BY <4>2, <5>3 DEF Vulnerable
        <4>3. QED
          BY <4>1, <4>2
      <3>4. lost_stable[t] = 0
        BY <2>2, <3>3 DEF Recovered
      <3>5. ~Vulnerable(t)' /\ lost_stable'[t] = 1
        BY <1>1, <2>1, <3>1, <3>4 DEF Vulnerable
      <3>6. QED
        BY <1>1, <3>5 DEF Recovered
    <2>3. CASE ~Reachable(t)
      BY <1>1, <1>2, <2>3 DEF Recovered
    <2>4. QED
      BY <2>2, <2>3
  <1>7. QED
    BY <1>5, <1>6

\* Every step keeps a target recovered.
LEMMA RecoveredStep ==
    ASSUME EnoughSockets, PingInv, TotalInv, SocketInv, [Next]_vars,
           NEW t \in Target, Recovered(t)
    PROVE  Recovered(t)'
  <1>1. CASE stable /\ Connect
    BY <1>1, ConnectRecovers
  <1>2. CASE stable /\ Connecting
    BY <1>2, ConnectingRecovers
  <1>3. CASE stable /\ (PingAnswered \/ PingLost)
    BY <1>3, PingRecovers
  <1>4. CASE /\ stable
             /\ StartRound \/ Sleep \/ WakeUp \/ Exit \/ sigint_handler \/ UNCHANGED vars
    <2>1. /\ UNCHANGED <<rpcVars, lost_stable>>
          /\ pc' = "ping" => pc = "ping" /\ UNCHANGED target
      BY <1>4 DEF StartRound, Sleep, WakeUp, Exit, sigint_handler, vars, pingVars, statVars
    <2>2. Reachable(t)' => Reachable(t)
      BY <2>1 DEF Reachable, rpcVars
    <2>3. Vulnerable(t)' => Vulnerable(t)
      BY <2>1 DEF Vulnerable, rpcVars
    <2>4. stable' = stable /\ lost_stable'[t] = lost_stable[t]
      BY <2>1 DEF rpcVars
    <2>5. QED
      BY <2>2, <2>3, <2>4, RecoveredKept
  <1>5. CASE ~stable
    <2>1. lost_stable'[t] = lost_stable[t]
      <3>1. CASE PingAnswered \/ PingLost
        BY <1>5, <3>1 DEF PingAnswered, PingLost, CountReply, CountLoss
      <3>2. CASE ~PingAnswered /\ ~PingLost
        BY <3>2, StatsStep DEF statVars
      <3>3. QED
        BY <3>1, <3>2
    <2>2. QED
      BY <1>5, <2>1, NotYetStable
  <1>6. stable => ~Servers
    BY DEF Servers, Environment, Rebind, Stabilise
  <1>7. QED
    BY <1>1, <1>2, <1>3, <1>4, <1>5, <1>6 DEF Next, Process, Exited

\* A process with enough sockets recovers from every outage at the cost of
\* one ping per target: the one that finds the old connection dead, or that
\* has none because connecting failed before the outage ended.
THEOREM Recovers ==
    ASSUME EnoughSockets
    PROVE  Spec => []RecoversAfterOutage
  <1>1. Init => RecoverInv
    BY DEF Init, RecoverInv
  <1>2. PingInv /\ TotalInv /\ SocketInv /\ RecoverInv /\ [Next]_vars => RecoverInv'
    <2> SUFFICES ASSUME PingInv, TotalInv, SocketInv, RecoverInv, [Next]_vars,
                        NEW t \in Target
                 PROVE  Recovered(t)'
      BY DEF RecoverInv, Recovered
    <2>1. Recovered(t)
      BY DEF RecoverInv, Recovered
    <2>2. QED
      BY <2>1, RecoveredStep
  <1>3. RecoverInv => RecoversAfterOutage
    BY DEF RecoverInv, RecoversAfterOutage, Reachable
  <1>4. QED
    BY SocketInvariant, <1>1, <1>2, <1>3, PTL DEF Spec

=============================================================================
