------------------------- MODULE PingOptionsProofs --------------------------
(***************************************************************************)
(* Proofs about nfsping's command line, for command lines of any length    *)
(* with any arguments.                                                     *)
(***************************************************************************)
EXTENDS PingOptions, TLAPS

\* The letters and programs behind the options, spelled out.
LEMMA Names ==
    /\ DOMAIN ProtocolOption = {"a", "K", "L", "n", "s", "u"}
    /\ DOMAIN FormatOption = {"D", "E", "G"}
    /\ \A o \in DOMAIN ProtocolOption :
          ProtocolOption[o] \in Prognum /\ ProtocolOption[o] # PMAPPROG
  <1>1. /\ DOMAIN ProtocolOption = {"a", "K", "L", "n", "s", "u"}
        /\ DOMAIN FormatOption = {"D", "E", "G"}
    BY DEF ProtocolOption, FormatOption
  <1>2. \A o \in DOMAIN ProtocolOption : ProtocolOption[o] # PMAPPROG
    BY DEF ProtocolOption, PMAPPROG, NFS_ACL_PROGRAM, KLM_PROG, NLM_PROG, MOUNTPROG,
           SM_PROG, RQUOTAPROG
  <1>3. QED
    BY <1>1, <1>2 DEF Prognum

\* An option that leaves the mode alone: what it may do.
Other ==
    /\ pc = "getopt"
    /\ \E o \in Letter \ {"c", "C", "D", "E", "G", "l"} : asked' = asked \cup {o}
    /\ UNCHANGED <<count, loop, format>>
    /\ prognum' = PMAPPROG => port' # 0 \/ "P" \in asked'
    /\ \/ pc' = pc /\ refusal' = refusal
       \/ pc' = "refused" /\ refusal' # "mode"

\* Most options are of that kind.
LEMMA OtherOptions ==
    ASSUME OptionsInv,
           \/ \E o \in DOMAIN ProtocolOption : Protocol(o)
           \/ Portmap \/ UsePortmapper
           \/ \E n \in PortNumber : SpecifyPort(n)
           \/ DisplayIps \/ ReverseDns \/ Multiple
           \/ \E n \in Number : Frequency(n) \/ SummaryInterval(n) \/ WaitTime(n)
           \/ \E n \in Version : NfsVersion(n)
           \/ Maintain
    PROVE  Other
  <1> USE OptionsAssumption
  <1>1. pc = "getopt" => (prognum = PMAPPROG => port # 0 \/ "P" \in asked)
    BY DEF OptionsInv, ModeInv
  <1>2. ASSUME NEW o \in DOMAIN ProtocolOption, Protocol(o) PROVE Other
    <2>1. o \in Letter \ {"c", "C", "D", "E", "G", "l"}
      BY Names DEF Letter
    <2>2. ProtocolOption[o] # PMAPPROG
      BY Names
    <2>3. QED
      BY <1>1, <1>2, <2>1, <2>2 DEF Protocol, Read, Refuse, Keep, options, Other
  <1>3. CASE Portmap
    BY <1>1, <1>3 DEF Portmap, Read, Refuse, Keep, options, Other, Letter, PMAPPORT
  <1>4. CASE UsePortmapper
    BY <1>1, <1>4 DEF UsePortmapper, Read, Refuse, Keep, options, Other, Letter
  <1>5. ASSUME NEW n \in PortNumber, SpecifyPort(n) PROVE Other
    BY <1>1, <1>5 DEF SpecifyPort, Read, Refuse, Keep, options, Other, Letter
  <1>6. CASE DisplayIps \/ ReverseDns \/ Multiple
    BY <1>1, <1>6
    DEF DisplayIps, ReverseDns, Multiple, Read, Refuse, Keep, options, Other, Letter
  <1>7. ASSUME NEW n \in Number, Frequency(n) \/ SummaryInterval(n) \/ WaitTime(n)
        PROVE  Other
    BY <1>1, <1>7
    DEF Frequency, SummaryInterval, WaitTime, Read, Refuse, Keep, options, Other, Letter
  <1>8. ASSUME NEW n \in Version, NfsVersion(n) PROVE Other
    BY <1>1, <1>8 DEF NfsVersion, Read, Refuse, Keep, options, Other, Letter
  <1>9. CASE Maintain
    BY <1>1, <1>9 DEF Maintain, Read, Keep, options, Other, Letter
  <1>10. QED
    BY <1>2, <1>3, <1>4, <1>5, <1>6, <1>7, <1>8, <1>9

\* They do not change what is known of the mode.
LEMMA OtherStep ==
    ASSUME OptionsInv, Other
    PROVE  ModeInv' /\ MainLoopCanStart' /\ ModesCommute'
  <1>1. /\ ModeInv /\ pc = "getopt" /\ pc' \in {"getopt", "refused"}
        /\ refusal' # "mode" \/ (refusal' = refusal)
        /\ \A o \in {"c", "C", "D", "E", "G", "l"} : o \in asked' <=> o \in asked
        /\ UNCHANGED <<count, loop, format>>
        /\ prognum' = PMAPPROG => port' # 0 \/ "P" \in asked'
    BY DEF OptionsInv, Other
  <1>2. ModeConflict' <=> ModeConflict
    BY <1>1 DEF ModeConflict
  <1>3. asked' \cap {"c", "C"} # {} <=> asked \cap {"c", "C"} # {}
    BY <1>1
  <1>4. ModeInv'
    BY <1>1, <1>2, <1>3 DEF ModeInv
  <1>5. MainLoopCanStart' /\ ModesCommute'
    BY <1>1, <1>2 DEF OptionsInv, MainLoopCanStart, ModesCommute, ModeInv
  <1>6. QED
    BY <1>4, <1>5

\* The mode options refuse exactly what cannot be combined.
LEMMA ModeStep ==
    ASSUME OptionsInv,
           \/ \E n \in Number : CountFping(n) \/ CountPing(n)
           \/ \E o \in DOMAIN FormatOption : SetFormat(o)
           \/ Loop
    PROVE  ModeInv' /\ MainLoopCanStart' /\ ModesCommute'
  <1> USE OptionsAssumption
  <1>1. /\ ModeInv /\ loop \in BOOLEAN /\ count \in Nat
        /\ refusal = "mode" => ModeConflict
    BY DEF OptionsInv, TypeOK, ModesCommute
  <1>2. ASSUME NEW n \in Number, CountFping(n)
        PROVE  ModeInv' /\ MainLoopCanStart' /\ ModesCommute'
    <2>1. pc = "getopt" /\ asked' = asked \cup {"C"}
      BY <1>2 DEF CountFping, Read
    <2>2. CASE pc' = "refused" /\ refusal' = "mode"
      BY <1>1, <1>2, <2>1, <2>2
      DEF CountFping, Refuse, StoreCount, Keep, options, ModeInv, ModeConflict,
          MainLoopCanStart, ModesCommute
    <2>3. CASE pc' = "refused" /\ refusal' = "value"
      BY <1>1, <1>2, <2>1, <2>3
      DEF CountFping, Refuse, StoreCount, Keep, options, ModeInv, ModeConflict,
          MainLoopCanStart, ModesCommute
    <2>4. CASE pc' = "getopt"
      BY <1>1, <1>2, <2>1, <2>4
      DEF CountFping, Refuse, StoreCount, Keep, options, ModeInv, ModeConflict,
          MainLoopCanStart, ModesCommute
    <2>5. QED
      BY <1>2, <2>1, <2>2, <2>3, <2>4 DEF CountFping, Refuse, StoreCount, Keep
  <1>3. ASSUME NEW n \in Number, CountPing(n)
        PROVE  ModeInv' /\ MainLoopCanStart' /\ ModesCommute'
    <2>1. pc = "getopt" /\ asked' = asked \cup {"c"}
      BY <1>3 DEF CountPing, Read
    <2>2. CASE pc' = "refused"
      BY <1>1, <1>3, <2>1, <2>2
      DEF CountPing, Refuse, StoreCount, Keep, options, ModeInv, ModeConflict,
          MainLoopCanStart, ModesCommute
    <2>3. CASE pc' = "getopt"
      BY <1>1, <1>3, <2>1, <2>3
      DEF CountPing, Refuse, StoreCount, Keep, options, ModeInv, ModeConflict,
          MainLoopCanStart, ModesCommute
    <2>4. QED
      BY <1>3, <2>1, <2>2, <2>3 DEF CountPing, Refuse, StoreCount, Keep
  <1>4. ASSUME NEW o \in DOMAIN FormatOption, SetFormat(o)
        PROVE  ModeInv' /\ MainLoopCanStart' /\ ModesCommute'
    <2>1. /\ pc = "getopt" /\ asked' = asked \cup {o} /\ o \in {"D", "E", "G"}
          /\ FormatOption[o] = IF o = "D" THEN "unixtime"
                               ELSE IF o = "E" THEN "statsd" ELSE "graphite"
      BY <1>4, Names DEF SetFormat, Read, FormatOption
    <2>2. CASE pc' = "refused"
      BY <1>1, <1>4, <2>1, <2>2
      DEF SetFormat, Refuse, Keep, options, ModeInv, ModeConflict, MainLoopCanStart,
          ModesCommute
    <2>3. CASE pc' = "getopt"
      BY <1>1, <1>4, <2>1, <2>3
      DEF SetFormat, Refuse, Keep, options, ModeInv, ModeConflict, MainLoopCanStart,
          ModesCommute
    <2>4. QED
      BY <1>4, <2>1, <2>2, <2>3 DEF SetFormat, Refuse, Keep
  <1>5. CASE Loop
    <2>1. pc = "getopt" /\ asked' = asked \cup {"l"}
      BY <1>5 DEF Loop, Read
    <2>2. CASE pc' = "refused"
      BY <1>1, <1>5, <2>1, <2>2
      DEF Loop, Refuse, Keep, options, ModeInv, ModeConflict, MainLoopCanStart,
          ModesCommute
    <2>3. CASE pc' = "getopt"
      BY <1>1, <1>5, <2>1, <2>3
      DEF Loop, Refuse, Keep, options, ModeInv, ModeConflict, MainLoopCanStart,
          ModesCommute
    <2>4. QED
      BY <1>5, <2>1, <2>2, <2>3 DEF Loop, Refuse, Keep
  <1>6. QED
    BY <1>2, <1>3, <1>4, <1>5

\* The checks and defaults at the end.
LEMMA FinishStep ==
    ASSUME OptionsInv, Finish
    PROVE  ModeInv' /\ MainLoopCanStart' /\ ModesCommute'
  <1> USE OptionsAssumption
  <1>1. /\ ModeInv /\ loop \in BOOLEAN /\ count \in Nat /\ pc = "getopt"
        /\ refusal = "mode" => ModeConflict
        /\ UNCHANGED <<asked, prognum, count>>
    BY DEF OptionsInv, TypeOK, ModesCommute, Finish, Refuse, options
  <1>2. ModeConflict' <=> ModeConflict
    BY <1>1 DEF ModeConflict
  <1>3. CASE RefusalAtEnd # "none"
    <2>1. /\ pc' = "refused" /\ refusal' = RefusalAtEnd /\ RefusalAtEnd # "mode"
          /\ UNCHANGED options
      BY <1>3 DEF Finish, Refuse, RefusalAtEnd
    <2>2. QED
      BY <1>1, <1>2, <2>1 DEF options, ModeInv, MainLoopCanStart, ModesCommute
  <1>4. CASE RefusalAtEnd = "none"
    <2>1. /\ pc' = "accepted" /\ refusal' = refusal
          /\ format' = IF format = "unset" THEN "ping" ELSE format
          /\ loop' = (loop \/ count = 0)
          /\ port' = DefaultPort
          /\ UNCHANGED <<hertz, interval>>
      BY <1>4 DEF Finish, Refuse
    <2>2. ~(count > 0 /\ hertz * interval >= count)
      BY <1>4 DEF RefusalAtEnd
    <2>3. prognum' = PMAPPROG => port' # 0 \/ "P" \in asked'
      BY <1>1, <2>1 DEF DefaultPort, ModeInv, PMAPPORT, PMAPPROG, NFS_PROGRAM,
                        NFS_ACL_PROGRAM
    <2>4. loop' <=> count = 0
      BY <1>1, <2>1 DEF ModeInv
    <2>5. ModeInv'
      BY <1>1, <2>1, <2>3, <2>4 DEF ModeInv
    <2>6. MainLoopCanStart'
      <3>1. count > 0 => hertz * interval < count
        <4>1. hertz \in Nat /\ interval \in Nat
          BY DEF OptionsInv, TypeOK, NFS_HERTZ
        <4>2. hertz * interval \in Nat
          BY <4>1
        <4>3. QED
          BY <1>1, <2>2, <4>2
      <3>2. format' # "unset" /\ (format' = "fping" => count > 0)
        BY <1>1, <2>1 DEF ModeInv
      <3>3. QED
        BY <1>1, <2>1, <2>3, <2>4, <3>1, <3>2 DEF MainLoopCanStart
    <2>7. ModesCommute'
      BY <1>1, <1>2, <2>1 DEF ModesCommute, ModeInv
    <2>8. QED
      BY <2>5, <2>6, <2>7
  <1>5. QED
    BY <1>3, <1>4

\* Every step keeps the types.
LEMMA TypeStep ==
    ASSUME OptionsInv, Next
    PROVE  TypeOK'
  <1> USE OptionsAssumption
  <1>1. TypeOK
    BY DEF OptionsInv
  <1>2. ASSUME NEW o \in Letter, Read(o)
        PROVE  parsed' \in 0 .. MaxOptions /\ asked' \subseteq Letter
    BY <1>1, <1>2 DEF Read, TypeOK
  <1>3. ASSUME NEW o \in DOMAIN ProtocolOption, Protocol(o) PROVE TypeOK'
    <2>1. o \in Letter /\ ProtocolOption[o] \in Prognum
      BY Names DEF Letter
    <2>2. QED
      BY <1>1, <1>2, <1>3, <2>1 DEF Protocol, Refuse, Keep, options, TypeOK
  <1>4. CASE Portmap \/ UsePortmapper
    <2>1. {"N", "M"} \subseteq Letter /\ PMAPPROG \in Prognum
      BY DEF Letter, Prognum
    <2>2. QED
      BY <1>1, <1>2, <1>4, <2>1
      DEF Portmap, UsePortmapper, Refuse, Keep, options, TypeOK
  <1>5. ASSUME NEW n \in PortNumber, SpecifyPort(n) PROVE TypeOK'
    <2>1. "P" \in Letter
      BY DEF Letter
    <2>2. QED
      BY <1>1, <1>2, <1>5, <2>1 DEF SpecifyPort, Refuse, Keep, options, TypeOK
  <1>6. ASSUME NEW n \in Number, CountFping(n) \/ CountPing(n) PROVE TypeOK'
    <2>1. {"c", "C"} \subseteq Letter
      BY DEF Letter
    <2>2. QED
      BY <1>1, <1>2, <1>6, <2>1
      DEF CountFping, CountPing, StoreCount, Refuse, Keep, options, TypeOK, Format
  <1>7. ASSUME NEW o \in DOMAIN FormatOption, SetFormat(o) PROVE TypeOK'
    <2>1. o \in Letter /\ FormatOption[o] \in Format
      BY Names DEF Letter, FormatOption, Format
    <2>2. QED
      BY <1>1, <1>2, <1>7, <2>1 DEF SetFormat, Refuse, Keep, options, TypeOK
  <1>8. CASE Loop \/ Maintain
    <2>1. {"l", "R"} \subseteq Letter
      BY DEF Letter
    <2>2. QED
      BY <1>1, <1>2, <1>8, <2>1 DEF Loop, Maintain, Refuse, Keep, options, TypeOK
  <1>9. CASE DisplayIps \/ ReverseDns \/ Multiple
    <2>1. {"A", "d", "m"} \subseteq Letter
      BY DEF Letter
    <2>2. names' \in [multiple : BOOLEAN, ips : BOOLEAN, dns : BOOLEAN]
      BY <1>1, <1>9
      DEF DisplayIps, ReverseDns, Multiple, Refuse, Keep, options, TypeOK
    <2>3. QED
      BY <1>1, <1>2, <1>9, <2>1, <2>2
      DEF DisplayIps, ReverseDns, Multiple, Refuse, Keep, options, TypeOK
  <1>10. ASSUME NEW n \in Number, Frequency(n) \/ SummaryInterval(n) \/ WaitTime(n)
         PROVE  TypeOK'
    <2>1. {"H", "Q", "i"} \subseteq Letter
      BY DEF Letter
    <2>2. QED
      BY <1>1, <1>2, <1>10, <2>1
      DEF Frequency, SummaryInterval, WaitTime, Refuse, Keep, options, TypeOK
  <1>11. ASSUME NEW n \in Version, NfsVersion(n) PROVE TypeOK'
    <2>1. "V" \in Letter
      BY DEF Letter
    <2>2. QED
      BY <1>1, <1>2, <1>11, <2>1 DEF NfsVersion, Refuse, Keep, options, TypeOK
  <1>12. CASE Finish
    <2>1. /\ DefaultPort \in {port, 0, PMAPPORT}
          /\ RefusalAtEnd \in {"none", "interval", "version", "targets", "wait"}
      BY DEF DefaultPort, RefusalAtEnd
    <2>2. QED
      BY <1>1, <1>12, <2>1 DEF Finish, Refuse, options, TypeOK, Format
  <1>13. CASE Done
    BY <1>1, <1>13 DEF Done, vars, options, TypeOK
  <1>14. QED
    BY <1>3, <1>4, <1>5, <1>6, <1>7, <1>8, <1>9, <1>10, <1>11, <1>12, <1>13 DEF Next

\* Only three options say what a target is shown as.
LEMMA NameStep ==
    ASSUME OptionsInv, Next
    PROVE  OneKindOfName'
  <1>1. OneKindOfName /\ names \in [multiple : BOOLEAN, ips : BOOLEAN, dns : BOOLEAN]
    BY DEF OptionsInv, TypeOK
  <1>2. CASE DisplayIps
    <2>1. names' = names \/ names' = [names EXCEPT !.ips = ~names.dns]
      BY <1>2 DEF DisplayIps, Refuse, options
    <2>2. QED
      BY <1>1, <2>1 DEF OneKindOfName
  <1>3. CASE ReverseDns
    <2>1. names' = names \/ names' = [names EXCEPT !.ips = FALSE, !.dns = TRUE]
      BY <1>3 DEF ReverseDns, Refuse, options
    <2>2. QED
      BY <1>1, <2>1 DEF OneKindOfName
  <1>4. CASE Multiple
    <2>1. names' = [names EXCEPT !.multiple = TRUE, !.ips = @ \/ ~names.dns]
      BY <1>4 DEF Multiple
    <2>2. QED
      BY <1>1, <2>1 DEF OneKindOfName
  <1>5. CASE ~(DisplayIps \/ ReverseDns \/ Multiple)
    <2> USE DEF Refuse, options
    <2>1. ASSUME NEW o, Protocol(o) \/ SetFormat(o) PROVE names' = names
      BY <2>1 DEF Protocol, SetFormat
    <2>2. ASSUME Portmap \/ UsePortmapper \/ Loop \/ Maintain PROVE names' = names
      BY <2>2 DEF Portmap, UsePortmapper, Loop, Maintain
    <2>3. ASSUME NEW n, \/ SpecifyPort(n) \/ Frequency(n) \/ SummaryInterval(n)
                        \/ WaitTime(n) \/ NfsVersion(n)
          PROVE  names' = names
      BY <2>3 DEF SpecifyPort, Frequency, SummaryInterval, WaitTime, NfsVersion
    <2>4. ASSUME NEW n, CountFping(n) \/ CountPing(n) PROVE names' = names
      BY <2>4 DEF CountFping, CountPing, StoreCount
    <2>5. ASSUME Finish \/ Done PROVE names' = names
      BY <2>5 DEF Finish, Done, vars
    <2>6. names' = names
      BY <1>5, <2>1, <2>2, <2>3, <2>4, <2>5 DEF Next
    <2>7. QED
      BY <1>1, <2>6 DEF OneKindOfName
  <1>6. QED
    BY <1>2, <1>3, <1>4, <1>5

\* The inductive invariant holds for every command line.
THEOREM OptionsInvariant == Spec => []OptionsInv
  <1>1. Init => OptionsInv
    <2> SUFFICES ASSUME Init PROVE OptionsInv
      OBVIOUS
    <2>1. 0 \in 0 .. MaxOptions
      BY OptionsAssumption
    <2>2. names \in [multiple : BOOLEAN, ips : BOOLEAN, dns : BOOLEAN]
      BY DEF Init
    <2>3. TypeOK
      <3>1. NFS_PROGRAM \in Prognum /\ "unset" \in Format /\ loop \in BOOLEAN
        BY DEF Init, Prognum, Format
      <3>2. QED
        BY <2>1, <2>2, <3>1 DEF Init, TypeOK
    <2>4. ModeInv
      <3>1. ~ModeConflict
        BY DEF Init, ModeConflict
      <3>2. ~loop /\ "l" \notin asked /\ asked \cap {"c", "C"} = {} /\ count = 0
        BY DEF Init
      <3>3. prognum # PMAPPROG
        BY DEF Init, PMAPPROG, NFS_PROGRAM
      <3>4. QED
        BY <3>1, <3>2, <3>3 DEF Init, ModeInv
    <2>5. MainLoopCanStart /\ ModesCommute /\ OneKindOfName
      BY DEF Init, MainLoopCanStart, ModesCommute, OneKindOfName
    <2>6. QED
      BY <2>3, <2>4, <2>5 DEF OptionsInv
  <1>2. OptionsInv /\ Next => OptionsInv'
    <2> SUFFICES ASSUME OptionsInv, Next
                 PROVE  ModeInv' /\ MainLoopCanStart' /\ ModesCommute'
      BY TypeStep, NameStep DEF OptionsInv
    <2>1. CASE Done
      BY <2>1 DEF Done, vars, options, OptionsInv, ModeInv, ModeConflict,
                  MainLoopCanStart, ModesCommute
    <2>2. QED
      BY <2>1, OtherOptions, OtherStep, ModeStep, FinishStep DEF Next
  <1>3. OptionsInv /\ UNCHANGED vars => OptionsInv'
    BY DEF vars, options, OptionsInv, TypeOK, OneKindOfName, ModeInv, ModeConflict,
           MainLoopCanStart, ModesCommute
  <1>4. QED
    BY <1>1, <1>2, <1>3, PTL DEF Spec

\* Whatever is accepted, the main loop can start from.
THEOREM AcceptedCanStart == Spec => []MainLoopCanStart
  <1>1. OptionsInv => MainLoopCanStart
    BY DEF OptionsInv
  <1>2. QED
    BY OptionsInvariant, <1>1, PTL

\* The order of the options does not matter to the mode.
THEOREM ModeOptionsCommute == Spec => []ModesCommute
  <1>1. OptionsInv => ModesCommute
    BY DEF OptionsInv
  <1>2. QED
    BY OptionsInvariant, <1>1, PTL
=============================================================================
