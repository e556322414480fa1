--------------------------- MODULE NfsMountProofs ---------------------------
(***************************************************************************)
(* Proofs about nfsmount, for any arguments, lists of exports, options and *)
(* answers of the servers, and any number of outages.                      *)
(***************************************************************************)
EXTENDS NfsMount, SequenceTheorems, TLAPS

MountTarget == TargetOf(HostName, ExportOf(Path), {})

\* The export j of target i has had its turn in this round.
Before(i, j) == i < at[1] \/ (i = at[1] /\ j < at[2])

\* An export nothing was sent for yet.
Unasked(e) == e.sent = 0 /\ e.received = 0

-----------------------------------------------------------------------------
\* The options that getopt() refuses end the process; those it accepts agree.
Agree(c) ==
    /\ c.loop => c.format # "unset"
    /\ c.count # 0 => c.format # "unset"
    /\ c.loop /\ c.count # 0 => c.format \notin Counted
    /\ c.format = "fping" => c.count # 0 /\ ~c.loop
    /\ c.format = "showmount" => c.count = 0
    /\ ~(c.dns /\ c.ip)

OptionsInv ==
    /\ cfg.fatal => pc = "ended" /\ targets = <<>>
    /\ ~cfg.fatal => Agree(cfg)

\* The list is made after the options are known.
ListInv ==
    /\ OneTargetPerAddress
    /\ pc = "getopt" => targets = <<>>
    /\ pc = "addresses" => arg # NULL /\ at[2] \in DOMAIN arg.addrs
    /\ pc \in {"getopt", "arguments"} => at[2] = 1
    /\ \A i \in DOMAIN targets : \A j \in DOMAIN targets[i].exports :
          targets[i].exports[j].results = cfg.count

\* Nothing is asked before the first round.
StartInv ==
    /\ pc \in {"getopt", "arguments", "addresses", "lookup"} => round = 0
    /\ pc = "main" => round > 0
    /\ round = 0 =>
         /\ ok = 0 /\ mounted = {}
         /\ \A i \in DOMAIN targets : \A j \in DOMAIN targets[i].exports :
               Unasked(targets[i].exports[j])

\* As long as every server is connected to, each export was asked once in
\* every round behind, and once in this one if it has had its turn.
TurnInv ==
    round > 0 /\ ~outage =>
        \A i \in DOMAIN targets : \A j \in DOMAIN targets[i].exports :
            targets[i].exports[j].sent = IF Before(i, j) THEN round ELSE round - 1

\* If they are not, none is asked more often, and the first one was asked in
\* each round its target was not missed in.
MissedInv ==
    /\ ~outage \/ round = 0 => missed = 0
    /\ RoundsInBounds
    /\ round > 0 =>
         /\ \A i \in DOMAIN targets : \A j \in DOMAIN targets[i].exports :
               targets[i].exports[j].sent <= IF Before(i, j) THEN round ELSE round - 1
         /\ 1 \in DOMAIN targets /\ 1 \in DOMAIN targets[1].exports =>
               targets[1].exports[1].sent + missed
                   = IF Before(1, 1) THEN round ELSE round - 1

\* What the totals tell about the exports.
TotalsInv ==
    /\ \A i \in DOMAIN targets : \A j \in DOMAIN targets[i].exports :
          /\ targets[i].exports[j].received <= targets[i].exports[j].sent
          /\ sent = ok => targets[i].exports[j].received = targets[i].exports[j].sent
    /\ ok > 0 => \E i \in DOMAIN targets : \E j \in DOMAIN targets[i].exports :
                    targets[i].exports[j].sent > 0

\* What the exit status tells about the totals and the rounds.
ExitInv ==
    /\ exit # "running" => pc = "ended"
    /\ exit = "success" => sent # 0 /\ sent = ok
    /\ exit \in {"success", "failure"} =>
         /\ round > 0 /\ at[1] > Len(targets)
         /\ ~quitting /\ ~cfg.loop /\ cfg.count # 0 /\ ~outage
            => round >= cfg.count

IInv ==
    /\ TypeOK
    /\ OptionsInv
    /\ ListInv
    /\ StartInv
    /\ TurnInv
    /\ MissedInv
    /\ TotalsInv
    /\ ExitInv
    /\ NothingStaysMounted

-----------------------------------------------------------------------------
(* The target list.                                                        *)

\* No two targets of a list have one address.
Unique(list) == \A i, k \in DOMAIN list : list[i].ip = list[k].ip => i = k

\* The search finds the target with the address, if there is one.
LEMMA FindTarget ==
    ASSUME NEW T, NEW list \in Seq(T), NEW a, Unique(list)
    PROVE  /\ find_target_by_ip(list, a) # 0 <=> \E i \in DOMAIN list : list[i].ip = a
           /\ find_target_by_ip(list, a) # 0 =>
                 /\ find_target_by_ip(list, a) \in DOMAIN list
                 /\ list[find_target_by_ip(list, a)].ip = a
  <1>1. CASE \E i \in DOMAIN list : list[i].ip = a
    <2> DEFINE P(i) == list[i].ip = a /\ \A k \in 1 .. (i - 1) : list[k].ip # a
    <2>1. PICK i \in DOMAIN list : list[i].ip = a
      BY <1>1
    <2>2. DOMAIN list = 1 .. Len(list) /\ Len(list) \in Nat
      BY LenProperties
    <2>3. P(i)
      BY <2>1, <2>2 DEF Unique
    <2>4. /\ (CHOOSE k \in DOMAIN list : P(k)) \in DOMAIN list
          /\ P(CHOOSE k \in DOMAIN list : P(k))
      BY <2>3
    <2>5. find_target_by_ip(list, a) = CHOOSE k \in DOMAIN list : P(k)
      BY <1>1 DEF find_target_by_ip
    <2>6. QED
      BY <1>1, <2>2, <2>4, <2>5
  <1>2. CASE ~\E i \in DOMAIN list : list[i].ip = a
    BY <1>2 DEF find_target_by_ip
  <1>3. QED
    BY <1>1, <1>2

\* made is list with a target for a, which is number i: it was there, or it is
\* behind the others.
WithTargetFor(list, a, made, i) ==
    /\ made \in Seq(MountTarget) /\ Unique(made)
    /\ i \in DOMAIN made /\ made[i].ip = a
    /\ \A k \in DOMAIN made :
          (k \in DOMAIN list /\ made[k] = list[k]) \/ made[k].exports = <<>>

LEMMA FindOrMakeTarget ==
    ASSUME NEW list \in Seq(MountTarget), NEW a \in Addr, NEW count \in Nat,
           Unique(list)
    PROVE  LET made == find_or_make_target(list, a, count)
           IN WithTargetFor(list, a, made, find_target_by_ip(made, a))
  <1> DEFINE made == find_or_make_target(list, a, count)
             i == find_target_by_ip(made, a)
  <1> SUFFICES WithTargetFor(list, a, made, i)
    OBVIOUS
  <1>0. made = find_or_make_target(list, a, count) /\ i = find_target_by_ip(made, a)
    OBVIOUS
  <1> HIDE DEF made, i
  <1>1. init_target(a, count) \in MountTarget
    BY EmptySeq DEF init_target, MountTarget, TargetOf, HostName
  <1>2. init_target(a, count).ip = a /\ init_target(a, count).exports = <<>>
    BY DEF init_target
  <1>3. DOMAIN list = 1 .. Len(list) /\ Len(list) \in Nat
    BY LenProperties
  <1>4. CASE find_target_by_ip(list, a) # 0
    <2>1. made = list
      BY <1>0, <1>4 DEF find_or_make_target
    <2>2. QED
      BY <1>0, <1>4, <2>1, FindTarget DEF WithTargetFor
  <1>5. CASE find_target_by_ip(list, a) = 0
    <2>1. made = Append(list, init_target(a, count))
      BY <1>0, <1>5 DEF find_or_make_target
    <2>2. \A k \in DOMAIN list : list[k].ip # a
      BY <1>5, FindTarget
    <2>3. /\ made \in Seq(MountTarget) /\ Len(made) = Len(list) + 1
          /\ \A k \in 1 .. Len(list) : made[k] = list[k]
          /\ made[Len(list) + 1] = init_target(a, count)
      BY <1>1, <2>1, AppendProperties
    <2>4. DOMAIN made = 1 .. Len(list) + 1
      BY <2>3, LenProperties
    <2>5. \A k \in DOMAIN made : k \in DOMAIN list \/ k = Len(list) + 1
      BY <1>3, <2>4
    <2>6. Unique(made)
      BY <1>2, <1>3, <2>2, <2>3, <2>5 DEF Unique
    <2>7. Len(list) + 1 \in DOMAIN made
      BY <1>3, <2>4
    <2>8. i \in DOMAIN made /\ made[i].ip = a
      BY <1>0, <1>2, <2>3, <2>6, <2>7, FindTarget
    <2>9. QED
      BY <1>2, <1>3, <2>3, <2>5, <2>6, <2>8 DEF WithTargetFor
  <1>6. QED
    BY <1>4, <1>5

\* The names are written into a target; its address and exports stay.
LEMMA NamedTarget ==
    ASSUME NEW t \in MountTarget, NEW g \in Argument, NEW a \in Addr,
           NEW dns, NEW display_ips
    PROVE  /\ Named(t, g, a, dns, display_ips) \in MountTarget
           /\ Named(t, g, a, dns, display_ips).ip = t.ip
           /\ Named(t, g, a, dns, display_ips).exports = t.exports
  <1>1. \A n, d \in HostName :
           /\ [t EXCEPT !.name = n, !.display = d] \in MountTarget
           /\ [t EXCEPT !.name = n, !.display = d].ip = t.ip
           /\ [t EXCEPT !.name = n, !.display = d].exports = t.exports
    BY DEF MountTarget, TargetOf
  <1>2. /\ a \in HostName /\ g.name \in HostName
        /\ a \in HasName => <<"name of", a>> \in HostName
    BY DEF HostName
  <1>3. CASE g.ip
    BY <1>1, <1>2, <1>3 DEF Named
  <1>4. CASE ~g.ip
    <2>1. PICK n \in HostName : n = IF ~dns THEN g.name
                    ELSE IF a \in HasName THEN <<"name of", a>> ELSE a
      BY <1>2
    <2>2. PICK d \in HostName : d = IF display_ips THEN a ELSE n
      BY <1>2
    <2>3. Named(t, g, a, dns, display_ips) = [t EXCEPT !.name = n, !.display = d]
      BY <1>4, <2>1, <2>2 DEF Named
    <2>4. QED
      BY <2>3 DEF MountTarget, TargetOf
  <1>5. QED
    BY <1>3, <1>4

\* new is list with t as number i.
Replaced(list, i, t, new) ==
    /\ new \in Seq(MountTarget)
    /\ DOMAIN new = DOMAIN list
    /\ \A k \in DOMAIN list : new[k] = IF k = i THEN t ELSE list[k]

\* Replacing one target by one with the same address keeps a list in order.
LEMMA ReplaceTarget ==
    ASSUME NEW list \in Seq(MountTarget), NEW i \in DOMAIN list, Unique(list),
           NEW t \in MountTarget, t.ip = list[i].ip
    PROVE  /\ Unique([list EXCEPT ![i] = t])
           /\ Replaced(list, i, t, [list EXCEPT ![i] = t])
  <1>1. DOMAIN list = 1 .. Len(list)
    BY LenProperties
  <1>2. /\ [list EXCEPT ![i] = t] \in Seq(MountTarget)
        /\ \A k \in 1 .. Len(list) :
              [list EXCEPT ![i] = t][k] = IF k = i THEN t ELSE list[k]
    BY <1>1, ExceptSeq
  <1>3. DOMAIN [list EXCEPT ![i] = t] = DOMAIN list
    OBVIOUS
  <1>4. \A k \in DOMAIN list : [list EXCEPT ![i] = t][k].ip = list[k].ip
    BY <1>1, <1>2
  <1>5. Unique([list EXCEPT ![i] = t])
    BY <1>3, <1>4 DEF Unique
  <1>6. QED
    BY <1>1, <1>2, <1>3, <1>5 DEF Replaced

\* new is list with argument g put in: every list of exports is an old one,
\* empty, or the path given.
Addressed(list, g, count, new) ==
    /\ new \in Seq(MountTarget)
    /\ Unique(new)
    /\ \A k \in DOMAIN new :
          \/ k \in DOMAIN list /\ new[k].exports = list[k].exports
          \/ new[k].exports = <<>>
          \/ new[k].exports = <<init_export(g.path, count)>>

\* What make_target() does to the list for one address.
LEMMA WithAddressEffect ==
    ASSUME NEW list \in Seq(MountTarget), NEW g \in Argument, NEW a \in Addr,
           NEW opt, NEW count \in Nat, Unique(list)
    PROVE  Addressed(list, g, count, WithAddress(list, g, a, opt, g.path, count))
  <1> DEFINE new == WithAddress(list, g, a, opt, g.path, count)
  <1> SUFFICES Addressed(list, g, count, new)
    OBVIOUS
  <1> DEFINE made == find_or_make_target(list, a, count)
             i == find_target_by_ip(made, a)
             e == init_export(g.path, count)
             exported == IF g.path = NULL THEN made ELSE [made EXCEPT ![i].exports = <<e>>]
             t == Named(exported[i], g, a, opt.dns, opt.ip)
  <1>1. new = [exported EXCEPT ![i] = t]
    BY DEF WithAddress
  <1> HIDE DEF new
  <1>0. made = find_or_make_target(list, a, count) /\ i = find_target_by_ip(made, a)
    OBVIOUS
  <1> HIDE DEF made, i
  <1>2. /\ made \in Seq(MountTarget) /\ Unique(made)
        /\ i \in DOMAIN made /\ made[i].ip = a
        /\ \A k \in DOMAIN made :
              (k \in DOMAIN list /\ made[k] = list[k]) \/ made[k].exports = <<>>
    <2>1. WithTargetFor(list, a, made, i)
      BY <1>0, FindOrMakeTarget
    <2>2. QED
      BY <2>1 DEF WithTargetFor
  <1>3. made[i] \in MountTarget
    <2>1. DOMAIN made = 1 .. Len(made)
      BY <1>2, LenProperties
    <2>2. QED
      BY <1>2, <2>1, ElementOfSeq
  <1>4. /\ exported \in Seq(MountTarget) /\ Unique(exported)
        /\ DOMAIN exported = DOMAIN made
        /\ exported[i] \in MountTarget
        /\ \A k \in DOMAIN made :
              exported[k].exports = made[k].exports \/ exported[k].exports = <<e>>
    <2>1. CASE g.path = NULL
      BY <1>2, <1>3, <2>1
    <2>2. CASE g.path # NULL
      <3> DEFINE u == [made[i] EXCEPT !.exports = <<e>>]
      <3>1. e \in ExportOf(Path)
        BY <2>2, NfsMountAssumption DEF init_export, ExportOf
      <3> HIDE DEF e
      <3>2. <<e>> \in Seq(ExportOf(Path))
        BY <3>1
      <3>3. u \in MountTarget /\ u.ip = made[i].ip /\ u.exports = <<e>>
        BY <1>3, <3>2 DEF MountTarget, TargetOf
      <3>4. exported = [made EXCEPT ![i] = u]
        BY <2>2
      <3> HIDE DEF u
      <3>5. QED
        BY <1>2, <1>3, <3>3, <3>4, ReplaceTarget DEF Replaced
    <2>3. QED
      BY <2>1, <2>2
  <1> HIDE DEF exported, e
  <1>5. t \in MountTarget /\ t.ip = exported[i].ip /\ t.exports = exported[i].exports
    BY <1>4, NamedTarget
  <1> HIDE DEF t
  <1>6. /\ new \in Seq(MountTarget) /\ Unique(new)
        /\ DOMAIN new = DOMAIN exported
        /\ \A k \in DOMAIN new : new[k].exports = exported[k].exports
    <2>1. i \in DOMAIN exported /\ exported \in Seq(MountTarget) /\ Unique(exported)
          /\ t \in MountTarget /\ t.ip = exported[i].ip
      BY <1>2, <1>4, <1>5
    <2>2. /\ Unique([exported EXCEPT ![i] = t])
          /\ Replaced(exported, i, t, [exported EXCEPT ![i] = t])
      BY <2>1, ReplaceTarget
    <2>3. Unique(new) /\ Replaced(exported, i, t, new)
      BY <1>1, <2>2
    <2>4. QED
      BY <1>2, <1>4, <1>5, <2>3 DEF Replaced
  <1>7. \A k \in DOMAIN new : exported[k].exports = made[k].exports \/ exported[k].exports = <<e>>
    BY <1>4, <1>6
  <1>8. QED
    BY <1>2, <1>4, <1>6, <1>7 DEF e, Addressed

-----------------------------------------------------------------------------
(* The options.                                                            *)

\* Every option is refused or leaves options that agree.
LEMMA ParseOptionAgrees ==
    ASSUME NEW c \in Options, ~c.fatal, Agree(c), NEW o \in Option,
           NEW d, d = ParseOption(c, o)
    PROVE  d \in Options /\ (~d.fatal => Agree(d))
  <1> DEFINE l == o.letter
             clash == l \in DOMAIN FormatsBefore /\ c.format \notin FormatsBefore[l]
  <1>1. l \in Letter /\ o.arg \in Nat
    <2>1. Number \subseteq Nat /\ Hertz \subseteq Nat
      BY NfsMountAssumption
    <2>2. CASE o \in [letter : Letter \ {"c", "C", "H"}, arg : {0}]
      BY <2>2
    <2>3. CASE o \in [letter : {"c", "C"}, arg : Number]
      BY <2>1, <2>3 DEF Letter
    <2>4. CASE o \in [letter : {"H"}, arg : Hertz]
      BY <2>1, <2>4 DEF Letter
    <2>5. QED
      BY <2>2, <2>3, <2>4 DEF Option
  <1>2. Fatal(c) \in Options /\ Fatal(c).fatal
    BY DEF Fatal, Options
  <1>3. CASE clash
    <2>1. d = Fatal(c)
      BY <1>3 DEF ParseOption
    <2>2. QED
      BY <1>2, <2>1
  <1>4. CASE ~clash /\ l = "A"
    <2>1. d = IF c.dns THEN Fatal(c) ELSE [c EXCEPT !.ip = TRUE]
      BY <1>4 DEF ParseOption
    <2>2. QED
      BY <1>2, <2>1 DEF Options, Agree
  <1>5. CASE ~clash /\ l \in {"c", "C"}
    <2>1. CASE c.loop \/ o.arg = 0
      BY <1>2, <1>5, <2>1 DEF ParseOption
    <2>2. CASE ~(c.loop \/ o.arg = 0)
      <3>1. d = [c EXCEPT !.count = o.arg,
                          !.format = IF l = "C" THEN "fping"
                                     ELSE IF @ = "unset" THEN "ping" ELSE @]
        BY <1>5, <2>2 DEF ParseOption
      <3>2. l = "c" => c.format \notin {"fping", "showmount"}
        BY <1>5 DEF FormatsBefore
      <3>3. /\ d \in Options /\ d.count # 0 /\ ~d.loop
            /\ d.dns = c.dns /\ d.ip = c.ip
            /\ d.format \notin {"unset", "showmount"}
        BY <1>1, <1>5, <2>2, <3>1, <3>2 DEF Options, Counted
      <3>4. QED
        BY <3>3 DEF Agree
    <2>3. QED
      BY <2>1, <2>2
  <1>6. CASE ~clash /\ l = "d"
    <2>1. d = IF c.ip /\ ~c.multiple THEN Fatal(c)
              ELSE [c EXCEPT !.ip = FALSE, !.dns = TRUE]
      BY <1>6 DEF ParseOption
    <2>2. QED
      BY <1>2, <2>1 DEF Options, Agree
  <1>7. CASE ~clash /\ l \in {"D", "E", "G", "J"}
    <2>1. d = [c EXCEPT !.format = FormatAfter[l]]
      BY <1>7 DEF ParseOption
    <2>2. FormatAfter[l] \in {"unixtime", "statsd", "graphite", "json"}
      BY <1>7 DEF FormatAfter
    <2>3. /\ c.format \in {"unset", "ping", "unixtime", "statsd", "graphite", "json"}
          /\ c.loop /\ c.count # 0 => c.format # "unset" /\ c.format \notin Counted
          /\ c.format = "unixtime" => FormatAfter[l] = "unixtime"
      BY <1>7 DEF FormatsBefore, FormatAfter, Agree
    <2>4. QED
      BY <2>1, <2>2, <2>3, <1>7 DEF Options, Agree, Counted, FormatsBefore, FormatAfter
  <1>8. CASE ~clash /\ l = "e"
    <2>1. d = [c EXCEPT !.format = "showmount"]
      BY <1>8 DEF ParseOption, FormatAfter
    <2>2. c.format \in {"unset", "showmount"}
      BY <1>8 DEF FormatsBefore
    <2>3. c.count = 0
      BY <2>2 DEF Agree, Options
    <2>4. QED
      BY <2>1, <2>3 DEF Options, Agree, Counted
  <1>9. CASE ~clash /\ l \in {"H", "R", "u"}
    <2>1. /\ d \in Options /\ d.fatal = c.fatal /\ d.format = c.format /\ d.count = c.count
          /\ d.loop = c.loop /\ d.dns = c.dns /\ d.ip = c.ip
      BY <1>1, <1>9 DEF ParseOption, Options
    <2>2. QED
      BY <2>1 DEF Agree
  <1>10. CASE ~clash /\ l = "l"
    <2>1. d = IF c.count # 0 /\ c.format \in Counted THEN Fatal(c)
              ELSE [c EXCEPT !.loop = TRUE,
                             !.format = IF c.count = 0 /\ @ = "unset"
                                        THEN "ping" ELSE @]
      BY <1>10 DEF ParseOption
    <2>2. CASE c.count # 0 /\ c.format \in Counted
      BY <1>2, <2>1, <2>2
    <2>3. CASE ~(c.count # 0 /\ c.format \in Counted)
      <3>1. /\ d \in Options /\ d.loop /\ d.count = c.count
            /\ d.dns = c.dns /\ d.ip = c.ip
            /\ d.format = IF c.count = 0 /\ c.format = "unset" THEN "ping" ELSE c.format
        BY <2>1, <2>3 DEF Options, Counted
      <3>2. c.format # "fping"
        BY <2>3 DEF Agree, Counted
      <3>3. QED
        BY <2>3, <3>1, <3>2 DEF Agree, Counted
    <2>4. QED
      BY <2>2, <2>3
  <1>11. CASE ~clash /\ l = "m"
    BY <1>11 DEF ParseOption, Options, Agree
  <1>12. QED
    BY <1>1, <1>3, <1>4, <1>5, <1>6, <1>7, <1>8, <1>9, <1>10, <1>11 DEF Letter

\* None goes back to an earlier one.
LEMMA ParseKeepsIndex ==
    ASSUME NEW c \in Options, NEW o \in Option
    PROVE  ParseOption(c, o).optind = c.optind
  <1>1. o.letter \in Letter
    BY DEF Option, Letter
  <1>2. Fatal(c).optind = c.optind
    BY DEF Fatal, Options
  <1>3. ASSUME NEW l \in Letter, o.letter = l PROVE ParseOption(c, o).optind = c.optind
    BY <1>2, <1>3 DEF ParseOption, Options, Letter
  <1>4. QED
    BY <1>1, <1>3

-----------------------------------------------------------------------------
(* Steps before the first round.                                           *)

\* What the type invariant says of the list.
LEMMA TargetsTyped ==
    ASSUME TypeOK
    PROVE  /\ targets \in Seq(MountTarget)
           /\ DOMAIN targets = 1 .. Len(targets) /\ Len(targets) \in Nat
           /\ \A i \in DOMAIN targets :
                 /\ targets[i] \in MountTarget
                 /\ targets[i].ip \in Addr
                 /\ targets[i].exports \in Seq(ExportOf(Path))
                 /\ DOMAIN targets[i].exports = 1 .. Len(targets[i].exports)
                 /\ Len(targets[i].exports) \in Nat
                 /\ \A j \in DOMAIN targets[i].exports :
                       /\ targets[i].exports[j] \in ExportOf(Path)
                       /\ targets[i].exports[j].sent \in Nat
                       /\ targets[i].exports[j].received \in Nat
                       /\ targets[i].exports[j].results \in Nat
                       /\ targets[i].exports[j].path \in Path
  <1>1. targets \in Seq(MountTarget)
    BY DEF TypeOK, MountTarget
  <1>2. DOMAIN targets = 1 .. Len(targets) /\ Len(targets) \in Nat
    BY <1>1, LenProperties
  <1>3. ASSUME NEW i \in DOMAIN targets
        PROVE  /\ targets[i] \in MountTarget
               /\ targets[i].ip \in Addr
               /\ targets[i].exports \in Seq(ExportOf(Path))
    <2>1. targets[i] \in MountTarget
      BY <1>1, <1>2, ElementOfSeq
    <2>2. QED
      BY <2>1 DEF MountTarget, TargetOf
  <1>4. ASSUME NEW i \in DOMAIN targets
        PROVE  /\ DOMAIN targets[i].exports = 1 .. Len(targets[i].exports)
               /\ Len(targets[i].exports) \in Nat
               /\ \A j \in DOMAIN targets[i].exports :
                     targets[i].exports[j] \in ExportOf(Path)
    <2>1. targets[i].exports \in Seq(ExportOf(Path))
      BY <1>3
    <2>2. DOMAIN targets[i].exports = 1 .. Len(targets[i].exports)
          /\ Len(targets[i].exports) \in Nat
      BY <2>1, LenProperties
    <2>3. QED
      BY <2>1, <2>2, ElementOfSeq
  <1>5. \A e \in ExportOf(Path) :
           e.sent \in Nat /\ e.received \in Nat /\ e.results \in Nat /\ e.path \in Path
    BY DEF ExportOf
  <1>6. QED
    BY <1>1, <1>2, <1>3, <1>4, <1>5

\* No export of the list was asked.
Fresh == \A i \in DOMAIN targets : \A j \in DOMAIN targets[i].exports :
            Unasked(targets[i].exports[j])

\* Before the first round most of the invariant says that nothing happened.
LEMMA NothingHappened ==
    ASSUME round' = 0, missed' = 0, cfg' \in Options, ok' = 0, mounted' = {},
           pc' # "main", Fresh',
           exit' \in {"running", "dns", "usage", "crashed"},
           exit' # "running" => pc' = "ended"
    PROVE  (StartInv /\ TurnInv /\ MissedInv /\ TotalsInv /\ ExitInv /\ NothingStaysMounted)'
  <1>1. StartInv'
    BY DEF StartInv, Fresh
  <1>2. TurnInv'
    BY DEF TurnInv
  <1>3. TotalsInv'
    BY DEF TotalsInv, Fresh, Unasked
  <1>4. ExitInv'
    BY DEF ExitInv
  <1>5. NothingStaysMounted'
    BY DEF NothingStaysMounted
  <1>6. MissedInv'
    BY DEF MissedInv, RoundsInBounds, Options
  <1>7. QED
    BY <1>1, <1>2, <1>3, <1>4, <1>5, <1>6

\* The initial state.
LEMMA InitIInv == Init => IInv
  <1> SUFFICES ASSUME Init PROVE IInv
    OBVIOUS
  <1>1. targets = <<>> /\ DOMAIN targets = {}
    BY EmptySeq DEF Init
  <1>2. TypeOK
    <2>1. targets \in Seq(TargetOf(HostName, ExportOf(Path), {}))
      BY <1>1, EmptySeq
    <2>2. cfg \in Options
      BY DEF Init, CONFIG_DEFAULT, Options
    <2>3. at \in (Nat \ {0}) \X (Nat \ {0}) /\ mounted \subseteq Addr \X Path
      BY DEF Init
    <2>4. /\ pc = "getopt" /\ exit = "running" /\ arg \in Argument \cup {NULL}
          /\ quitting \in BOOLEAN /\ stray \in BOOLEAN
          /\ sent = 0 /\ round = 0 /\ missed = 0 /\ ok = 0 /\ outage \in BOOLEAN
      BY DEF Init
    <2>5. {sent, round, missed} \subseteq Nat /\ ok \in 0..sent
      BY <2>4
    <2>6. QED
      BY <2>1, <2>2, <2>3, <2>4, <2>5 DEF TypeOK
  <1>3. OptionsInv
    BY DEF Init, CONFIG_DEFAULT, OptionsInv, Agree
  <1>4. ListInv
    BY <1>1 DEF Init, ListInv, OneTargetPerAddress
  <1>5. /\ StartInv /\ TurnInv /\ MissedInv
        /\ TotalsInv /\ ExitInv /\ NothingStaysMounted
    BY <1>1, <1>2 DEF Init, StartInv, TurnInv, MissedInv, RoundsInBounds, TypeOK, Options, TotalsInv, ExitInv, NothingStaysMounted
  <1>6. QED
    BY <1>2, <1>3, <1>4, <1>5 DEF IInv

\* While the options are read there is no list.
LEMMA OptionStep ==
    ASSUME IInv, GetOption \/ EndOfOptions
    PROVE  IInv'
  <1> USE DEF IInv
  <1>1. /\ targets = <<>> /\ targets' = <<>> /\ DOMAIN targets = {}
        /\ pc = "getopt" /\ ~cfg.fatal /\ Agree(cfg) /\ cfg \in Options
        /\ round = 0 /\ missed = 0 /\ ok = 0 /\ mounted = {} /\ exit = "running"
    <2>1. pc = "getopt" /\ targets' = targets
      BY DEF GetOption, EndOfOptions
    <2>2. QED
      BY <2>1, EmptySeq DEF ListInv, StartInv, MissedInv, OptionsInv, ExitInv, TypeOK
  <1>2. UNCHANGED <<targets, arg, at, quitting, sent, ok, mounted, round, outage, missed, stray>>
    BY DEF GetOption, EndOfOptions
  <1>3. /\ cfg' \in Options
        /\ cfg'.fatal => pc' = "ended"
        /\ ~cfg'.fatal => Agree(cfg')
        /\ \/ pc' = pc /\ exit' = exit
           \/ pc' = "arguments" /\ exit' = exit
           \/ pc' = "ended" /\ exit' \in {"usage", "crashed"}
    <2>1. CASE GetOption
      <3>1. PICK o \in Option :
               LET c == ParseOption(cfg, o)
               IN /\ cfg' = [c EXCEPT !.optind = @ + 1]
                  /\ IF c.fatal THEN End("usage") ELSE UNCHANGED <<pc, exit>>
        BY <2>1 DEF GetOption
      <3> DEFINE c == ParseOption(cfg, o)
      <3>2. c \in Options /\ (~c.fatal => Agree(c))
        BY <1>1, ParseOptionAgrees
      <3>3. cfg' = [c EXCEPT !.optind = @ + 1]
        BY <3>1
      <3>4. IF c.fatal THEN End("usage") ELSE UNCHANGED <<pc, exit>>
        BY <3>1
      <3> HIDE DEF c
      <3>5. /\ cfg' \in Options /\ cfg'.fatal = c.fatal
            /\ cfg'.loop = c.loop /\ cfg'.count = c.count /\ cfg'.format = c.format
            /\ cfg'.dns = c.dns /\ cfg'.ip = c.ip
        BY <3>2, <3>3 DEF Options
      <3>6. QED
        BY <3>2, <3>4, <3>5 DEF Agree, End
    <2>2. CASE EndOfOptions
      <3>1. cfg' = [cfg EXCEPT !.format = IF @ = "unset" THEN "json" ELSE @]
        BY <2>2 DEF EndOfOptions
      <3>2. /\ cfg' \in Options /\ cfg'.fatal = cfg.fatal
            /\ cfg'.loop = cfg.loop /\ cfg'.count = cfg.count
            /\ cfg'.format = IF cfg.format = "unset" THEN "json" ELSE cfg.format
            /\ cfg'.dns = cfg.dns /\ cfg'.ip = cfg.ip
        BY <1>1, <3>1 DEF Options
      <3>3. Agree(cfg')
        BY <1>1, <3>2 DEF Agree, Counted
      <3>4. QED
        BY <1>1, <2>2, <3>2, <3>3 DEF EndOfOptions, End
    <2>3. QED
      BY <2>1, <2>2
  <1>4. TypeOK'
    BY <1>1, <1>2, <1>3 DEF TypeOK
  <1>5. OptionsInv'
    BY <1>1, <1>3 DEF OptionsInv
  <1>6. ListInv'
    BY <1>1, <1>2, <1>3 DEF ListInv, OneTargetPerAddress
  <1>7. (StartInv /\ TurnInv /\ MissedInv /\ TotalsInv /\ ExitInv /\ NothingStaysMounted)'
    <2>1. /\ round' = 0 /\ missed' = 0 /\ cfg' \in Options
          /\ ok' = 0 /\ mounted' = {} /\ pc' # "main" /\ Fresh'
          /\ exit' \in {"running", "dns", "usage", "crashed"}
          /\ exit' # "running" => pc' = "ended"
      BY <1>1, <1>2, <1>3 DEF Fresh
    <2>2. QED
      BY <2>1, NothingHappened
  <1>8. QED
    BY <1>4, <1>5, <1>6, <1>7

\* The arguments are read, and make_target() adds one address after another.
LEMMA ArgumentStep ==
    ASSUME IInv, AddArgument \/ AddAddress \/ NoMoreArguments
    PROVE  IInv'
  <1> USE DEF IInv
  <1>1. /\ pc \in {"arguments", "addresses"} /\ ~cfg.fatal /\ cfg \in Options
        /\ round = 0 /\ missed = 0 /\ ok = 0 /\ mounted = {} /\ exit = "running" /\ Fresh
        /\ arg \in Argument \cup {NULL}
        /\ at \in (Nat \ {0}) \X (Nat \ {0})
    <2>1. pc \in {"arguments", "addresses"}
      BY DEF AddArgument, AddAddress, NoMoreArguments
    <2>2. QED
      BY <2>1 DEF StartInv, MissedInv, OptionsInv, ExitInv, TypeOK, Fresh
  <1>2. UNCHANGED <<cfg, quitting, sent, ok, mounted, round, outage, missed, stray>>
    BY DEF AddArgument, AddAddress, NoMoreArguments
  <1>3. CASE AddArgument \/ NoMoreArguments
    <2>1. targets' = targets
      BY <1>3 DEF AddArgument, NoMoreArguments
    <2>2. /\ pc' \in {"addresses", "lookup", "ended"}
          /\ exit' \in {"running", "dns", "usage"}
          /\ exit' # "running" => pc' = "ended"
          /\ arg' \in Argument \cup {NULL}
          /\ at' \in (Nat \ {0}) \X (Nat \ {0})
      BY <1>1, <1>3 DEF AddArgument, NoMoreArguments, End
    <2>3. pc' = "addresses" => arg' # NULL /\ at'[2] \in DOMAIN arg'.addrs
      <3>1. SUFFICES ASSUME pc' = "addresses"
                     PROVE  arg' # NULL /\ at'[2] \in DOMAIN arg'.addrs
        OBVIOUS
      <3>2. /\ AddArgument /\ arg' \in Argument /\ ~LookupFails(arg', cfg)
        BY <1>1, <1>3, <3>1 DEF AddArgument, NoMoreArguments, End
      <3>3. arg' # NULL /\ arg'.addrs \in Seq(Addr)
        BY <3>2, NfsMountAssumption
      <3>4. arg'.addrs # <<>>
        BY <3>2 DEF LookupFails
      <3>5. at' = at
        BY <3>2 DEF AddArgument
      <3>6. at[2] = 1
        BY <3>2 DEF ListInv, AddArgument
      <3>7. DOMAIN arg'.addrs = 1 .. Len(arg'.addrs) /\ Len(arg'.addrs) \in Nat \ {0}
        BY <3>3, <3>4, EmptySeq, LenProperties
      <3>8. QED
        BY <3>3, <3>5, <3>6, <3>7
    <2>4. TypeOK'
      BY <1>2, <2>1, <2>2 DEF TypeOK
    <2>5. OptionsInv'
      BY <1>1, <1>2 DEF OptionsInv, Agree
    <2>6. ListInv'
      BY <1>1, <1>2, <2>1, <2>2, <2>3 DEF ListInv, OneTargetPerAddress
    <2>7. (StartInv /\ TurnInv /\ MissedInv /\ TotalsInv /\ ExitInv /\ NothingStaysMounted)'
      <3>1. Fresh'
        BY <1>1, <2>1 DEF Fresh
      <3>2. QED
        BY <1>1, <1>2, <2>2, <3>1, NothingHappened
    <2>8. QED
      BY <2>4, <2>5, <2>6, <2>7
  <1>4. CASE AddAddress
    <2> DEFINE a == arg.addrs[at[2]]
    <2>1. /\ pc = "addresses" /\ arg # NULL /\ at[2] \in DOMAIN arg.addrs
          /\ arg \in Argument
      BY <1>1, <1>4 DEF AddAddress, ListInv
    <2>2. a \in Addr
      <3>1. arg.addrs \in Seq(Addr)
        BY <2>1, NfsMountAssumption
      <3>2. QED
        BY <2>1, <3>1, LenProperties, ElementOfSeq
    <2>3. cfg.count \in Nat
      BY <1>1 DEF Options
    <2>4. targets \in Seq(MountTarget) /\ Unique(targets)
      BY TargetsTyped DEF ListInv, OneTargetPerAddress, Unique
    <2>5. targets' = WithAddress(targets, arg, a, cfg, arg.path, cfg.count)
      BY <1>4 DEF AddAddress
    <2> HIDE DEF a
    <2>6. /\ targets' \in Seq(MountTarget)
          /\ Unique(targets')
          /\ \A k \in DOMAIN targets' :
                \/ k \in DOMAIN targets /\ targets'[k].exports = targets[k].exports
                \/ targets'[k].exports = <<>>
                \/ targets'[k].exports = <<init_export(arg.path, cfg.count)>>
      <3>1. Addressed(targets, arg, cfg.count, targets')
        BY <2>1, <2>2, <2>3, <2>4, <2>5, WithAddressEffect
      <3>2. QED
        BY <3>1 DEF Addressed
    <2>7. /\ pc' \in {"addresses", "arguments"} /\ exit' = "running"
          /\ arg' \in Argument \cup {NULL}
          /\ at' \in (Nat \ {0}) \X (Nat \ {0})
      BY <1>1, <1>4, <2>1 DEF AddAddress
    <2>8. pc' = "addresses" => arg' # NULL /\ at'[2] \in DOMAIN arg'.addrs
      <3>1. SUFFICES ASSUME pc' = "addresses"
                     PROVE  arg' # NULL /\ at'[2] \in DOMAIN arg'.addrs
        OBVIOUS
      <3>2. at' = <<at[1], at[2] + 1>> /\ arg' = arg /\ at[2] < Len(arg.addrs)
        BY <1>4, <3>1 DEF AddAddress
      <3>3. arg.addrs \in Seq(Addr)
        BY <2>1, NfsMountAssumption
      <3>4. DOMAIN arg.addrs = 1 .. Len(arg.addrs) /\ Len(arg.addrs) \in Nat
        BY <3>3, LenProperties
      <3>5. QED
        BY <1>1, <2>1, <3>2, <3>4
    <2>9. \A k \in DOMAIN targets' : \A j \in DOMAIN targets'[k].exports :
             /\ Unasked(targets'[k].exports[j])
             /\ targets'[k].exports[j].results = cfg.count
      <3> SUFFICES ASSUME NEW k \in DOMAIN targets', NEW j \in DOMAIN targets'[k].exports
                   PROVE  /\ Unasked(targets'[k].exports[j])
                          /\ targets'[k].exports[j].results = cfg.count
        OBVIOUS
      <3>1. CASE k \in DOMAIN targets /\ targets'[k].exports = targets[k].exports
        BY <1>1, <3>1 DEF Fresh, ListInv
      <3>2. CASE targets'[k].exports = <<>>
        BY <3>2
      <3>3. CASE targets'[k].exports = <<init_export(arg.path, cfg.count)>>
        <4>1. targets'[k].exports[j] = init_export(arg.path, cfg.count)
          BY <3>3
        <4>2. QED
          BY <4>1 DEF init_export, Unasked
      <3>4. QED
        BY <2>6, <3>1, <3>2, <3>3
    <2>10. TypeOK'
      BY <1>2, <2>6, <2>7 DEF TypeOK, MountTarget
    <2>11. OptionsInv'
      BY <1>1, <1>2 DEF OptionsInv, Agree
    <2>12. ListInv'
      <3>1. pc' = "arguments" => at'[2] = 1
        BY <1>4, <2>1 DEF AddAddress
      <3>2. QED
        BY <1>2, <2>6, <2>7, <2>8, <2>9, <3>1 DEF ListInv, OneTargetPerAddress, Unique
    <2>13. (StartInv /\ TurnInv /\ MissedInv /\ TotalsInv /\ ExitInv /\ NothingStaysMounted)'
      <3>1. Fresh'
        BY <2>9 DEF Fresh
      <3>2. QED
        BY <1>1, <1>2, <2>7, <3>1, NothingHappened
    <2>14. QED
      BY <2>10, <2>11, <2>12, <2>13
  <1>5. QED
    BY <1>3, <1>4

\* Nothing but the connection of a target changes.
SameExports ==
    /\ targets' \in Seq(MountTarget)
    /\ DOMAIN targets' = DOMAIN targets
    /\ \A i \in DOMAIN targets :
          targets'[i].ip = targets[i].ip /\ targets'[i].exports = targets[i].exports

\* The lists of exports are asked for.
LEMMA LookupStep ==
    ASSUME IInv, PathGiven \/ ExportsAnswered \/ ExportsLost \/ ExportsNoClient
    PROVE  IInv'
  <1> USE DEF IInv
  <1>1. /\ pc = "lookup" /\ ~cfg.fatal /\ cfg \in Options
        /\ round = 0 /\ missed = 0 /\ ok = 0 /\ mounted = {} /\ exit = "running" /\ Fresh
        /\ at \in (Nat \ {0}) \X (Nat \ {0}) /\ at[1] <= Len(targets)
        /\ sent \in Nat /\ outage \in BOOLEAN
    <2>1. pc = "lookup" /\ at[1] <= Len(targets)
      BY DEF PathGiven, ExportsAnswered, ExportsLost, ExportsNoClient, Looking
    <2>2. QED
      BY <2>1 DEF StartInv, MissedInv, OptionsInv, ExitInv, TypeOK, Fresh
  <1>2. UNCHANGED <<cfg, arg, quitting, ok, mounted, round, missed, stray>>
    BY DEF PathGiven, ExportsAnswered, ExportsLost, ExportsNoClient, Looking
  <1>3. at' = at \/ at' = <<at[1] + 1, 1>>
    BY DEF PathGiven, ExportsAnswered, ExportsLost, ExportsNoClient
  <1>4. /\ pc' \in {"lookup", "ended"}
        /\ exit' \in {"running", "crashed"}
        /\ exit' # "running" => pc' = "ended"
    BY <1>1 DEF PathGiven, ExportsAnswered, ExportsLost, ExportsNoClient, End
  <1>5. /\ targets' \in Seq(MountTarget) /\ Unique(targets')
        /\ sent' \in Nat /\ outage' \in BOOLEAN
        /\ \A k \in DOMAIN targets' : \A j \in DOMAIN targets'[k].exports :
              /\ Unasked(targets'[k].exports[j])
              /\ targets'[k].exports[j].results = cfg.count
    <2>1. targets \in Seq(MountTarget) /\ Unique(targets) /\ at[1] \in DOMAIN targets
      BY <1>1, TargetsTyped DEF ListInv, OneTargetPerAddress, Unique
    <2>2. \A k \in DOMAIN targets : \A j \in DOMAIN targets[k].exports :
              /\ Unasked(targets[k].exports[j])
              /\ targets[k].exports[j].results = cfg.count
      BY <1>1 DEF Fresh, ListInv
    <2>3. CASE ~ExportsAnswered
      <3>1. targets' = targets /\ sent' = sent /\ outage' \in BOOLEAN
        BY <1>1, <2>3 DEF PathGiven, ExportsLost, ExportsNoClient
      <3>2. QED
        BY <1>1, <2>1, <2>2, <3>1
    <2>4. CASE ExportsAnswered
      <3> DEFINE i == at[1]
      <3>1. PICK list \in ExportList :
               LET exports == [k \in DOMAIN list |-> init_export(list[k], cfg.count)]
                   show == cfg.format = "showmount"
               IN /\ targets' = [targets EXCEPT ![at[1]].client = TRUE,
                                    ![at[1]].exports = IF show THEN @ ELSE exports]
                  /\ sent' = IF show THEN Len(list) ELSE sent
        BY <2>4 DEF ExportsAnswered
      <3> DEFINE exports == [k \in DOMAIN list |-> init_export(list[k], cfg.count)]
                 new == IF cfg.format = "showmount" THEN targets[i].exports ELSE exports
                 t == [targets[i] EXCEPT !.client = TRUE, !.exports = new]
      <3>2. targets' = [targets EXCEPT ![i] = t]
        BY <2>1, <3>1
      <3>3. list \in Seq(Path)
        BY NfsMountAssumption
      <3>4. DOMAIN list = 1 .. Len(list) /\ Len(list) \in Nat
        BY <3>3, LenProperties
      <3>5. sent' \in Nat
        BY <1>1, <3>1, <3>4
      <3>6. exports \in Seq(ExportOf(Path)) /\ DOMAIN exports = DOMAIN list
        <4>1. \A k \in 1 .. Len(list) : list[k] \in Path
          BY <3>3, ElementOfSeq
        <4>2. cfg.count \in Nat
          BY <1>1 DEF Options
        <4>3. \A k \in 1 .. Len(list) : init_export(list[k], cfg.count) \in ExportOf(Path)
          BY <4>1, <4>2 DEF init_export, ExportOf
        <4>4. QED
          BY <3>4, <4>3
      <3>7. /\ new \in Seq(ExportOf(Path))
            /\ \A j \in DOMAIN new : Unasked(new[j]) /\ new[j].results = cfg.count
        <4>1. CASE cfg.format = "showmount"
          BY <2>1, <2>2, <4>1, TargetsTyped
        <4>2. CASE cfg.format # "showmount"
          <5>1. \A j \in DOMAIN list : /\ exports[j] = init_export(list[j], cfg.count)
                                       /\ Unasked(exports[j])
                                       /\ exports[j].results = cfg.count
            BY DEF init_export, Unasked
          <5>2. QED
            BY <3>6, <4>2, <5>1
        <4>3. QED
          BY <4>1, <4>2
      <3> HIDE DEF new
      <3>8. t \in MountTarget /\ t.ip = targets[i].ip /\ t.exports = new
        <4>1. targets[i] \in MountTarget
          BY <2>1, TargetsTyped
        <4>2. QED
          BY <3>7, <4>1 DEF MountTarget, TargetOf
      <3> HIDE DEF t
      <3>9. Unique(targets') /\ Replaced(targets, i, t, targets')
        BY <2>1, <3>2, <3>8, ReplaceTarget
      <3>10. ASSUME NEW k \in DOMAIN targets', NEW j \in DOMAIN targets'[k].exports
             PROVE  /\ Unasked(targets'[k].exports[j])
                    /\ targets'[k].exports[j].results = cfg.count
        BY <2>2, <3>7, <3>8, <3>9 DEF Replaced
      <3>11. outage' = outage
        BY <2>4 DEF ExportsAnswered
      <3>12. QED
        BY <1>1, <3>5, <3>9, <3>10, <3>11 DEF Replaced
    <2>5. QED
      BY <2>3, <2>4
  <1>6. TypeOK'
    BY <1>1, <1>2, <1>3, <1>4, <1>5 DEF TypeOK, MountTarget
  <1>7. OptionsInv'
    BY <1>1, <1>2 DEF OptionsInv, Agree
  <1>8. ListInv'
    BY <1>2, <1>4, <1>5 DEF ListInv, OneTargetPerAddress, Unique
  <1>9. (StartInv /\ TurnInv /\ MissedInv /\ TotalsInv /\ ExitInv /\ NothingStaysMounted)'
    <2>1. Fresh'
      BY <1>5 DEF Fresh
    <2>2. QED
      BY <1>1, <1>2, <1>4, <2>1, NothingHappened
  <1>10. QED
    BY <1>6, <1>7, <1>8, <1>9

\* The first round begins.
LEMMA LookupDoneStep ==
    ASSUME IInv, LookupDone
    PROVE  IInv'
  <1> USE DEF IInv
  <1>1. /\ ~cfg.fatal /\ cfg \in Options
        /\ round = 0 /\ missed = 0 /\ ok = 0 /\ mounted = {} /\ exit = "running" /\ Fresh
        /\ pc' = "main" /\ at' = <<1, 1>> /\ round' = 1
        /\ UNCHANGED <<cfg, arg, quitting, sent, ok, exit, mounted, outage, missed, stray>>
    BY DEF LookupDone, StartInv, MissedInv, OptionsInv, ExitInv, TypeOK, Fresh
  <1>2. targets' = targets \/ (targets' = <<>> /\ DOMAIN targets' = {})
    BY EmptySeq DEF LookupDone
  <1>3. /\ targets' \in Seq(MountTarget) /\ Unique(targets')
        /\ \A k \in DOMAIN targets' : \A j \in DOMAIN targets'[k].exports :
              /\ Unasked(targets'[k].exports[j])
              /\ targets'[k].exports[j].results = cfg.count
              /\ k \in Nat \ {0} /\ j \in Nat \ {0}
    <2>1. CASE targets' = targets
      <3>1. /\ targets \in Seq(MountTarget) /\ DOMAIN targets = 1 .. Len(targets)
            /\ \A k \in DOMAIN targets :
                  DOMAIN targets[k].exports = 1 .. Len(targets[k].exports)
        BY TargetsTyped
      <3>2. QED
        BY <1>1, <2>1, <3>1 DEF ListInv, OneTargetPerAddress, Unique, Fresh
    <2>2. CASE targets' = <<>> /\ DOMAIN targets' = {}
      BY <2>2, EmptySeq DEF Unique
    <2>3. QED
      BY <1>2, <2>1, <2>2
  <1>4. TypeOK'
    BY <1>1, <1>3 DEF TypeOK, MountTarget
  <1>5. OptionsInv'
    BY <1>1 DEF OptionsInv, Agree
  <1>6. ListInv'
    BY <1>1, <1>3 DEF ListInv, OneTargetPerAddress, Unique
  <1>7. StartInv'
    BY <1>1 DEF StartInv
  <1>8. TurnInv' /\ MissedInv'
    <2>1. \A k \in DOMAIN targets' : \A j \in DOMAIN targets'[k].exports :
             ~Before(k, j)' /\ targets'[k].exports[j].sent = 0
      BY <1>1, <1>3 DEF Before, Unasked
    <2>2. cfg.count \in Nat
      BY <1>1 DEF Options
    <2>3. TurnInv'
      BY <1>1, <2>1 DEF TurnInv
    <2>4. RoundsInBounds'
      BY <1>1, <2>2 DEF RoundsInBounds
    <2>5. QED
      BY <1>1, <2>1, <2>3, <2>4 DEF MissedInv
  <1>9. TotalsInv'
    BY <1>1, <1>3 DEF TotalsInv, Unasked
  <1>10. ExitInv'
    BY <1>1 DEF ExitInv
  <1>11. NothingStaysMounted'
    BY <1>1 DEF NothingStaysMounted
  <1>12. QED
    BY <1>4, <1>5, <1>6, <1>7, <1>8, <1>9, <1>10, <1>11

-----------------------------------------------------------------------------
(* The main loop.                                                          *)

\* Connecting or not, and disconnecting: nothing is counted, and whoever had
\* its turn had it before.
LEMMA ConnectionStep ==
    ASSUME IInv, Connect \/ ConnectFails \/ Disconnect
    PROVE  IInv'
  <1> USE DEF IInv
  <1>1. /\ pc = "main" /\ ~cfg.fatal /\ exit = "running" /\ round > 0
        /\ at[1] <= Len(targets) /\ at \in (Nat \ {0}) \X (Nat \ {0})
        /\ sent \in Nat /\ missed \in Nat /\ outage \in BOOLEAN /\ round \in Nat
    <2>1. pc = "main" /\ at[1] <= Len(targets)
      BY DEF Connect, ConnectFails, Disconnect, Polling
    <2>2. QED
      BY <2>1 DEF StartInv, OptionsInv, ExitInv, TypeOK
  <1>2. /\ UNCHANGED <<pc, cfg, arg, quitting, sent, ok, exit, mounted, round, stray>>
        /\ missed' \in Nat /\ missed' >= missed
        /\ outage' \in BOOLEAN /\ (~outage' => ~outage /\ ~ConnectFails)
        /\ ~ConnectFails => missed' = missed
    <2>1. UNCHANGED <<pc, cfg, arg, quitting, sent, ok, exit, mounted, round, stray>>
      BY DEF Connect, ConnectFails, Disconnect, Polling
    <2>2. CASE ConnectFails
      <3>1. missed' \in Nat /\ missed' >= missed
        BY <1>1, <2>2 DEF ConnectFails
      <3>2. outage' = TRUE
        BY <2>2 DEF ConnectFails
      <3>3. QED
        BY <2>1, <2>2, <3>1, <3>2
    <2>3. CASE ~ConnectFails
      <3>1. missed' = missed /\ outage' = outage
        BY <2>3 DEF Connect, Disconnect
      <3>2. QED
        BY <1>1, <2>1, <2>3, <3>1
    <2>4. QED
      BY <2>2, <2>3
  <1>3. at[1] \in DOMAIN targets
    BY <1>1, TargetsTyped
  <1>4. SameExports
    <2>1. targets \in Seq(MountTarget) /\ targets[at[1]] \in MountTarget /\ Unique(targets)
      BY <1>3, TargetsTyped DEF ListInv, OneTargetPerAddress, Unique
    <2>2. CASE ConnectFails
      BY <2>1, <2>2 DEF ConnectFails, SameExports
    <2>3. CASE Connect \/ Disconnect
      <3>1. targets[at[1]].client \in BOOLEAN
        BY <2>1 DEF MountTarget, TargetOf
      <3>2. PICK b \in BOOLEAN : targets' = [targets EXCEPT ![at[1]].client = b]
        BY <2>3, <3>1 DEF Connect, Disconnect
      <3> DEFINE t == [targets[at[1]] EXCEPT !.client = b]
      <3>3. /\ t \in MountTarget /\ t.ip = targets[at[1]].ip
            /\ t.exports = targets[at[1]].exports
        BY <2>1 DEF MountTarget, TargetOf
      <3>4. targets' = [targets EXCEPT ![at[1]] = t]
        BY <3>2
      <3> HIDE DEF t
      <3>5. Replaced(targets, at[1], t, targets')
        BY <1>3, <2>1, <3>3, <3>4, ReplaceTarget
      <3>6. QED
        BY <1>3, <3>3, <3>5 DEF Replaced, SameExports
    <2>4. QED
      BY <2>2, <2>3
  <1>5. at' \in (Nat \ {0}) \X (Nat \ {0})
    BY <1>1 DEF Connect, ConnectFails, Disconnect
  <1>6. TypeOK'
    BY <1>1, <1>2, <1>4, <1>5 DEF TypeOK, MountTarget, SameExports
  <1>7. OptionsInv'
    BY <1>1, <1>2 DEF OptionsInv, Agree
  <1>8. ListInv'
    BY <1>1, <1>2, <1>4 DEF ListInv, OneTargetPerAddress, SameExports
  <1>9. StartInv'
    BY <1>1, <1>2 DEF StartInv
  <1>10. ~ConnectFails => \A i \in DOMAIN targets : \A j \in DOMAIN targets[i].exports :
             Before(i, j)' <=> Before(i, j)
    <2>1. CASE Connect
      BY <2>1 DEF Connect, Before
    <2>2. CASE Disconnect
      <3>1. at' = <<at[1] + 1, 1>> /\ at[2] > Len(targets[at[1]].exports)
        BY <2>2 DEF Disconnect, Current
      <3>2. \A i \in DOMAIN targets : \A j \in DOMAIN targets[i].exports :
               i \in Nat /\ j \in Nat \ {0} /\ (i = at[1] => j < at[2])
        BY <1>1, <1>3, <3>1, TargetsTyped
      <3>3. QED
        BY <1>1, <3>1, <3>2 DEF Before
    <2>3. QED
      BY <2>1, <2>2
  <1>11. TurnInv'
    BY <1>1, <1>2, <1>4, <1>10 DEF TurnInv, SameExports
  <1>12. MissedInv'
    <2>1. RoundsInBounds'
      <3>1. cfg.count \in Nat
        BY DEF TypeOK, Options
      <3>2. QED
        BY <1>1, <1>2, <3>1 DEF MissedInv, RoundsInBounds
    <2>2. CASE ~ConnectFails
      BY <1>1, <1>2, <1>4, <1>10, <2>1, <2>2 DEF MissedInv, SameExports
    <2>3. CASE ConnectFails
      <3>1. /\ at[2] = 1 /\ at' = <<at[1] + 1, 1>> /\ targets' = targets /\ outage'
            /\ missed' = IF at[1] = 1 THEN missed + 1 ELSE missed
        BY <2>3 DEF ConnectFails
      <3>2. \A i \in DOMAIN targets : \A j \in DOMAIN targets[i].exports :
               /\ i \in Nat \ {0} /\ j \in Nat \ {0} /\ targets[i].exports[j].sent \in Nat
               /\ Before(i, j) => Before(i, j)'
        <4>1. \A i \in DOMAIN targets : \A j \in DOMAIN targets[i].exports :
                 i \in Nat \ {0} /\ j \in Nat \ {0} /\ targets[i].exports[j].sent \in Nat
          BY TargetsTyped
        <4>2. QED
          BY <1>1, <3>1, <4>1 DEF Before
      <3>3. \A i \in DOMAIN targets : \A j \in DOMAIN targets[i].exports :
               targets[i].exports[j].sent <= IF Before(i, j)' THEN round ELSE round - 1
        BY <1>1, <3>2 DEF MissedInv
      <3>4. Before(1, 1)' /\ (Before(1, 1) <=> at[1] # 1)
        BY <1>1, <3>1 DEF Before
      <3>5. 1 \in DOMAIN targets /\ 1 \in DOMAIN targets[1].exports =>
               targets[1].exports[1].sent + missed' = round
        BY <1>1, <3>1, <3>2, <3>4 DEF MissedInv
      <3>6. QED
        BY <1>1, <1>2, <2>1, <3>1, <3>3, <3>4, <3>5 DEF MissedInv
    <2>4. QED
      BY <2>2, <2>3
  <1>13. TotalsInv'
    BY <1>2, <1>4 DEF TotalsInv, SameExports
  <1>14. ExitInv'
    BY <1>1, <1>2 DEF ExitInv
  <1>15. NothingStaysMounted'
    BY <1>2 DEF NothingStaysMounted
  <1>16. QED
    BY <1>6, <1>7, <1>8, <1>9, <1>11, <1>12, <1>13, <1>14, <1>15

\* The export whose turn it is has one request more, and maybe one answer.
OneCounted(answered) ==
    /\ targets' \in Seq(MountTarget)
    /\ DOMAIN targets' = DOMAIN targets
    /\ \A i \in DOMAIN targets :
          /\ targets'[i].ip = targets[i].ip
          /\ DOMAIN targets'[i].exports = DOMAIN targets[i].exports
          /\ \A j \in DOMAIN targets[i].exports :
                /\ targets'[i].exports[j].results = targets[i].exports[j].results
                /\ targets'[i].exports[j].sent =
                      targets[i].exports[j].sent + (IF <<i, j>> = at THEN 1 ELSE 0)
                /\ targets'[i].exports[j].received =
                      targets[i].exports[j].received + (IF <<i, j>> = at THEN answered ELSE 0)

LEMMA CountRequestEffect ==
    ASSUME TypeOK, OneTargetPerAddress, Mounting, NEW answered \in {0, 1},
           CountRequest(answered)
    PROVE  /\ at[1] \in DOMAIN targets /\ at[2] \in DOMAIN targets[at[1]].exports
           /\ OneCounted(answered)
  <1> DEFINE i == at[1]
             j == at[2]
             e == [targets[i].exports[j] EXCEPT !.sent = @ + 1, !.received = @ + answered]
             es == [targets[i].exports EXCEPT ![j] = e]
             t == [targets[i] EXCEPT !.exports = es]
  <1>1. at \in (Nat \ {0}) \X (Nat \ {0})
    BY DEF TypeOK
  <1>2. i \in DOMAIN targets
    BY <1>1, TargetsTyped DEF Mounting, Polling
  <1>3. j \in DOMAIN targets[i].exports
    BY <1>1, <1>2, TargetsTyped DEF Mounting, Current
  <1>4. targets \in Seq(MountTarget) /\ Unique(targets) /\ targets[i] \in MountTarget
    BY <1>2, TargetsTyped DEF OneTargetPerAddress, Unique
  <1>5. /\ targets[i].exports \in Seq(ExportOf(Path))
        /\ DOMAIN targets[i].exports = 1 .. Len(targets[i].exports)
        /\ targets[i].exports[j] \in ExportOf(Path)
    BY <1>2, <1>3, TargetsTyped
  <1>6. targets' = [targets EXCEPT ![i] = t]
    BY <1>2, <1>3, <1>4, <1>5 DEF CountRequest
  <1>7. /\ e \in ExportOf(Path)
        /\ e.results = targets[i].exports[j].results
        /\ e.sent = targets[i].exports[j].sent + 1
        /\ e.received = targets[i].exports[j].received + answered
    <2> DEFINE x == targets[i].exports[j]
    <2>1. x \in ExportOf(Path)
      BY <1>5
    <2>2. e = [x EXCEPT !.sent = x.sent + 1, !.received = x.received + answered]
      OBVIOUS
    <2> HIDE DEF e, x
    <2>3. PICK s \in Nat, r \in Nat : s = x.sent + 1 /\ r = x.received + answered
      <3>1. x.sent \in Nat /\ x.received \in Nat
        BY <2>1 DEF ExportOf
      <3>2. QED
        BY <3>1
    <2>4. e = [x EXCEPT !.sent = s, !.received = r]
      BY <2>2, <2>3
    <2>5. e \in ExportOf(Path) /\ e.results = x.results /\ e.sent = s /\ e.received = r
      BY <2>1, <2>4 DEF ExportOf
    <2>6. QED
      BY <2>3, <2>5 DEF x
  <1> HIDE DEF e
  <1>8. /\ es \in Seq(ExportOf(Path)) /\ DOMAIN es = DOMAIN targets[i].exports
        /\ \A k \in DOMAIN es : es[k] = IF k = j THEN e ELSE targets[i].exports[k]
    BY <1>3, <1>5, <1>7, ExceptSeq
  <1> HIDE DEF es
  <1>9. t \in MountTarget /\ t.ip = targets[i].ip /\ t.exports = es
    BY <1>4, <1>8 DEF MountTarget, TargetOf
  <1> HIDE DEF t
  <1>10. Replaced(targets, i, t, targets')
    BY <1>2, <1>4, <1>6, <1>9, ReplaceTarget
  <1>11. ASSUME NEW k \in DOMAIN targets
         PROVE  /\ targets'[k].ip = targets[k].ip
                /\ DOMAIN targets'[k].exports = DOMAIN targets[k].exports
                /\ \A l \in DOMAIN targets[k].exports :
                      targets'[k].exports[l] =
                         IF k = i /\ l = j THEN e ELSE targets[k].exports[l]
    BY <1>2, <1>8, <1>9, <1>10 DEF Replaced
  <1>12. \A k, l : <<k, l>> = at <=> k = i /\ l = j
    BY <1>1
  <1>13. OneCounted(answered)
    <2>1. \A k \in DOMAIN targets : \A l \in DOMAIN targets[k].exports :
             /\ targets'[k].exports[l].results = targets[k].exports[l].results
             /\ targets'[k].exports[l].sent =
                   targets[k].exports[l].sent + (IF <<k, l>> = at THEN 1 ELSE 0)
             /\ targets'[k].exports[l].received =
                   targets[k].exports[l].received + (IF <<k, l>> = at THEN answered ELSE 0)
      <3> SUFFICES ASSUME NEW k \in DOMAIN targets, NEW l \in DOMAIN targets[k].exports
                   PROVE  /\ targets'[k].exports[l].results = targets[k].exports[l].results
                          /\ targets'[k].exports[l].sent =
                             targets[k].exports[l].sent + (IF <<k, l>> = at THEN 1 ELSE 0)
                          /\ targets'[k].exports[l].received =
                             targets[k].exports[l].received
                                + (IF <<k, l>> = at THEN answered ELSE 0)
        OBVIOUS
      <3>1. targets[k].exports[l].sent \in Nat /\ targets[k].exports[l].received \in Nat
        BY TargetsTyped
      <3>2. CASE k = i /\ l = j
        BY <1>7, <1>11, <1>12, <3>2
      <3>3. CASE ~(k = i /\ l = j)
        BY <1>11, <1>12, <3>1, <3>3
      <3>4. QED
        BY <3>2, <3>3
    <2>2. QED
      BY <1>10, <1>11, <2>1 DEF Replaced, OneCounted
  <1>14. QED
    BY <1>2, <1>3, <1>13

\* An answer of a server, with a filehandle or without.
LEMMA AnswerStep ==
    ASSUME IInv, Mounted \/ MountRefused
    PROVE  IInv'
  <1> USE DEF IInv
  <1>1. /\ Mounting /\ pc = "main" /\ ~cfg.fatal /\ exit = "running" /\ round > 0
        /\ at \in (Nat \ {0}) \X (Nat \ {0}) /\ round \in Nat
        /\ sent \in Nat /\ ok \in 0..sent /\ mounted \subseteq Addr \X Path
        /\ cfg \in Options
    <2>1. Mounting /\ pc = "main"
      BY DEF Mounted, MountRefused, Mounting, Polling
    <2>2. QED
      BY <2>1 DEF StartInv, OptionsInv, ExitInv, TypeOK
  <1>2. PICK answered \in {0, 1} : CountRequest(answered)
    BY DEF Mounted, MountRefused
  <1>3. UNCHANGED <<pc, cfg, arg, quitting, exit, round, outage, missed>>
    BY <1>1 DEF Mounted, MountRefused, Mounting, Polling
  <1>4. sent' = sent + 1 /\ ok' = ok + answered /\ at' = <<at[1], at[2] + 1>>
    BY <1>2 DEF CountRequest
  <1>5. /\ at[1] \in DOMAIN targets /\ at[2] \in DOMAIN targets[at[1]].exports
        /\ OneCounted(answered)
    BY <1>1, <1>2, CountRequestEffect DEF ListInv
  <1>6. /\ mounted' \subseteq Addr \X Path /\ stray' \in BOOLEAN
        /\ NothingStaysMounted'
    <2> DEFINE entry == <<Current.ip, Export.path>>
    <2>1. entry \in Addr \X Path
      BY <1>5, TargetsTyped DEF Current, Export
    <2>2. NothingStaysMounted /\ stray \in BOOLEAN
      BY DEF TypeOK
    <2> HIDE DEF entry
    <2>3. CASE MountRefused
      BY <1>1, <1>3, <2>2, <2>3 DEF MountRefused, NothingStaysMounted
    <2>4. CASE Mounted
      <3>1. PICK lost \in BOOLEAN :
               mounted' = AfterMount(entry, lost) /\ stray' = (stray \/ lost)
        BY <2>4 DEF Mounted, entry
      <3>2. mounted' \subseteq Addr \X Path
        BY <1>1, <2>1, <3>1 DEF AfterMount
      <3>3. SUFFICES ASSUME cfg.unmount, ~stray, ~lost
                     PROVE  mounted' = {}
        BY <1>3, <2>2, <3>1, <3>2 DEF NothingStaysMounted
      <3>4. mounted = {}
        BY <1>1, <2>2, <3>3 DEF NothingStaysMounted
      <3>5. QED
        BY <3>1, <3>3, <3>4 DEF AfterMount
    <2>5. QED
      BY <2>3, <2>4
  <1>7. TypeOK'
    <2>1. at' \in (Nat \ {0}) \X (Nat \ {0}) /\ sent' \in Nat /\ ok' \in 0 .. sent'
      BY <1>1, <1>4
    <2>2. QED
      BY <1>3, <1>5, <1>6, <2>1 DEF TypeOK, MountTarget, OneCounted
  <1>8. OptionsInv'
    BY <1>1, <1>3 DEF OptionsInv, Agree
  <1>9. ListInv'
    BY <1>1, <1>3, <1>5 DEF ListInv, OneTargetPerAddress, OneCounted
  <1>10. StartInv'
    BY <1>1, <1>3 DEF StartInv
  <1>11. TurnInv' /\ MissedInv'
    <2>1. ASSUME NEW i \in DOMAIN targets, NEW j \in DOMAIN targets[i].exports
          PROVE  /\ targets[i].exports[j].sent \in Nat
                 /\ Before(i, j)' <=> Before(i, j) \/ <<i, j>> = at
                 /\ <<i, j>> = at => ~Before(i, j)
                 /\ targets'[i].exports[j].sent =
                      targets[i].exports[j].sent + (IF <<i, j>> = at THEN 1 ELSE 0)
      <3>1. i \in Nat /\ j \in Nat /\ targets[i].exports[j].sent \in Nat
        BY TargetsTyped
      <3>2. <<i, j>> = at <=> i = at[1] /\ j = at[2]
        BY <1>1
      <3>3. Before(i, j)' <=> Before(i, j) \/ <<i, j>> = at
        BY <1>1, <1>4, <3>1, <3>2 DEF Before
      <3>4. <<i, j>> = at => ~Before(i, j)
        BY <1>1, <3>1, <3>2 DEF Before
      <3>5. QED
        BY <1>5, <3>1, <3>3, <3>4 DEF OneCounted
    <2>2. ~outage => \A i \in DOMAIN targets : \A j \in DOMAIN targets[i].exports :
             targets'[i].exports[j].sent = IF Before(i, j)' THEN round ELSE round - 1
      <3> SUFFICES ASSUME ~outage, NEW i \in DOMAIN targets,
                          NEW j \in DOMAIN targets[i].exports
                   PROVE  targets'[i].exports[j].sent
                              = IF Before(i, j)' THEN round ELSE round - 1
        OBVIOUS
      <3>1. targets[i].exports[j].sent = IF Before(i, j) THEN round ELSE round - 1
        BY <1>1 DEF TurnInv
      <3>2. QED
        BY <1>1, <2>1, <3>1
    <2>3. \A i \in DOMAIN targets : \A j \in DOMAIN targets[i].exports :
             targets'[i].exports[j].sent <= IF Before(i, j)' THEN round ELSE round - 1
      <3> SUFFICES ASSUME NEW i \in DOMAIN targets, NEW j \in DOMAIN targets[i].exports
                   PROVE  targets'[i].exports[j].sent
                              <= IF Before(i, j)' THEN round ELSE round - 1
        OBVIOUS
      <3>1. targets[i].exports[j].sent <= IF Before(i, j) THEN round ELSE round - 1
        BY <1>1 DEF MissedInv
      <3>2. QED
        BY <1>1, <2>1, <3>1
    <2>4. 1 \in DOMAIN targets /\ 1 \in DOMAIN targets[1].exports =>
             targets'[1].exports[1].sent + missed = IF Before(1, 1)' THEN round ELSE round - 1
      <3> SUFFICES ASSUME 1 \in DOMAIN targets, 1 \in DOMAIN targets[1].exports
                   PROVE  targets'[1].exports[1].sent + missed
                              = IF Before(1, 1)' THEN round ELSE round - 1
        OBVIOUS
      <3>1. /\ missed \in Nat
            /\ targets[1].exports[1].sent + missed = IF Before(1, 1) THEN round ELSE round - 1
        BY <1>1 DEF MissedInv, TypeOK
      <3>2. QED
        BY <1>1, <2>1, <3>1
    <2>5. /\ DOMAIN targets' = DOMAIN targets
          /\ \A i \in DOMAIN targets : DOMAIN targets'[i].exports = DOMAIN targets[i].exports
      BY <1>5 DEF OneCounted
    <2>6. TurnInv'
      BY <1>3, <2>2, <2>5 DEF TurnInv
    <2>7. RoundsInBounds'
      BY <1>3 DEF MissedInv, RoundsInBounds
    <2>8. QED
      BY <1>1, <1>3, <2>3, <2>4, <2>5, <2>6, <2>7 DEF MissedInv
  <1>12. TotalsInv'
    <2>1. ASSUME NEW i \in DOMAIN targets, NEW j \in DOMAIN targets[i].exports
          PROVE  /\ targets'[i].exports[j].received <= targets'[i].exports[j].sent
                 /\ sent' = ok' =>
                       targets'[i].exports[j].received = targets'[i].exports[j].sent
      <3>1. /\ targets[i].exports[j].sent \in Nat /\ targets[i].exports[j].received \in Nat
            /\ targets[i].exports[j].received <= targets[i].exports[j].sent
            /\ sent = ok => targets[i].exports[j].received = targets[i].exports[j].sent
        BY TargetsTyped DEF TotalsInv
      <3>2. /\ targets'[i].exports[j].sent =
                  targets[i].exports[j].sent + (IF <<i, j>> = at THEN 1 ELSE 0)
            /\ targets'[i].exports[j].received =
                  targets[i].exports[j].received + (IF <<i, j>> = at THEN answered ELSE 0)
        BY <1>5 DEF OneCounted
      <3>3. sent' = ok' => sent = ok /\ answered = 1
        BY <1>1, <1>4
      <3>4. QED
        BY <3>1, <3>2, <3>3
    <2>2. targets'[at[1]].exports[at[2]].sent > 0
      <3>1. at = <<at[1], at[2]>> /\ targets[at[1]].exports[at[2]].sent \in Nat
        BY <1>1, <1>5, TargetsTyped
      <3>2. targets'[at[1]].exports[at[2]].sent = targets[at[1]].exports[at[2]].sent + 1
        BY <1>5, <3>1 DEF OneCounted
      <3>3. QED
        BY <3>1, <3>2
    <2>3. /\ \A i \in DOMAIN targets' : i \in DOMAIN targets
          /\ \A i \in DOMAIN targets : DOMAIN targets'[i].exports = DOMAIN targets[i].exports
          /\ at[1] \in DOMAIN targets' /\ at[2] \in DOMAIN targets'[at[1]].exports
      BY <1>5 DEF OneCounted
    <2>4. QED
      BY <2>1, <2>2, <2>3 DEF TotalsInv
  <1>13. ExitInv'
    BY <1>1, <1>3 DEF ExitInv
  <1>14. QED
    BY <1>6, <1>7, <1>8, <1>9, <1>10, <1>11, <1>12, <1>13

\* A call that is not answered crashes the tool.
LEMMA LostStep ==
    ASSUME IInv, MountLost
    PROVE  IInv'
  <1> USE DEF IInv
  <1>1. /\ pc = "main" /\ ~cfg.fatal /\ round > 0 /\ Mounting
        /\ at[1] \in DOMAIN targets /\ at[2] \in DOMAIN targets[at[1]].exports
        /\ mounted \subseteq Addr \X Path
    <2>1. Mounting /\ pc = "main" /\ at \in (Nat \ {0}) \X (Nat \ {0})
      BY DEF MountLost, Mounting, Polling, TypeOK
    <2>2. at[1] \in DOMAIN targets
      BY <2>1, TargetsTyped DEF Mounting, Polling
    <2>3. at[2] \in DOMAIN targets[at[1]].exports
      BY <2>1, <2>2, TargetsTyped DEF Mounting, Current
    <2>4. QED
      BY <2>1, <2>2, <2>3 DEF StartInv, OptionsInv, TypeOK
  <1>2. /\ pc' = "ended" /\ exit' = "crashed"
        /\ UNCHANGED <<targets, cfg, arg, at, quitting, sent, ok, round, outage, missed, stray>>
    BY DEF MountLost, End, Mounting, Polling
  <1>3. mounted' \subseteq Addr \X Path
    <2>1. <<Current.ip, Export.path>> \in Addr \X Path
      BY <1>1, TargetsTyped DEF Current, Export
    <2>2. QED
      BY <1>1, <2>1 DEF MountLost
  <1>4. TypeOK'
    BY <1>2, <1>3 DEF TypeOK
  <1>5. OptionsInv'
    BY <1>1, <1>2 DEF OptionsInv, Agree
  <1>6. ListInv'
    BY <1>1, <1>2 DEF ListInv, OneTargetPerAddress
  <1>7. StartInv'
    BY <1>1, <1>2 DEF StartInv
  <1>8. TurnInv' /\ MissedInv'
    BY <1>2 DEF TurnInv, MissedInv, RoundsInBounds, Before
  <1>9. TotalsInv'
    BY <1>2 DEF TotalsInv
  <1>10. ExitInv'
    BY <1>2 DEF ExitInv
  <1>11. NothingStaysMounted'
    BY <1>2 DEF NothingStaysMounted
  <1>12. QED
    BY <1>3, <1>4, <1>5, <1>6, <1>7, <1>8, <1>9, <1>10, <1>11

\* Behind the last target everyone has had its turn.
LEMMA AllHadTheirTurn ==
    ASSUME IInv, round > 0, at[1] > Len(targets),
           NEW i \in DOMAIN targets, NEW j \in DOMAIN targets[i].exports
    PROVE  /\ targets[i].exports[j].sent <= round
           /\ ~outage => targets[i].exports[j].sent = round
           /\ i = 1 /\ j = 1 => targets[i].exports[j].sent + missed = round
  <1>1. at \in (Nat \ {0}) \X (Nat \ {0}) /\ i \in 1 .. Len(targets) /\ Len(targets) \in Nat
    BY TargetsTyped DEF IInv, TypeOK
  <1>2. Before(i, j)
    BY <1>1 DEF Before
  <1>3. QED
    BY <1>2 DEF IInv, TurnInv, MissedInv

\* A round is over.
LEMMA EndOfRoundStep ==
    ASSUME IInv, EndOfRound
    PROVE  IInv'
  <1> USE DEF IInv
  <1> DEFINE Counting == ~quitting /\ ~cfg.loop /\ cfg.count # 0
  <1>1. /\ pc = "main" /\ ~cfg.fatal /\ round > 0 /\ round \in Nat /\ exit = "running"
        /\ at[1] > Len(targets) /\ sent \in Nat /\ cfg.count \in Nat
        /\ missed \in Nat /\ (~outage => missed = 0)
    BY DEF EndOfRound, MissedInv, StartInv, OptionsInv, ExitInv, TypeOK, Options
  <1>2. UNCHANGED <<targets, cfg, arg, quitting, sent, ok, mounted, outage, missed, stray>>
    BY DEF EndOfRound
  <1>3. ~NoFirstExport => /\ targets[1].exports[1].sent + missed = round
                          /\ targets[1].exports[1].sent \in Nat
    <2>1. SUFFICES ASSUME ~NoFirstExport
                   PROVE  /\ targets[1].exports[1].sent + missed = round
                          /\ targets[1].exports[1].sent \in Nat
      OBVIOUS
    <2>2. targets \in Seq(MountTarget) /\ DOMAIN targets = 1 .. Len(targets)
      BY TargetsTyped
    <2>3. 1 \in DOMAIN targets
      BY <2>1, <2>2, EmptySeq DEF NoFirstExport
    <2>4. /\ targets[1].exports \in Seq(ExportOf(Path))
          /\ DOMAIN targets[1].exports = 1 .. Len(targets[1].exports)
      BY <2>3, TargetsTyped
    <2>5. 1 \in DOMAIN targets[1].exports
      BY <2>1, <2>4, EmptySeq DEF NoFirstExport
    <2>6. QED
      BY <1>1, <2>3, <2>5, AllHadTheirTurn, TargetsTyped
  <1>4. CASE pc' = pc
    <2>1. /\ at' = <<1, 1>> /\ round' = round + 1 /\ UNCHANGED <<pc, exit>>
          /\ ~cfg.loop => ~NoFirstExport /\ MoreToSend
      BY <1>1, <1>4 DEF EndOfRound, End
    <2>2. TypeOK'
      BY <1>1, <1>2, <2>1 DEF TypeOK
    <2>3. OptionsInv'
      BY <1>1, <1>2, <2>1 DEF OptionsInv, Agree
    <2>4. ListInv'
      BY <1>1, <1>2, <2>1 DEF ListInv, OneTargetPerAddress
    <2>5. StartInv'
      BY <1>1, <2>1 DEF StartInv
    <2>6. TurnInv' /\ MissedInv'
      <3>1. ASSUME NEW i \in DOMAIN targets, NEW j \in DOMAIN targets[i].exports
            PROVE  ~Before(i, j)'
        BY <2>1, TargetsTyped DEF Before
      <3>2. TurnInv'
        BY <1>1, <1>2, <2>1, <3>1, AllHadTheirTurn DEF TurnInv
      <3>3. RoundsInBounds'
        <4>1. ~cfg.loop => targets[1].exports[1].sent < cfg.count
          BY <2>1 DEF MoreToSend
        <4>2. QED
          BY <1>1, <1>2, <1>3, <2>1, <4>1 DEF RoundsInBounds
      <3>4. /\ round' > 0 /\ round' - 1 = round
            /\ targets' = targets /\ missed' = missed /\ outage' = outage
        BY <1>1, <1>2, <2>1
      <3>5. \A i \in DOMAIN targets' : \A j \in DOMAIN targets'[i].exports :
               targets'[i].exports[j].sent
                   <= IF Before(i, j)' THEN round' ELSE round' - 1
        BY <1>1, <3>1, <3>4, AllHadTheirTurn
      <3>6. 1 \in DOMAIN targets' /\ 1 \in DOMAIN targets'[1].exports =>
               targets'[1].exports[1].sent + missed'
                   = IF Before(1, 1)' THEN round' ELSE round' - 1
        BY <1>1, <3>1, <3>4, AllHadTheirTurn
      <3>7. QED
        BY <1>1, <3>2, <3>3, <3>4, <3>5, <3>6 DEF MissedInv
    <2>7. TotalsInv'
      BY <1>2 DEF TotalsInv
    <2>8. ExitInv'
      BY <1>1, <2>1 DEF ExitInv
    <2>9. NothingStaysMounted'
      BY <1>2, <2>1 DEF NothingStaysMounted
    <2>10. QED
      BY <2>2, <2>3, <2>4, <2>5, <2>6, <2>7, <2>8, <2>9
  <1>5. CASE pc' # pc
    <2>1. /\ pc' = "ended" /\ UNCHANGED <<at, round>>
          /\ exit' \in {"crashed", "success", "failure"}
          /\ exit' = "success" => Success
          /\ exit' # "crashed" /\ Counting => ~NoFirstExport /\ ~MoreToSend
      BY <1>1, <1>5 DEF EndOfRound, End
    <2>2. TypeOK'
      BY <1>1, <1>2, <2>1 DEF TypeOK
    <2>3. OptionsInv'
      BY <1>1, <1>2, <2>1 DEF OptionsInv, Agree
    <2>4. ListInv'
      BY <1>1, <1>2, <2>1 DEF ListInv, OneTargetPerAddress
    <2>5. StartInv'
      BY <1>1, <2>1 DEF StartInv
    <2>6. TurnInv' /\ MissedInv'
      BY <1>2, <2>1 DEF TurnInv, MissedInv, RoundsInBounds, Before
    <2>7. TotalsInv'
      BY <1>2 DEF TotalsInv
    <2>8. ExitInv'
      <3>1. exit' # "crashed" /\ Counting /\ ~outage => round >= cfg.count
        BY <1>1, <1>3, <2>1 DEF MoreToSend
      <3>2. QED
        BY <1>1, <1>2, <2>1, <3>1 DEF ExitInv, Success
    <2>9. NothingStaysMounted'
      BY <1>1, <1>2, <2>1 DEF NothingStaysMounted
    <2>10. QED
      BY <2>2, <2>3, <2>4, <2>5, <2>6, <2>7, <2>8, <2>9
  <1>6. QED
    BY <1>4, <1>5

\* Ctrl-c, and steps that change nothing.
LEMMA QuietStep ==
    ASSUME IInv, Interrupt \/ UNCHANGED vars
    PROVE  IInv'
  <1> USE DEF IInv
  <1>1. /\ UNCHANGED <<targets, pc, cfg, arg, at, sent, ok, exit, mounted, round,
                       outage, missed, stray>>
        /\ quitting' \in BOOLEAN
        /\ quitting' = quitting \/ pc = "main"
    BY DEF Interrupt, vars, TypeOK
  <1>2. TypeOK'
    BY <1>1 DEF TypeOK
  <1>3. OptionsInv'
    BY <1>1 DEF OptionsInv, Agree
  <1>4. ListInv'
    BY <1>1 DEF ListInv, OneTargetPerAddress
  <1>5. StartInv'
    BY <1>1 DEF StartInv
  <1>6. TurnInv' /\ MissedInv'
    BY <1>1 DEF TurnInv, MissedInv, RoundsInBounds, Before
  <1>7. TotalsInv'
    BY <1>1 DEF TotalsInv
  <1>8. ExitInv'
    BY <1>1 DEF ExitInv
  <1>9. NothingStaysMounted'
    BY <1>1 DEF NothingStaysMounted
  <1>10. QED
    BY <1>2, <1>3, <1>4, <1>5, <1>6, <1>7, <1>8, <1>9

-----------------------------------------------------------------------------
\* The types, the options, the list, the turns, the totals and the exit status
\* stay in line with each other whatever the servers answer or do not answer.
THEOREM MountIInvariant == Spec => []IInv
  <1>1. IInv /\ [Next]_vars => IInv'
    <2> SUFFICES ASSUME IInv, [Next]_vars PROVE IInv'
      OBVIOUS
    <2>1. CASE GetOption \/ EndOfOptions
      BY <2>1, OptionStep
    <2>2. CASE AddArgument \/ AddAddress \/ NoMoreArguments
      BY <2>2, ArgumentStep
    <2>3. CASE PathGiven \/ ExportsAnswered \/ ExportsLost \/ ExportsNoClient
      BY <2>3, LookupStep
    <2>4. CASE LookupDone
      BY <2>4, LookupDoneStep
    <2>5. CASE Connect \/ ConnectFails \/ Disconnect
      BY <2>5, ConnectionStep
    <2>6. CASE Mounted \/ MountRefused
      BY <2>6, AnswerStep
    <2>7. CASE MountLost
      BY <2>7, LostStep
    <2>8. CASE EndOfRound
      BY <2>8, EndOfRoundStep
    <2>9. CASE Interrupt \/ UNCHANGED vars
      BY <2>9, QuietStep
    <2>10. QED
      BY <2>1, <2>2, <2>3, <2>4, <2>5, <2>6, <2>7, <2>8, <2>9
      DEF Next, Process, Ended
  <1>2. QED
    BY <1>1, InitIInv, PTL DEF Spec

\* The exports of the list by their two numbers.
LEMMA ExportsAre ==
    ASSUME TypeOK, NEW e \in Exports
    PROVE  /\ e[1] \in DOMAIN targets /\ e[2] \in DOMAIN targets[e[1]].exports
           /\ e[1] \in Nat /\ e[2] \in Nat
           /\ ExportAt(e) = targets[e[1]].exports[e[2]]
           /\ ExportAt(e).sent \in Nat /\ ExportAt(e).received \in Nat
  <1>1. PICK i \in DOMAIN targets : e \in {i} \X DOMAIN targets[i].exports
    BY DEF Exports
  <1>2. e[1] = i /\ e[2] \in DOMAIN targets[i].exports
    BY <1>1
  <1>3. QED
    BY <1>2, TargetsTyped DEF ExportAt

\* nfsmount never asks an export out of turn as long as it can connect, goes a
\* round further than the count, and writes a place behind the array of -C, only
\* for each round the first target was missed in, never connects twice to a
\* server, and returns 0 only if every request was answered with a filehandle,
\* for every input and however often the servers cannot be reached.
THEOREM MountInvariant == Spec => []MountInv
  <1>1. IInv => MountInv
    <2> SUFFICES ASSUME IInv PROVE MountInv
      OBVIOUS
    <2> USE DEF IInv
    <2>1. TypeOK /\ OneTargetPerAddress
      BY DEF ListInv
    <2>2. OptionsAgree
      BY DEF OptionsInv, Agree, OptionsAgree
    <2>3. ASSUME ~outage, NEW e \in Exports
          PROVE  IF round = 0 THEN ExportAt(e).sent = 0
                 ELSE ExportAt(e).sent = IF Before(e[1], e[2]) THEN round ELSE round - 1
      <3>1. round \in Nat
        BY DEF TypeOK
      <3>2. QED
        BY <2>1, <2>3, <3>1, ExportsAre DEF StartInv, Unasked, TurnInv
    <2>4. ExportsInTurn
      <3> SUFFICES ASSUME ~outage, NEW d \in Exports, NEW e \in Exports,
                          NEW ahead, ahead = ExportAt(d).sent - ExportAt(e).sent
                   PROVE  /\ ahead <= 1
                          /\ ahead = 1 => d[1] < e[1] \/ (d[1] = e[1] /\ d[2] < e[2])
        BY DEF ExportsInTurn
      <3>1. /\ d[1] \in Nat /\ d[2] \in Nat /\ e[1] \in Nat /\ e[2] \in Nat
            /\ round \in Nat /\ at[1] \in Nat /\ at[2] \in Nat
        BY <2>1, ExportsAre DEF TypeOK
      <3>2. CASE round = 0
        <4>1. ExportAt(d).sent = 0 /\ ExportAt(e).sent = 0
          BY <2>3, <3>2
        <4>2. QED
          BY <4>1
      <3>3. CASE round # 0
        <4>1. /\ ExportAt(d).sent = IF Before(d[1], d[2]) THEN round ELSE round - 1
              /\ ExportAt(e).sent = IF Before(e[1], e[2]) THEN round ELSE round - 1
          BY <2>3, <3>3
        <4>2. ahead <= 1 /\ (ahead = 1 => Before(d[1], d[2]) /\ ~Before(e[1], e[2]))
          BY <3>1, <4>1
        <4>3. QED
          BY <3>1, <4>2 DEF Before
      <3>4. QED
        BY <3>2, <3>3
    <2>5. ResultsInBounds
      <3> SUFFICES ASSUME cfg.format = "fping", NEW e \in Exports
                   PROVE  ExportAt(e).sent <= ExportAt(e).results + missed
        BY DEF ResultsInBounds
      <3>1. /\ e[1] \in DOMAIN targets /\ e[2] \in DOMAIN targets[e[1]].exports
            /\ ExportAt(e) = targets[e[1]].exports[e[2]]
        BY <2>1, ExportsAre
      <3>2. ExportAt(e).results = cfg.count
        BY <3>1 DEF ListInv
      <3>3. targets # <<>>
        BY <3>1
      <3>4. cfg.count # 0 /\ ~cfg.loop
        BY <3>3 DEF OptionsInv, Agree
      <3>5. /\ round \in Nat /\ cfg.count \in Nat /\ missed \in Nat
            /\ ExportAt(e).sent \in Nat
        BY <2>1, ExportsAre DEF TypeOK, Options
      <3>6. round <= cfg.count + missed
        BY <3>4 DEF MissedInv, RoundsInBounds
      <3>7. ExportAt(e).sent <= round
        <4>1. CASE round = 0
          BY <3>1, <4>1 DEF StartInv, Unasked
        <4>2. CASE round > 0
          BY <3>1, <3>5, <4>2 DEF MissedInv
        <4>3. QED
          BY <3>5, <4>1, <4>2
      <3>8. QED
        BY <3>2, <3>5, <3>6, <3>7
    <2>6. SuccessMeansMounted
      <3> SUFFICES ASSUME exit = "success" PROVE SuccessMeansMounted
        BY DEF SuccessMeansMounted
      <3>1. sent # 0 /\ sent = ok /\ sent \in Nat
        BY DEF ExitInv, TypeOK
      <3>2. PICK i \in DOMAIN targets : \E j \in DOMAIN targets[i].exports :
                                           targets[i].exports[j].sent > 0
        BY <3>1 DEF TotalsInv
      <3>3. PICK j \in DOMAIN targets[i].exports : targets[i].exports[j].sent > 0
        BY <3>2
      <3>4. <<i, j>> \in Exports /\ ExportAt(<<i, j>>).sent > 0
        BY <3>3 DEF Exports, ExportAt
      <3>5. \A e \in Exports : ExportAt(e).received = ExportAt(e).sent
        BY <2>1, <3>1, ExportsAre DEF TotalsInv
      <3>6. QED
        BY <3>4, <3>5 DEF SuccessMeansMounted
    <2>7. QED
      BY <2>1, <2>2, <2>4, <2>5, <2>6 DEF MountInv, MissedInv
  <1>2. QED
    BY <1>1, MountIInvariant, PTL

\* With -c or -C, and without an outage, every export of every target was
\* asked exactly as often as was told when the tool reports.
THEOREM MountsAreCounted == Spec => []CountIsExact
  <1>1. IInv => CountIsExact
    <2> SUFFICES ASSUME IInv, exit \in {"success", "failure"}, cfg.count # 0, ~cfg.loop,
                        ~quitting, ~outage, NEW e \in Exports
                 PROVE  ExportAt(e).sent = cfg.count
      BY DEF CountIsExact
    <2>1. /\ round > 0 /\ at[1] > Len(targets) /\ round >= cfg.count
          /\ round <= cfg.count /\ round \in Nat /\ cfg.count \in Nat
      BY DEF IInv, ExitInv, MissedInv, RoundsInBounds, TypeOK, Options
    <2>2. ExportAt(e).sent = round
      BY <2>1, ExportsAre, AllHadTheirTurn DEF IInv
    <2>3. QED
      BY <2>1, <2>2
  <1>2. QED
    BY <1>1, MountIInvariant, PTL

\* Unless -u is given, a UMNT was lost or the tool crashed, no server's list
\* of mounted clients has an entry that nfsmount left, at any time.
THEOREM UnmountsWhatItMounts == Spec => []NothingStaysMounted
  BY MountIInvariant, PTL DEF IInv

-----------------------------------------------------------------------------
(* The steps move on.                                                      *)

\* Where two tuples of six numbers differ first.
LEMMA FurtherBy ==
    ASSUME NEW a1, NEW a2, NEW a3, NEW a4, NEW a5, NEW a6,
           NEW b1, NEW b2, NEW b3, NEW b4, NEW b5, NEW b6,
           \/ a1 > b1
           \/ a1 = b1 /\ a2 > b2
           \/ a1 = b1 /\ a2 = b2 /\ a3 > b3
           \/ a1 = b1 /\ a2 = b2 /\ a3 = b3 /\ a4 > b4
           \/ a1 = b1 /\ a2 = b2 /\ a3 = b3 /\ a4 = b4 /\ a5 > b5
           \/ a1 = b1 /\ a2 = b2 /\ a3 = b3 /\ a4 = b4 /\ a5 = b5 /\ a6 > b6
    PROVE  Further(<<a1, a2, a3, a4, a5, a6>>, <<b1, b2, b3, b4, b5, b6>>)
  <1> DEFINE a == <<a1, a2, a3, a4, a5, a6>>
             b == <<b1, b2, b3, b4, b5, b6>>
  <1>1. DOMAIN b = 1 .. 6
    OBVIOUS
  <1>2. ASSUME NEW k \in 1 .. 6, a[k] > b[k], \A j \in 1 .. (k - 1) : a[j] = b[j]
        PROVE  Further(a, b)
    BY <1>1, <1>2 DEF Further
  <1>3. CASE a1 > b1
    <2>1. a[1] > b[1] /\ \A j \in 1 .. (1 - 1) : a[j] = b[j]
      BY <1>3
    <2>2. QED
      BY <1>2, <2>1
  <1>4. CASE a1 = b1 /\ a2 > b2
    <2>1. a[2] > b[2] /\ \A j \in 1 .. (2 - 1) : a[j] = b[j]
      BY <1>4
    <2>2. QED
      BY <1>2, <2>1
  <1>5. CASE a1 = b1 /\ a2 = b2 /\ a3 > b3
    <2>1. a[3] > b[3] /\ \A j \in 1 .. (3 - 1) : a[j] = b[j]
      BY <1>5
    <2>2. QED
      BY <1>2, <2>1
  <1>6. CASE a1 = b1 /\ a2 = b2 /\ a3 = b3 /\ a4 > b4
    <2>1. a[4] > b[4] /\ \A j \in 1 .. (4 - 1) : a[j] = b[j]
      BY <1>6
    <2>2. QED
      BY <1>2, <2>1
  <1>7. CASE a1 = b1 /\ a2 = b2 /\ a3 = b3 /\ a4 = b4 /\ a5 > b5
    <2>1. a[5] > b[5] /\ \A j \in 1 .. (5 - 1) : a[j] = b[j]
      BY <1>7
    <2>2. QED
      BY <1>2, <2>1
  <1>8. CASE a1 = b1 /\ a2 = b2 /\ a3 = b3 /\ a4 = b4 /\ a5 = b5 /\ a6 > b6
    <2>1. a[6] > b[6] /\ \A j \in 1 .. (6 - 1) : a[j] = b[j]
      BY <1>8
    <2>2. QED
      BY <1>2, <2>1
  <1>9. QED
    BY <1>3, <1>4, <1>5, <1>6, <1>7, <1>8

\* nfsmount never asks for the same thing twice in a round: whatever the
\* servers answer, each step comes to the next option, argument, target,
\* export or round.
THEOREM MountMovesOn == Spec => EveryStepMovesOn
  <1> DEFINE found == IF \/ pc = "addresses"
                         \/ pc = "main" /\ at[1] <= Len(targets) /\ Current.client
                      THEN 1 ELSE 0
  <1>1. ASSUME IInv, Process PROVE Further(Progress', Progress)
    <2>1. /\ at \in (Nat \ {0}) \X (Nat \ {0}) /\ round \in Nat /\ cfg \in Options
          /\ cfg.optind \in Nat
      BY <1>1 DEF IInv, TypeOK, Options
    <2>2. \/ Phase[pc'] > Phase[pc]
          \/ Phase[pc'] = Phase[pc] /\ round' > round
          \/ Phase[pc'] = Phase[pc] /\ round' = round /\ cfg'.optind > cfg.optind
          \/ Phase[pc'] = Phase[pc] /\ UNCHANGED <<round, cfg>> /\ at'[1] > at[1]
          \/ /\ Phase[pc'] = Phase[pc] /\ UNCHANGED <<round, cfg>> /\ at'[1] = at[1]
             /\ at'[2] > at[2]
          \/ Phase[pc'] = Phase[pc] /\ UNCHANGED <<round, cfg, at>> /\ found' > found
      <3>1. CASE GetOption
        <4>1. PICK o \in Option :
                 LET c == ParseOption(cfg, o)
                 IN /\ cfg' = [c EXCEPT !.optind = @ + 1]
                    /\ IF c.fatal THEN End("usage") ELSE UNCHANGED <<pc, exit>>
          BY <3>1 DEF GetOption
        <4> DEFINE c == ParseOption(cfg, o)
        <4>2. c \in Options /\ c.optind = cfg.optind
          BY <1>1, <2>1, ParseOptionAgrees, ParseKeepsIndex, <3>1 DEF IInv, OptionsInv, GetOption
        <4>3. cfg' = [c EXCEPT !.optind = @ + 1]
          BY <4>1
        <4> HIDE DEF c
        <4>4. cfg'.optind > cfg.optind
          BY <2>1, <4>2, <4>3 DEF Options
        <4>5. pc = "getopt" /\ pc' \in {"getopt", "ended"} /\ round' = round
          BY <3>1, <4>1 DEF GetOption, End
        <4>6. QED
          BY <4>4, <4>5 DEF Phase
      <3>2. CASE EndOfOptions
        <4>1. pc = "getopt" /\ pc' \in {"arguments", "ended"}
          BY <3>2 DEF EndOfOptions, End
        <4>2. QED
          BY <4>1 DEF Phase
      <3>3. CASE AddArgument
        <4>1. /\ pc = "arguments" /\ pc' \in {"addresses", "ended"}
              /\ UNCHANGED <<round, cfg, at>>
          BY <3>3 DEF AddArgument, End
        <4>2. found = 0 /\ (pc' = "addresses" => found' = 1)
          BY <4>1
        <4>3. QED
          BY <4>1, <4>2 DEF Phase
      <3>4. CASE AddAddress
        <4>1. /\ pc = "addresses" /\ pc' \in {"arguments", "addresses"}
              /\ UNCHANGED <<round, cfg>>
              /\ at' \in {<<at[1], at[2] + 1>>, <<at[1] + 1, 1>>}
          BY <3>4 DEF AddAddress
        <4>2. QED
          BY <2>1, <4>1 DEF Phase
      <3>5. CASE NoMoreArguments
        BY <3>5 DEF NoMoreArguments, Phase
      <3>6. CASE PathGiven \/ ExportsAnswered \/ ExportsLost \/ ExportsNoClient
        <4>1. /\ pc = "lookup" /\ pc' \in {"lookup", "ended"}
              /\ pc' = "ended" \/ at' = <<at[1] + 1, 1>>
              /\ UNCHANGED <<round, cfg>>
          BY <3>6 DEF PathGiven, ExportsAnswered, ExportsLost, ExportsNoClient, Looking, End
        <4>2. QED
          BY <2>1, <4>1 DEF Phase
      <3>7. CASE LookupDone
        BY <3>7 DEF LookupDone, Phase
      <3>8. CASE Connect
        <4>1. /\ pc = "main" /\ pc' = pc /\ at[1] <= Len(targets) /\ ~Current.client
              /\ UNCHANGED <<round, cfg, at>>
              /\ targets' = [targets EXCEPT ![at[1]].client = TRUE]
          BY <3>8 DEF Connect, Polling
        <4>2. Len(targets') = Len(targets) /\ targets'[at[1]].client = TRUE
          <5>1. /\ targets \in Seq(MountTarget) /\ DOMAIN targets = 1 .. Len(targets)
                /\ Len(targets) \in Nat /\ at[1] \in DOMAIN targets
            BY <1>1, <2>1, <4>1, TargetsTyped DEF IInv
          <5>2. targets[at[1]] \in MountTarget
            BY <5>1, ElementOfSeq
          <5>3. targets'[at[1]] = [targets[at[1]] EXCEPT !.client = TRUE]
            BY <4>1, <5>1
          <5>4. QED
            BY <4>1, <5>1, <5>2, <5>3 DEF MountTarget, TargetOf
        <4>3. found = 0 /\ found' = 1
          BY <4>1, <4>2 DEF Current
        <4>4. QED
          BY <4>1, <4>3
      <3>9. CASE ConnectFails \/ Disconnect
        <4>1. pc' = pc /\ at' = <<at[1] + 1, 1>> /\ UNCHANGED <<round, cfg>>
          BY <3>9 DEF ConnectFails, Disconnect, Polling
        <4>2. QED
          BY <2>1, <4>1
      <3>10. CASE Mounted \/ MountRefused
        <4>1. pc' = pc /\ at' = <<at[1], at[2] + 1>> /\ UNCHANGED <<round, cfg>>
          BY <3>10 DEF Mounted, MountRefused, Mounting, Polling, CountRequest
        <4>2. QED
          BY <2>1, <4>1
      <3>11. CASE MountLost
        BY <3>11 DEF MountLost, Mounting, Polling, End, Phase
      <3>12. CASE EndOfRound
        <4>1. /\ pc = "main"
              /\ pc' = "ended" \/ (pc' = pc /\ round' = round + 1)
          BY <3>12 DEF EndOfRound, End
        <4>2. QED
          BY <2>1, <4>1 DEF Phase
      <3>13. QED
        BY <1>1, <3>1, <3>2, <3>3, <3>4, <3>5, <3>6, <3>7, <3>8, <3>9, <3>10, <3>11,
           <3>12 DEF Process
    <2>3. /\ Progress = <<Phase[pc], round, cfg.optind, at[1], at[2], found>>
          /\ Progress' = <<Phase[pc'], round', cfg'.optind, at'[1], at'[2], found'>>
      BY DEF Progress
    <2> HIDE DEF found
    <2>4. QED
      BY <2>2, <2>3, FurtherBy
  <1>2. IInv /\ [Next]_vars => [Process => Further(Progress', Progress)]_vars
    BY <1>1
  <1>3. QED
    BY MountIInvariant, <1>2, PTL DEF Spec, EveryStepMovesOn
=============================================================================
