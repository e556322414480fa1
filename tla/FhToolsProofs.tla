--------------------------- MODULE FhToolsProofs ----------------------------
(***************************************************************************)
(* Proofs about nfsls, nfsdf, nfscat and nfslock, for any options, input,  *)
(* servers and sizes of files.                                             *)
(***************************************************************************)
EXTENDS FhTools, SequenceTheorems, TLAPS

\* The filehandle j of target i has had its turn in this round.
Before(i, j) == i < at[1] \/ (i = at[1] /\ j < at[2])

\* A filehandle as nfs_fh_list_new() makes it.
IsNew(f) ==
    /\ f.sent = 0 /\ f.received = 0 /\ f.avg = "zero"
    /\ f.path = f.given /\ f.name = NULL

-----------------------------------------------------------------------------
\* What getopt() accepts can be counted; -C makes room for its results.
OptionsInv ==
    /\ pc = "getopt" \/ cfg.fatal => targets = <<>>
    /\ cfg.fatal => pc = "ended"
    /\ tool = "nfsls" /\ ~cfg.fatal /\ cfg.format = "fping" =>
         /\ cfg.count # 0 /\ ~cfg.loop
         /\ pc # "getopt" => cfg.results = cfg.count

\* A target of the list has a filehandle, unless it was freed, and all make
\* room for the same number of results.
ListInv ==
    /\ OneTargetPerAddress
    /\ \A i \in DOMAIN targets :
         /\ ~targets[i].freed => targets[i].filehandles # <<>>
         /\ \A j \in DOMAIN targets[i].filehandles :
               targets[i].filehandles[j].results = cfg.results

\* Before the first round nothing is connected, asked, or written.
StartInv ==
    /\ pc \in {"getopt", "read"} => round = 0
    /\ pc = "walk" => round > 0
    /\ round = 0 =>
         /\ at = <<1, 1>> /\ sent = 0 /\ ok = 0 /\ ~quitting
         /\ offset = 0 /\ output = <<>> /\ failed = {} /\ nodename = 0
         /\ \A i \in DOMAIN targets :
              /\ ~targets[i].client
              /\ \A j \in DOMAIN targets[i].filehandles :
                    IsNew(targets[i].filehandles[j])

\* The walk stands at a target, or at one of its filehandles once it is
\* connected; it has passed targets with filehandles only.
WalkInv ==
    /\ at[2] > 1 => /\ at[1] \in DOMAIN targets
                    /\ at[2] \in DOMAIN targets[at[1]].filehandles
                    /\ targets[at[1]].client
    /\ \A i \in DOMAIN targets : i < at[1] => targets[i].filehandles # <<>>

\* nfsls and nfsdf asked each filehandle once in every round behind, and once
\* in this one if it has had its turn; the one a crash happened at stays out.
TurnInv ==
    Polls /\ round > 0 =>
        /\ \A i \in DOMAIN targets : \A j \in DOMAIN targets[i].filehandles :
              LET s == targets[i].filehandles[j].sent IN
              /\ s <= round
              /\ exit # "crashed" => s = IF Before(i, j) THEN round ELSE round - 1
        /\ cfg.count # 0 /\ ~cfg.loop => round <= cfg.count

\* nfslock may leave a target out, but asks the filehandles of one in turns.
LockInv ==
    tool = "nfslock" /\ round > 0 =>
        \A i \in DOMAIN targets : \A j, k \in DOMAIN targets[i].filehandles :
            LET s == targets[i].filehandles[j].sent
                r == targets[i].filehandles[k].sent
            IN /\ s <= IF Before(i, j) THEN round ELSE round - 1
               /\ Before(i, j) <=> Before(i, k) => s = r
               /\ Before(i, j) /\ ~Before(i, k) => s = r + 1

\* What the totals tell about the filehandles.
TotalsInv ==
    /\ ~Polls => ok = 0
    /\ \A i \in DOMAIN targets : \A j \in DOMAIN targets[i].filehandles :
          LET f == targets[i].filehandles[j] IN
          /\ f.received <= f.sent
          /\ tool = "nfsls" /\ sent = ok => f.received = f.sent
    /\ ok > 0 => \E i \in DOMAIN targets : \E j \in DOMAIN targets[i].filehandles :
                    targets[i].filehandles[j].sent > 0

\* What the exit status tells about the totals and the rounds.
ExitInv ==
    /\ exit # "running" => pc = "ended"
    /\ Polls /\ exit = "success" => sent # 0 /\ sent = ok
    /\ Reported =>
         /\ round > 0 /\ at[1] > Len(targets)
         /\ Polls /\ ~quitting /\ ~cfg.loop /\ cfg.count # 0 => round >= cfg.count

\* The mean and the name of a filehandle go with its counters.
FilehandleInv ==
    \A i \in DOMAIN targets : \A j \in DOMAIN targets[i].filehandles :
        LET f == targets[i].filehandles[j] IN
        /\ tool = "nfsls" =>
             /\ f.sent = 0 => f.avg = "zero"
             /\ f.sent > 0 /\ f.received = f.sent => f.avg = "real"
             /\ f.sent = 0 => f.path = f.given
             /\ f.sent = 1 /\ f.name # NULL => f.name = basename(f.given)
        /\ f.sent = 0 \/ tool # "nfsls" => f.name = NULL

\* In the first round of nfslock a target that is connected has been reached,
\* and has given its name if it is the current one.
NodeInv ==
    /\ tool # "nfslock" => nodename = 0 /\ sentAs = {}
    /\ round <= 1 =>
         /\ sentAs = {}
         /\ \A i \in DOMAIN targets :
               targets[i].client => i <= at[1] /\ (tool = "nfslock" /\ i = at[1] => nodename = i)

IInv ==
    /\ TypeOK
    /\ OptionsInv
    /\ ListInv
    /\ StartInv
    /\ WalkInv
    /\ TurnInv
    /\ LockInv
    /\ TotalsInv
    /\ ExitInv
    /\ FilehandleInv
    /\ NodeInv

-----------------------------------------------------------------------------
\* What nfscat has written: nothing behind the current file, and of that one
\* the blocks up to the offset.
CatInv ==
    /\ tool # "nfscat" => offset = 0 /\ output = <<>> /\ failed = {}
    /\ tool = "nfscat" => round <= 1
    /\ cfg.count # 0 => output = <<>>
    /\ WrittenInOrder
    /\ \A k \in DOMAIN output :
          \/ Before(output[k][1], output[k][2])
          \/ /\ output[k][1] = at[1] /\ output[k][2] = at[2]
             /\ output[k][3] <= offset
             /\ at[1] \in DOMAIN targets /\ targets[at[1]].client
             /\ k = Len(output) => output[k][3] = offset

\* The first file of a server is written from its first block on.
WholeInv ==
    tool = "nfscat" /\ cfg.count = 0 =>
        \A i \in DOMAIN targets :
            \/ <<i, 1>> \in failed
            \/ WrittenOf(<<i, 1>>) = 1 .. (IF Before(i, 1) THEN Size
                                           ELSE IF i = at[1] /\ targets[i].client THEN offset
                                           ELSE 0)

-----------------------------------------------------------------------------
(* The target list.                                                        *)

\* No two targets of a list have one address.
Unique(list) == \A i, k \in DOMAIN list : list[i].ip = list[k].ip => i = k

LEMMA EmptyDomain ==
    ASSUME NEW S, NEW s \in Seq(S)
    PROVE  s = <<>> <=> DOMAIN s = {}
  <1>1. DOMAIN s = 1 .. Len(s) /\ Len(s) \in Nat
    BY LenProperties
  <1>2. Len(s) = 0 <=> s = <<>>
    BY EmptySeq
  <1>3. DOMAIN s = {} <=> Len(s) = 0
    <2>1. Len(s) # 0 => 1 \in DOMAIN s
      BY <1>1
    <2>2. QED
      BY <1>1, <2>1
  <1>4. QED
    BY <1>2, <1>3

\* The search finds the target with the address, if there is one.
LEMMA FindTarget ==
    ASSUME NEW T, NEW list \in Seq(T), NEW a, Unique(list)
    PROVE  /\ find_target_by_ip(list, a) # 0 <=> \E i \in DOMAIN list : list[i].ip = a
           /\ find_target_by_ip(list, a) # 0 =>
                 /\ find_target_by_ip(list, a) \in DOMAIN list
                 /\ list[find_target_by_ip(list, a)].ip = a
  <1>1. CASE \E i \in DOMAIN list : list[i].ip = a
    <2> DEFINE P(i) == list[i].ip = a /\ \A k \in 1 .. (i - 1) : list[k].ip # a
    <2>1. PICK i \in DOMAIN list : list[i].ip = a
      BY <1>1
    <2>2. DOMAIN list = 1 .. Len(list) /\ Len(list) \in Nat
      BY LenProperties
    <2>3. P(i)
      BY <2>1, <2>2 DEF Unique
    <2>4. /\ (CHOOSE k \in DOMAIN list : P(k)) \in DOMAIN list
          /\ P(CHOOSE k \in DOMAIN list : P(k))
      BY <2>3
    <2>5. find_target_by_ip(list, a) = CHOOSE k \in DOMAIN list : P(k)
      BY <1>1 DEF find_target_by_ip
    <2>6. QED
      BY <1>1, <2>2, <2>4, <2>5
  <1>2. CASE ~\E i \in DOMAIN list : list[i].ip = a
    BY <1>2 DEF find_target_by_ip
  <1>3. QED
    BY <1>1, <1>2

\* made is list with a target for a, which is number i: it was there, or it is
\* a new one behind the others.
WithTargetFor(list, a, made, i) ==
    /\ made \in Seq(FhTarget) /\ Unique(made)
    /\ i \in DOMAIN made /\ made[i].ip = a
    /\ \A k \in DOMAIN list : k \in DOMAIN made /\ made[k] = list[k]
    /\ \A k \in DOMAIN made :
          \/ k \in DOMAIN list
          \/ k = i /\ made[k].filehandles = <<>> /\ ~made[k].client

LEMMA FindOrMakeTarget ==
    ASSUME NEW list \in Seq(FhTarget), NEW a \in Addr, NEW count \in Nat,
           Unique(list)
    PROVE  LET made == find_or_make_target(list, a, count)
           IN WithTargetFor(list, a, made, find_target_by_ip(made, a))
  <1> DEFINE made == find_or_make_target(list, a, count)
             i == find_target_by_ip(made, a)
  <1> SUFFICES WithTargetFor(list, a, made, i)
    OBVIOUS
  <1>0. made = find_or_make_target(list, a, count) /\ i = find_target_by_ip(made, a)
    OBVIOUS
  <1> HIDE DEF made, i
  <1>1. init_target(a, count) \in FhTarget
    BY EmptySeq DEF init_target, FhTarget, TargetOf
  <1>2. /\ init_target(a, count).ip = a /\ init_target(a, count).filehandles = <<>>
        /\ ~init_target(a, count).client
    BY DEF init_target
  <1>3. DOMAIN list = 1 .. Len(list) /\ Len(list) \in Nat
    BY LenProperties
  <1>4. CASE find_target_by_ip(list, a) # 0
    <2>1. made = list
      BY <1>0, <1>4 DEF find_or_make_target
    <2>2. QED
      BY <1>0, <1>4, <2>1, FindTarget DEF WithTargetFor
  <1>5. CASE find_target_by_ip(list, a) = 0
    <2>1. made = Append(list, init_target(a, count))
      BY <1>0, <1>5 DEF find_or_make_target
    <2>2. \A k \in DOMAIN list : list[k].ip # a
      BY <1>5, FindTarget
    <2>3. /\ made \in Seq(FhTarget) /\ Len(made) = Len(list) + 1
          /\ \A k \in 1 .. Len(list) : made[k] = list[k]
          /\ made[Len(list) + 1] = init_target(a, count)
      BY <1>1, <2>1, AppendProperties
    <2>4. DOMAIN made = 1 .. Len(list) + 1
      BY <2>3, LenProperties
    <2>5. \A k \in DOMAIN made : k \in DOMAIN list \/ k = Len(list) + 1
      BY <1>3, <2>4
    <2>6. Unique(made)
      BY <1>2, <1>3, <2>2, <2>3, <2>5 DEF Unique
    <2>7. Len(list) + 1 \in DOMAIN made
      BY <1>3, <2>4
    <2>8. i \in DOMAIN made /\ made[i].ip = a
      BY <1>0, <1>2, <2>3, <2>6, <2>7, FindTarget
    <2>9. i = Len(list) + 1
      BY <1>2, <2>3, <2>6, <2>7, <2>8 DEF Unique
    <2>10. \A k \in DOMAIN list : k \in DOMAIN made /\ made[k] = list[k]
      BY <1>3, <2>3, <2>4
    <2>11. QED
      BY <1>2, <2>3, <2>5, <2>6, <2>8, <2>9, <2>10 DEF WithTargetFor
  <1>6. QED
    BY <1>4, <1>5

\* new is list with t as number i.
Replaced(list, i, t, new) ==
    /\ new \in Seq(FhTarget)
    /\ DOMAIN new = DOMAIN list
    /\ \A k \in DOMAIN list : new[k] = IF k = i THEN t ELSE list[k]

\* Replacing one target by one with the same address keeps a list in order.
LEMMA ReplaceTarget ==
    ASSUME NEW list \in Seq(FhTarget), NEW i \in DOMAIN list, Unique(list),
           NEW t \in FhTarget, t.ip = list[i].ip
    PROVE  /\ Unique([list EXCEPT ![i] = t])
           /\ Replaced(list, i, t, [list EXCEPT ![i] = t])
  <1>1. DOMAIN list = 1 .. Len(list)
    BY LenProperties
  <1>2. /\ [list EXCEPT ![i] = t] \in Seq(FhTarget)
        /\ \A k \in 1 .. Len(list) :
              [list EXCEPT ![i] = t][k] = IF k = i THEN t ELSE list[k]
    BY <1>1, ExceptSeq
  <1>3. DOMAIN [list EXCEPT ![i] = t] = DOMAIN list
    OBVIOUS
  <1>4. \A k \in DOMAIN list : [list EXCEPT ![i] = t][k].ip = list[k].ip
    BY <1>1, <1>2
  <1>5. Unique([list EXCEPT ![i] = t])
    BY <1>3, <1>4 DEF Unique
  <1>6. QED
    BY <1>1, <1>2, <1>3, <1>5 DEF Replaced

\* new is list after a line: no target and no filehandle is gone, the one
\* filehandle there may be more is what the line says, and a target without
\* any was freed.
ReadIn(list, line, count, new) ==
    /\ new \in Seq(FhTarget) /\ Unique(new)
    /\ \A k \in DOMAIN list :
         /\ k \in DOMAIN new /\ new[k].ip = list[k].ip
         /\ \A j \in DOMAIN list[k].filehandles :
               /\ j \in DOMAIN new[k].filehandles
               /\ new[k].filehandles[j] = list[k].filehandles[j]
    /\ \A k \in DOMAIN new :
         /\ \/ k \in DOMAIN list /\ new[k] = list[k]
            \/ ~new[k].freed => new[k].filehandles # <<>>
         /\ new[k].client => k \in DOMAIN list /\ list[k].client
         /\ \A j \in DOMAIN new[k].filehandles :
               \/ /\ k \in DOMAIN list /\ j \in DOMAIN list[k].filehandles
                  /\ new[k].filehandles[j] = list[k].filehandles[j]
               \/ new[k].filehandles[j] = nfs_fh_list_new(line.path, line.kind, count)

\* What parse_fh() makes of the target that a line is for.
Filled(t, line, count, freed) ==
    LET named == IF line.host = NULL THEN t
                 ELSE [t EXCEPT !.name = line.host, !.display = line.host]
        filled == IF line.host = NULL \/ line.path = NULL THEN named
                  ELSE [named EXCEPT !.filehandles =
                      AddFilehandle(@, nfs_fh_list_new(line.path, line.kind, count))]
    IN [filled EXCEPT !.freed = freed]

\* One filehandle more, or as many as before.
LEMMA FilledTarget ==
    ASSUME NEW t \in FhTarget, NEW line \in Lines, NEW count \in Nat, NEW freed \in BOOLEAN
    PROVE  LET new == Filled(t, line, count, freed)
           IN /\ new \in FhTarget /\ new.ip = t.ip /\ new.client = t.client
              /\ new.freed = freed
              /\ new.filehandles = IF line.host = NULL \/ line.path = NULL THEN t.filehandles
                                   ELSE Append(t.filehandles, nfs_fh_list_new(line.path, line.kind, count))
  <1> DEFINE f == nfs_fh_list_new(line.path, line.kind, count)
             named == IF line.host = NULL THEN t
                      ELSE [t EXCEPT !.name = line.host, !.display = line.host]
             filled == IF line.host = NULL \/ line.path = NULL THEN named
                       ELSE [named EXCEPT !.filehandles = AddFilehandle(@, f)]
             new == [filled EXCEPT !.freed = freed]
  <1>0. Filled(t, line, count, freed) = new
    BY DEF Filled
  <1>1. /\ line.host \in Name \cup {NULL} /\ line.path \in PathOf(Name) \cup {NULL}
        /\ line.kind \in {"dir", "file"}
    BY FhToolAssumption
  <1>2. /\ named \in FhTarget /\ named.ip = t.ip /\ named.client = t.client
        /\ named.filehandles = t.filehandles
    BY <1>1 DEF FhTarget, TargetOf
  <1> HIDE DEF named
  <1>3. CASE line.host = NULL \/ line.path = NULL
    <2>1. filled = named
      BY <1>3
    <2> HIDE DEF filled
    <2>2. /\ new \in FhTarget /\ new.ip = t.ip /\ new.client = t.client
          /\ new.freed = freed /\ new.filehandles = t.filehandles
      BY <1>2, <2>1 DEF FhTarget, TargetOf
    <2>3. QED
      BY <1>0, <1>3, <2>2 DEF filled, named
  <1>4. CASE ~(line.host = NULL \/ line.path = NULL)
    <2>1. f \in FilehandleOf(Name)
      BY <1>1, <1>4 DEF nfs_fh_list_new, FilehandleOf
    <2>2. t.filehandles \in Seq(FilehandleOf(Name))
      BY DEF FhTarget, TargetOf
    <2>3. Append(t.filehandles, f) \in Seq(FilehandleOf(Name))
      BY <2>1, <2>2, AppendProperties
    <2>4. filled = [named EXCEPT !.filehandles = Append(t.filehandles, f)]
      BY <1>2, <1>4 DEF AddFilehandle
    <2> HIDE DEF filled, f
    <2>5. /\ new \in FhTarget /\ new.ip = t.ip /\ new.client = t.client
          /\ new.freed = freed /\ new.filehandles = Append(t.filehandles, f)
      BY <1>2, <2>3, <2>4 DEF FhTarget, TargetOf
    <2>6. QED
      BY <1>0, <1>4, <2>5 DEF filled, named, f
  <1>5. QED
    BY <1>3, <1>4

\* A freed target stays in the list only for a line that is not complete.
LEMMA ParsedEffect ==
    ASSUME NEW list \in Seq(FhTarget), Unique(list),
           NEW line \in Lines, line.ip \in Addr, NEW count \in Nat
    PROVE  ReadIn(list, line, count, Parsed(list, line, count))
  <1> DEFINE made == find_or_make_target(list, line.ip, count)
             i == find_target_by_ip(made, line.ip)
             f == nfs_fh_list_new(line.path, line.kind, count)
             complete == line.host # NULL /\ line.path # NULL /\ line.fh
             t == Filled(made[i], line, count, ~complete)
             new == Parsed(list, line, count)
  <1>1. new = [made EXCEPT ![i] = t]
    BY DEF Parsed, Filled
  <1>2. made = find_or_make_target(list, line.ip, count) /\ i = find_target_by_ip(made, line.ip)
    OBVIOUS
  <1>3. WithTargetFor(list, line.ip, made, i)
    BY FindOrMakeTarget
  <1>4. /\ made \in Seq(FhTarget) /\ Unique(made)
        /\ i \in DOMAIN made /\ made[i].ip = line.ip
        /\ \A k \in DOMAIN list : k \in DOMAIN made /\ made[k] = list[k]
        /\ \A k \in DOMAIN made :
              \/ k \in DOMAIN list
              \/ k = i /\ made[k].filehandles = <<>> /\ ~made[k].client
    BY <1>3 DEF WithTargetFor
  <1>5. made[i] \in FhTarget
    <2>1. DOMAIN made = 1 .. Len(made)
      BY <1>4, LenProperties
    <2>2. QED
      BY <1>4, <2>1, ElementOfSeq
  <1>6. /\ t \in FhTarget /\ t.ip = made[i].ip /\ t.client = made[i].client
        /\ t.freed = ~complete
        /\ t.filehandles = IF line.host = NULL \/ line.path = NULL THEN made[i].filehandles
                           ELSE Append(made[i].filehandles, f)
    <2>1. PICK freed \in BOOLEAN : freed = ~complete
      OBVIOUS
    <2>2. t = Filled(made[i], line, count, freed)
      BY <2>1
    <2> HIDE DEF t, made, i
    <2> HIDE DEF complete
    <2>3. PICK u \in FhTarget : u = made[i]
      BY <1>5
    <2>4. /\ Filled(u, line, count, freed) \in FhTarget
          /\ Filled(u, line, count, freed).ip = u.ip
          /\ Filled(u, line, count, freed).client = u.client
          /\ Filled(u, line, count, freed).freed = freed
          /\ Filled(u, line, count, freed).filehandles =
                IF line.host = NULL \/ line.path = NULL THEN u.filehandles
                ELSE Append(u.filehandles, f)
      BY FilledTarget
    <2>5. QED
      BY <2>1, <2>2, <2>3, <2>4
  <1>7. complete => line.host # NULL /\ line.path # NULL
    OBVIOUS
  <1> HIDE DEF made, i, f, t, complete, new
  <1>8. Unique(new) /\ Replaced(made, i, t, new)
    BY <1>1, <1>4, <1>6, ReplaceTarget
  <1>9. made[i].filehandles \in Seq(FilehandleOf(Name))
    BY <1>5 DEF FhTarget, TargetOf
  <1>10. f \in FilehandleOf(Name) \/ line.host = NULL \/ line.path = NULL
    <2>1. /\ line.path \in PathOf(Name) \cup {NULL} /\ line.kind \in {"dir", "file"}
      BY FhToolAssumption
    <2>2. QED
      BY <2>1 DEF f, nfs_fh_list_new, FilehandleOf
  <1>11. /\ \A j \in DOMAIN made[i].filehandles :
               /\ j \in DOMAIN t.filehandles
               /\ t.filehandles[j] = made[i].filehandles[j]
         /\ \A j \in DOMAIN t.filehandles :
               j \in DOMAIN made[i].filehandles \/ t.filehandles[j] = f
         /\ ~t.freed => t.filehandles # <<>>
    <2>1. CASE line.host = NULL \/ line.path = NULL
      BY <1>6, <1>7, <2>1
    <2>2. CASE ~(line.host = NULL \/ line.path = NULL)
      <3> DEFINE fs == made[i].filehandles
      <3>1. t.filehandles = Append(fs, f)
        BY <1>6, <2>2
      <3>2. fs \in Seq(FilehandleOf(Name)) /\ f \in FilehandleOf(Name)
        BY <1>9, <1>10, <2>2
      <3>3. /\ Append(fs, f) \in Seq(FilehandleOf(Name))
            /\ Len(Append(fs, f)) = Len(fs) + 1
            /\ \A j \in 1 .. Len(fs) : Append(fs, f)[j] = fs[j]
            /\ Append(fs, f)[Len(fs) + 1] = f
        BY <3>2, AppendProperties
      <3>4. /\ DOMAIN fs = 1 .. Len(fs) /\ Len(fs) \in Nat
            /\ DOMAIN Append(fs, f) = 1 .. Len(fs) + 1
        BY <3>2, <3>3, LenProperties
      <3>5. Append(fs, f) # <<>>
        BY <3>2, AppendProperties
      <3> HIDE DEF fs
      <3>6. /\ \A j \in DOMAIN fs : j \in DOMAIN Append(fs, f) /\ Append(fs, f)[j] = fs[j]
            /\ \A j \in DOMAIN Append(fs, f) : j \in DOMAIN fs \/ Append(fs, f)[j] = f
        BY <3>3, <3>4
      <3>7. QED
        BY <3>1, <3>5, <3>6 DEF fs
    <2>3. QED
      BY <2>1, <2>2
  <1>12. ASSUME NEW k \in DOMAIN list
         PROVE  /\ k \in DOMAIN new /\ new[k].ip = list[k].ip
                /\ \A j \in DOMAIN list[k].filehandles :
                      /\ j \in DOMAIN new[k].filehandles
                      /\ new[k].filehandles[j] = list[k].filehandles[j]
    <2>1. k \in DOMAIN made /\ made[k] = list[k] /\ k \in DOMAIN new
      BY <1>4, <1>8 DEF Replaced
    <2>2. CASE k = i
      BY <1>6, <1>8, <1>11, <2>1, <2>2 DEF Replaced
    <2>3. CASE k # i
      BY <1>8, <2>1, <2>3 DEF Replaced
    <2>4. QED
      BY <2>1, <2>2, <2>3
  <1>13. ASSUME NEW k \in DOMAIN new
         PROVE  /\ \/ k \in DOMAIN list /\ new[k] = list[k]
                   \/ ~new[k].freed => new[k].filehandles # <<>>
                /\ new[k].client => k \in DOMAIN list /\ list[k].client
                /\ \A j \in DOMAIN new[k].filehandles :
                      \/ /\ k \in DOMAIN list /\ j \in DOMAIN list[k].filehandles
                         /\ new[k].filehandles[j] = list[k].filehandles[j]
                      \/ new[k].filehandles[j] = f
    <2>1. k \in DOMAIN made
      BY <1>8 DEF Replaced
    <2>2. CASE k = i
      <3>1. new[k] = t
        BY <1>8, <2>1, <2>2 DEF Replaced
      <3>2. CASE k \in DOMAIN list
        <4>1. made[k] = list[k]
          BY <1>4, <3>2
        <4>2. \A j \in DOMAIN t.filehandles :
                 \/ j \in DOMAIN list[k].filehandles /\ t.filehandles[j] = list[k].filehandles[j]
                 \/ t.filehandles[j] = f
          BY <1>11, <2>2, <4>1
        <4>3. t.client => list[k].client
          BY <1>6, <2>2, <4>1
        <4>4. QED
          BY <1>11, <3>1, <3>2, <4>2, <4>3
      <3>3. CASE k \notin DOMAIN list
        <4>1. made[i].filehandles = <<>> /\ ~made[i].client
          BY <1>4, <2>1, <2>2, <3>3
        <4>2. \A j \in DOMAIN t.filehandles : t.filehandles[j] = f
          BY <1>11, <4>1, EmptySeq
        <4>3. QED
          BY <1>6, <1>11, <3>1, <4>1, <4>2
      <3>4. QED
        BY <3>2, <3>3
    <2>3. CASE k # i
      <3>1. new[k] = made[k] /\ k \in DOMAIN list /\ made[k] = list[k]
        BY <1>4, <1>8, <2>1, <2>3 DEF Replaced
      <3>2. QED
        BY <3>1
    <2>4. QED
      BY <2>2, <2>3
  <1>14. QED
    BY <1>8, <1>12, <1>13 DEF ReadIn, Replaced, new, f

-----------------------------------------------------------------------------
(* The options.                                                            *)

\* What getopt() lets through: with -C, nfsls has a count and does not loop.
Sensible(t, c) ==
    t = "nfsls" /\ ~c.fatal /\ c.format = "fping" => c.count # 0 /\ ~c.loop

LEMMA FatalOptions ==
    ASSUME NEW c \in Options
    PROVE  Fatal(c) \in Options /\ Fatal(c).fatal
  BY DEF Fatal, Options

LEMMA UnitOptions ==
    ASSUME NEW c \in Options, NEW unit \in {"BYTE", "HUMAN"}
    PROVE  /\ ParseUnit(c, unit) \in Options
           /\ ParseUnit(c, unit).fatal \/ (/\ ParseUnit(c, unit).format = c.format
                                           /\ ParseUnit(c, unit).count = c.count
                                           /\ ParseUnit(c, unit).loop = c.loop)
  <1>1. CASE c.prefix # "NONE"
    BY <1>1, FatalOptions DEF ParseUnit
  <1>2. CASE c.prefix = "NONE"
    BY <1>2 DEF ParseUnit, Options
  <1>3. QED
    BY <1>1, <1>2

LEMMA LsOptions ==
    ASSUME NEW c \in Options, Sensible("nfsls", c), ~c.fatal, NEW o \in LsOption
    PROVE  LsParseOption(c, o) \in Options /\ Sensible("nfsls", LsParseOption(c, o))
  <1> DEFINE d == LsParseOption(c, o)
             l == o.letter
  <1>1. l \in {"b", "d", "h", "l", "L", "c", "C"} /\ o.arg \in Nat
    <2>1. CASE o \in Flag({"b", "d", "h", "l", "L"})
      BY <2>1 DEF Flag
    <2>2. CASE o \in WithNumber({"c", "C"})
      BY <2>2, FhToolAssumption DEF WithNumber
    <2>3. QED
      BY <2>1, <2>2 DEF LsOption
  <1>2. CASE l \in {"b", "h"}
    <2>1. PICK unit \in {"BYTE", "HUMAN"} : d = ParseUnit(c, unit)
      BY <1>2 DEF LsParseOption
    <2> HIDE DEF d
    <2>2. d \in Options /\ (d.fatal \/ (d.format = c.format /\ d.count = c.count /\ d.loop = c.loop))
      BY <2>1, UnitOptions
    <2>3. QED
      BY <2>2 DEF Sensible, d
  <1>3. CASE l \in {"c", "C"}
    <2>1. CASE c.loop \/ o.arg = 0
      <3>1. d = Fatal(c)
        BY <1>3, <2>1 DEF LsParseOption
      <3>2. QED
        BY <3>1, FatalOptions DEF Sensible
    <2>2. CASE ~(c.loop \/ o.arg = 0)
      <3>1. PICK f \in {"unset", "ping", "fping", "longform", "json", "graphite"} :
               d = [c EXCEPT !.count = o.arg, !.format = f]
        <4>1. d = [c EXCEPT !.count = o.arg,
                      !.format = IF c.format = "unset"
                                 THEN (IF l = "c" THEN "ping" ELSE "fping")
                                 ELSE c.format]
          BY <1>3, <2>2 DEF LsParseOption
        <4>2. c.format \in {"unset", "ping", "fping", "longform", "json", "graphite"}
          BY DEF Options
        <4>3. QED
          BY <4>1, <4>2
      <3> HIDE DEF d
      <3>2. d \in Options /\ d.count = o.arg /\ ~d.loop
        BY <1>1, <2>2, <3>1 DEF Options
      <3>3. QED
        BY <2>2, <3>2 DEF Sensible, d
    <2>3. QED
      BY <2>1, <2>2
  <1>4. CASE l = "d"
    <2>1. d = [c EXCEPT !.listdir = TRUE]
      BY <1>4 DEF LsParseOption
    <2> HIDE DEF d
    <2>2. QED
      BY <2>1 DEF Sensible, Options, d
  <1>5. CASE l = "l"
    <2>1. d = [c EXCEPT !.format = "longform"]
      BY <1>5 DEF LsParseOption
    <2> HIDE DEF d
    <2>2. QED
      BY <2>1 DEF Sensible, Options, d
  <1>6. CASE l = "L"
    <2>1. CASE c.count # 0
      <3>1. d = Fatal(c)
        BY <1>6, <2>1 DEF LsParseOption
      <3>2. QED
        BY <3>1, FatalOptions DEF Sensible
    <2>2. CASE c.count = 0
      <3>1. d = [c EXCEPT !.loop = TRUE,
                    !.format = IF c.format = "unset" THEN "ping" ELSE c.format]
        BY <1>6, <2>2 DEF LsParseOption
      <3> HIDE DEF d
      <3>2. d \in Options /\ d.format # "fping"
        BY <2>2, <3>1 DEF Sensible, Options
      <3>3. QED
        BY <3>2 DEF Sensible, d
    <2>3. QED
      BY <2>1, <2>2
  <1>7. QED
    BY <1>1, <1>2, <1>3, <1>4, <1>5, <1>6

LEMMA DfOptions ==
    ASSUME NEW c \in Options, NEW o \in DfOption
    PROVE  DfParseOption(c, o) \in Options
  <1> DEFINE d == DfParseOption(c, o)
             l == o.letter
             format == IF c.format = "unset" THEN "ping" ELSE c.format
  <1>1. l \in {"b", "G", "h", "i", "l", "n", "c"} /\ o.arg \in Nat
    <2>1. CASE o \in Flag({"b", "G", "h", "i", "l", "n"})
      BY <2>1 DEF Flag
    <2>2. CASE o \in WithNumber({"c"})
      BY <2>2, FhToolAssumption DEF WithNumber
    <2>3. QED
      BY <2>1, <2>2 DEF DfOption
  <1>2. format \in {"unset", "ping", "fping", "longform", "json", "graphite"}
    BY DEF Options
  <1>3. CASE l = "i"
    BY <1>3 DEF DfParseOption
  <1>4. CASE l \in {"b", "h"}
    <2>1. PICK unit \in {"BYTE", "HUMAN"} : d = ParseUnit(c, unit)
      BY <1>4 DEF DfParseOption
    <2>2. QED
      BY <2>1, UnitOptions
  <1>5. CASE l = "c"
    <2>1. d = Fatal(c) \/ d = [c EXCEPT !.count = o.arg, !.format = format]
      BY <1>5 DEF DfParseOption
    <2>2. QED
      BY <1>1, <1>2, <2>1, FatalOptions DEF Options
  <1>6. CASE l = "G"
    <2>1. d = Fatal(c) \/ d = [c EXCEPT !.format = "graphite"]
      BY <1>6 DEF DfParseOption
    <2>2. QED
      BY <2>1, FatalOptions DEF Options
  <1>7. CASE l = "l"
    <2>1. d = Fatal(c) \/ d = [c EXCEPT !.loop = TRUE, !.format = format]
      BY <1>7 DEF DfParseOption
    <2>2. QED
      BY <1>2, <2>1, FatalOptions DEF Options
  <1>8. CASE l = "n"
    <2>1. d = [c EXCEPT !.header = TRUE]
      BY <1>8 DEF DfParseOption
    <2>2. QED
      BY <2>1 DEF Options
  <1>9. QED
    BY <1>1, <1>3, <1>4, <1>5, <1>6, <1>7, <1>8

LEMMA CatOptions ==
    ASSUME NEW c \in Options, NEW o \in CatOption
    PROVE  CatParseOption(c, o) \in Options
  <1> DEFINE d == CatParseOption(c, o)
  <1>1. o.letter \in {"b", "c", "H"} /\ o.arg \in Nat
    BY FhToolAssumption, NfsCatAssumption DEF CatOption, WithNumber, WithHertz
  <1>2. CASE o.letter = "b"
    <2>1. d = [c EXCEPT !.blocksize = o.arg]
      BY <1>2 DEF CatParseOption
    <2>2. QED
      BY <1>1, <2>1 DEF Options
  <1>3. CASE o.letter = "c"
    <2>1. d = Fatal(c) \/ d = [c EXCEPT !.count = o.arg]
      BY <1>3 DEF CatParseOption
    <2>2. QED
      BY <1>1, <2>1, FatalOptions DEF Options
  <1>4. CASE o.letter = "H"
    <2>1. d = [c EXCEPT !.hertz = o.arg]
      BY <1>4 DEF CatParseOption
    <2>2. QED
      BY <1>1, <2>1 DEF Options
  <1>5. QED
    BY <1>1, <1>2, <1>3, <1>4

LEMMA LockOptions ==
    ASSUME NEW c \in Options, NEW o \in LockOption
    PROVE  LockParseOption(c, o) \in Options
  <1> DEFINE d == LockParseOption(c, o)
  <1>1. o.letter \in {"l", "c", "H"} /\ o.arg \in Nat
    <2>1. CASE o \in Flag({"l"})
      BY <2>1 DEF Flag
    <2>2. CASE o \in WithNumber({"c"}) \cup WithHertz
      BY <2>2, FhToolAssumption DEF WithNumber, WithHertz
    <2>3. QED
      BY <2>1, <2>2 DEF LockOption
  <1>2. CASE o.letter = "l"
    <2>1. d = Fatal(c) \/ d = [c EXCEPT !.loop = TRUE]
      BY <1>2 DEF LockParseOption
    <2>2. QED
      BY <2>1, FatalOptions DEF Options
  <1>3. CASE o.letter = "c"
    <2>1. d = Fatal(c) \/ d = [c EXCEPT !.count = o.arg]
      BY <1>3 DEF LockParseOption
    <2>2. QED
      BY <1>1, <2>1, FatalOptions DEF Options
  <1>4. CASE o.letter = "H"
    <2>1. d = [c EXCEPT !.hertz = o.arg]
      BY <1>4 DEF LockParseOption
    <2>2. QED
      BY <1>1, <2>1 DEF Options
  <1>5. QED
    BY <1>1, <1>2, <1>3, <1>4

\* The defaults: nfsls makes room for the results it has been told to keep.
LEMMA DefaultOptions ==
    ASSUME NEW c \in Options, NEW t \in Tools, Sensible(t, c), ~c.fatal,
           NEW d, d = CASE t = "nfsls" -> LsDefaults(c)
                        [] t = "nfsdf" -> DfDefaults(c)
                        [] OTHER -> c
    PROVE  /\ d \in Options /\ ~d.fatal /\ Sensible(t, d)
           /\ t = "nfsls" /\ d.format = "fping" => d.results = d.count
  <1>1. CASE t = "nfsls"
    <2> DEFINE f == IF c.format = "unset" THEN "json" ELSE c.format
    <2>1. d = [c EXCEPT !.format = f,
                 !.prefix = IF c.prefix = "NONE" THEN "HUMAN" ELSE c.prefix,
                 !.results = IF f \in {"fping", "longform"} THEN c.count ELSE 0]
      BY <1>1 DEF LsDefaults
    <2>2. f \in {"unset", "ping", "fping", "longform", "json", "graphite"} /\ c.count \in Nat
      BY DEF Options
    <2>3. f = "fping" => c.format = "fping"
      OBVIOUS
    <2> HIDE DEF f
    <2>4. PICK p \in {"NONE", "BYTE", "HUMAN"}, r \in Nat :
             /\ d = [c EXCEPT !.format = f, !.prefix = p, !.results = r]
             /\ f = "fping" => r = c.count
      <3>1. c.prefix \in {"NONE", "BYTE", "HUMAN"}
        BY DEF Options
      <3>2. QED
        BY <2>1, <2>2, <3>1
    <2>5. /\ d \in Options /\ d.fatal = c.fatal /\ d.count = c.count /\ d.loop = c.loop
          /\ d.format = f /\ d.results = r
      BY <2>2, <2>4 DEF Options
    <2>6. QED
      BY <1>1, <2>3, <2>4, <2>5 DEF Sensible
  <1>2. CASE t = "nfsdf"
    <2>1. d = [c EXCEPT !.format = IF c.format = "unset" THEN "ping" ELSE c.format,
                        !.prefix = IF c.prefix = "NONE" THEN "HUMAN" ELSE c.prefix]
      BY <1>2 DEF DfDefaults
    <2>2. QED
      BY <1>2, <2>1 DEF Options, Sensible
  <1>3. CASE t \notin {"nfsls", "nfsdf"}
    BY <1>3
  <1>4. QED
    BY <1>1, <1>2, <1>3

-----------------------------------------------------------------------------
(* Steps before the first round.                                           *)

\* What the type invariant says of the list.
LEMMA TargetsTyped ==
    ASSUME TypeOK
    PROVE  /\ targets \in Seq(FhTarget)
           /\ DOMAIN targets = 1 .. Len(targets) /\ Len(targets) \in Nat
           /\ \A i \in DOMAIN targets :
                 /\ i \in Nat \ {0}
                 /\ targets[i] \in FhTarget
                 /\ targets[i].filehandles \in Seq(FilehandleOf(Name))
                 /\ DOMAIN targets[i].filehandles = 1 .. Len(targets[i].filehandles)
                 /\ Len(targets[i].filehandles) \in Nat
                 /\ \A j \in DOMAIN targets[i].filehandles :
                       /\ j \in Nat \ {0}
                       /\ targets[i].filehandles[j] \in FilehandleOf(Name)
                       /\ targets[i].filehandles[j].sent \in Nat
                       /\ targets[i].filehandles[j].received \in Nat
                       /\ targets[i].filehandles[j].results \in Nat
  <1>1. targets \in Seq(FhTarget)
    BY DEF TypeOK, FhTypeOK
  <1>2. DOMAIN targets = 1 .. Len(targets) /\ Len(targets) \in Nat
    BY <1>1, LenProperties
  <1>3. ASSUME NEW i \in DOMAIN targets
        PROVE  /\ i \in Nat \ {0}
               /\ targets[i] \in FhTarget
               /\ targets[i].filehandles \in Seq(FilehandleOf(Name))
    <2>1. targets[i] \in FhTarget
      BY <1>1, <1>2, ElementOfSeq
    <2>2. QED
      BY <1>2, <2>1 DEF FhTarget, TargetOf
  <1>4. ASSUME NEW i \in DOMAIN targets
        PROVE  /\ DOMAIN targets[i].filehandles = 1 .. Len(targets[i].filehandles)
               /\ Len(targets[i].filehandles) \in Nat
               /\ \A j \in DOMAIN targets[i].filehandles :
                     /\ j \in Nat \ {0}
                     /\ targets[i].filehandles[j] \in FilehandleOf(Name)
    <2>1. targets[i].filehandles \in Seq(FilehandleOf(Name))
      BY <1>3
    <2>2. DOMAIN targets[i].filehandles = 1 .. Len(targets[i].filehandles)
          /\ Len(targets[i].filehandles) \in Nat
      BY <2>1, LenProperties
    <2>3. QED
      BY <2>1, <2>2, ElementOfSeq
  <1>5. \A f \in FilehandleOf(Name) : f.sent \in Nat /\ f.received \in Nat /\ f.results \in Nat
    BY DEF FilehandleOf
  <1>6. QED
    BY <1>1, <1>2, <1>3, <1>4, <1>5

\* Nothing was connected to or asked.
Fresh ==
    \A i \in DOMAIN targets :
        /\ ~targets[i].client
        /\ \A j \in DOMAIN targets[i].filehandles : IsNew(targets[i].filehandles[j])

\* Before the first round most of the invariant says that nothing happened.
LEMMA NothingHappened ==
    ASSUME TypeOK', Fresh', pc' # "walk",
           round' = 0, at' = <<1, 1>>, sent' = 0, ok' = 0, ~quitting',
           offset' = 0, output' = <<>>, failed' = {}, nodename' = 0, sentAs' = {},
           exit' \in {"running", "usage", "crashed", "undefined", "killed"},
           exit' # "running" => pc' = "ended"
    PROVE  (/\ StartInv /\ WalkInv /\ TurnInv /\ LockInv /\ TotalsInv /\ ExitInv
            /\ FilehandleInv /\ NodeInv)'
  <1>1. StartInv'
    BY DEF StartInv, Fresh
  <1>2. WalkInv'
    <2>1. \A i \in DOMAIN targets' : i \in Nat \ {0}
      <3>1. targets' \in Seq(FhTarget)
        BY DEF TypeOK, FhTypeOK
      <3>2. DOMAIN targets' = 1 .. Len(targets')
        BY <3>1, LenProperties
      <3>3. QED
        BY <3>2
    <2>2. QED
      BY <2>1 DEF WalkInv
  <1>3. TurnInv' /\ LockInv'
    BY DEF TurnInv, LockInv
  <1>4. TotalsInv'
    BY DEF TotalsInv, Fresh, IsNew
  <1>5. ExitInv'
    BY DEF ExitInv, Reported
  <1>6. FilehandleInv'
    BY DEF FilehandleInv, Fresh, IsNew
  <1>7. NodeInv'
    BY DEF NodeInv, Fresh
  <1>8. QED
    BY <1>1, <1>2, <1>3, <1>4, <1>5, <1>6, <1>7

\* The initial state.
LEMMA InitIInv == Init => IInv
  <1> SUFFICES ASSUME Init PROVE IInv
    OBVIOUS
  <1> USE DEF Init, FhInit
  <1>1. targets = <<>> /\ DOMAIN targets = {}
    BY EmptySeq
  <1>2. TypeOK
    <2>1. targets \in Seq(FhTarget)
      BY <1>1, EmptySeq
    <2>2. cfg \in Options
      <3>1. PICK n \in Nat : n = IF tool = "nfslock" THEN 1 ELSE 0
        OBVIOUS
      <3>2. cfg = [NoOptions EXCEPT !.count = n]
        BY <3>1
      <3>3. NoOptions \in Options
        BY DEF NoOptions, Options
      <3>4. QED
        BY <3>2, <3>3 DEF Options
    <2>3. output \in Seq((Nat \ {0}) \X (Nat \ {0}) \X (1..Size))
      BY EmptySeq
    <2>4. /\ at \in (Nat \ {0}) \X (Nat \ {0}) /\ {lines, sent, round} \subseteq Nat
          /\ ok \in 0..sent
      OBVIOUS
    <2>5. offset \in 0..Size /\ status \in Stat \cup {0, NoAnswer} /\ nodename \in 0..Len(targets)
      BY <1>1, NfsCatAssumption
    <2>6. QED
      BY <2>1, <2>2, <2>3, <2>4, <2>5 DEF TypeOK, FhTypeOK
  <1>3. OptionsInv
    BY DEF OptionsInv, NoOptions
  <1>4. ListInv
    BY <1>1 DEF ListInv, OneTargetPerAddress
  <1>5. StartInv /\ WalkInv /\ TurnInv /\ LockInv /\ TotalsInv /\ ExitInv /\ FilehandleInv
    BY <1>1 DEF StartInv, WalkInv, TurnInv, LockInv, TotalsInv, ExitInv, Reported, FilehandleInv
  <1>6. NodeInv
    BY <1>1 DEF NodeInv
  <1>7. QED
    BY <1>2, <1>3, <1>4, <1>5, <1>6 DEF IInv
\* The options after a step of getopt().
NewOptions ==
    /\ cfg' \in Options /\ Sensible(tool, cfg')
    /\ pc' \in {"getopt", "read", "ended"}
    /\ exit' \in {"running", "usage", "crashed"}
    /\ exit' # "running" \/ cfg'.fatal => pc' = "ended"
    /\ tool = "nfsls" /\ ~cfg'.fatal /\ cfg'.format = "fping" /\ pc' # "getopt"
       => cfg'.results = cfg'.count

\* While the options are read there is no list.
LEMMA OptionStep ==
    ASSUME IInv, LsGetopt \/ DfGetopt \/ CatGetopt \/ LockGetopt,
           UNCHANGED <<catVars, lockVars>>
    PROVE  IInv'
  <1> USE DEF IInv
  <1>1. /\ pc = "getopt"
        /\ UNCHANGED <<targets, tool, lines, at, quitting, sent, ok, round, again>>
        /\ UNCHANGED <<offset, output, failed, status, nodename, sentAs>>
    BY DEF LsGetopt, DfGetopt, CatGetopt, LockGetopt, GetOption, EndOfOptions, catVars, lockVars
  <1>2. /\ targets = <<>> /\ DOMAIN targets = {} /\ ~cfg.fatal /\ cfg \in Options
        /\ tool \in Tools /\ Sensible(tool, cfg) /\ exit = "running"
        /\ round = 0 /\ at = <<1, 1>> /\ sent = 0 /\ ok = 0 /\ ~quitting
        /\ offset = 0 /\ output = <<>> /\ failed = {} /\ nodename = 0 /\ sentAs = {}
    <2>1. targets = <<>> /\ DOMAIN targets = {} /\ round = 0
      BY <1>1, EmptySeq DEF OptionsInv, StartInv
    <2>2. ~cfg.fatal /\ exit = "running" /\ Sensible(tool, cfg)
      BY <1>1 DEF OptionsInv, ExitInv, Sensible
    <2>3. at = <<1, 1>> /\ sent = 0 /\ ok = 0 /\ ~quitting
      BY <2>1 DEF StartInv
    <2>4. offset = 0 /\ output = <<>> /\ failed = {} /\ nodename = 0
      BY <2>1 DEF StartInv
    <2>5. sentAs = {}
      BY <2>1 DEF NodeInv
    <2>6. cfg \in Options /\ tool \in Tools
      BY DEF TypeOK, FhTypeOK
    <2>7. QED
      BY <2>1, <2>2, <2>3, <2>4, <2>5, <2>6
  <1>3. NewOptions
    <2>1. ASSUME NEW c \in Options, Sensible(tool, c), cfg' = [c EXCEPT !.optind = c.optind + 1],
                 IF c.fatal THEN End("usage") ELSE UNCHANGED <<pc, exit>>
          PROVE  NewOptions
      <3>1. PICK n \in Nat : n = c.optind + 1
        BY DEF Options
      <3>2. cfg' = [c EXCEPT !.optind = n]
        BY <2>1, <3>1
      <3>3. /\ cfg' \in Options /\ cfg'.fatal = c.fatal /\ cfg'.format = c.format
            /\ cfg'.count = c.count /\ cfg'.loop = c.loop
        BY <3>2 DEF Options
      <3>4. CASE c.fatal
        BY <2>1, <3>3, <3>4 DEF Sensible, End, NewOptions
      <3>5. CASE ~c.fatal
        BY <1>1, <1>2, <2>1, <3>3, <3>5 DEF Sensible, NewOptions
      <3>6. QED
        BY <3>4, <3>5
    <2>2. ASSUME NEW d, d = CASE tool = "nfsls" -> LsDefaults(cfg)
                              [] tool = "nfsdf" -> DfDefaults(cfg)
                              [] OTHER -> cfg,
                 cfg' = d,
                 IF cfg.hertz = 0 THEN End("crashed") ELSE pc' = "read" /\ UNCHANGED exit
          PROVE  NewOptions
      <3>1. /\ d \in Options /\ ~d.fatal /\ Sensible(tool, d)
            /\ tool = "nfsls" /\ d.format = "fping" => d.results = d.count
        BY <1>2, <2>2, DefaultOptions
      <3>2. QED
        BY <1>2, <2>2, <3>1 DEF End, NewOptions
    <2>3. CASE \/ GetOption("nfsls", {LsParseOption(cfg, o) : o \in LsOption})
               \/ GetOption("nfsdf", {DfParseOption(cfg, o) : o \in DfOption})
               \/ GetOption("nfscat", {CatParseOption(cfg, o) : o \in CatOption})
               \/ GetOption("nfslock", {LockParseOption(cfg, o) : o \in LockOption})
      <3>1. PICK c \in Options : /\ Sensible(tool, c)
                                 /\ cfg' = [c EXCEPT !.optind = c.optind + 1]
                                 /\ IF c.fatal THEN End("usage") ELSE UNCHANGED <<pc, exit>>
        <4>1. CASE GetOption("nfsls", {LsParseOption(cfg, o) : o \in LsOption})
          <5>1. PICK o \in LsOption :
                   LET c == LsParseOption(cfg, o)
                   IN /\ cfg' = [c EXCEPT !.optind = c.optind + 1]
                      /\ IF c.fatal THEN End("usage") ELSE UNCHANGED <<pc, exit>>
            BY <4>1 DEF GetOption
          <5>2. tool = "nfsls"
            BY <4>1 DEF GetOption
          <5>3. LsParseOption(cfg, o) \in Options /\ Sensible(tool, LsParseOption(cfg, o))
            BY <1>2, <5>2, LsOptions
          <5>4. QED
            BY <5>1, <5>3
        <4>2. CASE GetOption("nfsdf", {DfParseOption(cfg, o) : o \in DfOption})
          <5>1. PICK o \in DfOption :
                   LET c == DfParseOption(cfg, o)
                   IN /\ cfg' = [c EXCEPT !.optind = c.optind + 1]
                      /\ IF c.fatal THEN End("usage") ELSE UNCHANGED <<pc, exit>>
            BY <4>2 DEF GetOption
          <5>2. tool = "nfsdf"
            BY <4>2 DEF GetOption
          <5>3. DfParseOption(cfg, o) \in Options /\ Sensible(tool, DfParseOption(cfg, o))
            BY <1>2, <5>2, DfOptions DEF Sensible
          <5>4. QED
            BY <5>1, <5>3
        <4>3. CASE GetOption("nfscat", {CatParseOption(cfg, o) : o \in CatOption})
          <5>1. PICK o \in CatOption :
                   LET c == CatParseOption(cfg, o)
                   IN /\ cfg' = [c EXCEPT !.optind = c.optind + 1]
                      /\ IF c.fatal THEN End("usage") ELSE UNCHANGED <<pc, exit>>
            BY <4>3 DEF GetOption
          <5>2. tool = "nfscat"
            BY <4>3 DEF GetOption
          <5>3. CatParseOption(cfg, o) \in Options /\ Sensible(tool, CatParseOption(cfg, o))
            BY <1>2, <5>2, CatOptions DEF Sensible
          <5>4. QED
            BY <5>1, <5>3
        <4>4. CASE GetOption("nfslock", {LockParseOption(cfg, o) : o \in LockOption})
          <5>1. PICK o \in LockOption :
                   LET c == LockParseOption(cfg, o)
                   IN /\ cfg' = [c EXCEPT !.optind = c.optind + 1]
                      /\ IF c.fatal THEN End("usage") ELSE UNCHANGED <<pc, exit>>
            BY <4>4 DEF GetOption
          <5>2. tool = "nfslock"
            BY <4>4 DEF GetOption
          <5>3. LockParseOption(cfg, o) \in Options /\ Sensible(tool, LockParseOption(cfg, o))
            BY <1>2, <5>2, LockOptions DEF Sensible
          <5>4. QED
            BY <5>1, <5>3
        <4>5. QED
          BY <2>3, <4>1, <4>2, <4>3, <4>4
      <3>2. QED
        BY <2>1, <3>1
    <2>4. CASE \/ EndOfOptions("nfsls", LsDefaults(cfg))
               \/ EndOfOptions("nfsdf", DfDefaults(cfg))
               \/ EndOfOptions("nfscat", cfg)
               \/ EndOfOptions("nfslock", cfg)
      <3>1. cfg' = CASE tool = "nfsls" -> LsDefaults(cfg)
                     [] tool = "nfsdf" -> DfDefaults(cfg)
                     [] OTHER -> cfg
        BY <2>4 DEF EndOfOptions
      <3>2. IF cfg.hertz = 0 THEN End("crashed") ELSE pc' = "read" /\ UNCHANGED exit
        BY <2>4 DEF EndOfOptions
      <3>3. QED
        BY <2>2, <3>1, <3>2
    <2>5. QED
      BY <2>3, <2>4 DEF LsGetopt, DfGetopt, CatGetopt, LockGetopt
  <1>4. TypeOK'
    BY <1>1, <1>3 DEF NewOptions, TypeOK, FhTypeOK
  <1>5. OptionsInv'
    BY <1>1, <1>2, <1>3 DEF NewOptions, OptionsInv, Sensible
  <1>6. ListInv'
    BY <1>1, <1>2 DEF ListInv, OneTargetPerAddress
  <1>7. (/\ StartInv /\ WalkInv /\ TurnInv /\ LockInv /\ TotalsInv /\ ExitInv
         /\ FilehandleInv /\ NodeInv)'
    <2>1. Fresh'
      BY <1>1, <1>2 DEF Fresh
    <2>2. QED
      BY <1>1, <1>2, <1>3, <1>4, <2>1, NothingHappened DEF NewOptions
  <1>8. QED
    BY <1>4, <1>5, <1>6, <1>7

\* What a line of input does to the list, and to the tool.
LEMMA ReadEffect ==
    ASSUME IInv, ReadLine
    PROVE  /\ targets' = targets \/ \E line \in Lines : ReadIn(targets, line, cfg.results, targets')
           /\ \/ UNCHANGED <<pc, exit>>
              \/ pc' = "ended" /\ exit' = "undefined"
  <1>1. targets \in Seq(FhTarget) /\ Unique(targets) /\ cfg.results \in Nat
    BY TargetsTyped DEF IInv, ListInv, OneTargetPerAddress, Unique, TypeOK, FhTypeOK, Options
  <1>2. PICK line \in Lines :
           IF line.ip # NULL /\ ReadsFreed(targets, line.ip)
           THEN End("undefined") /\ UNCHANGED targets
           ELSE /\ targets' = parse_fh(targets, line, cfg.results)
                /\ UNCHANGED <<pc, exit>>
    BY DEF ReadLine
  <1>3. CASE line.ip # NULL /\ ReadsFreed(targets, line.ip)
    BY <1>2, <1>3 DEF End
  <1>4. CASE ~(line.ip # NULL /\ ReadsFreed(targets, line.ip))
    <2>1. targets' = parse_fh(targets, line, cfg.results) /\ UNCHANGED <<pc, exit>>
      BY <1>2, <1>4
    <2>2. CASE line.ip = NULL
      BY <2>1, <2>2 DEF parse_fh
    <2>3. CASE line.ip # NULL
      <3>1. line.ip \in Addr
        BY <2>3, FhToolAssumption
      <3>2. targets' = Parsed(targets, line, cfg.results)
        BY <2>1, <2>3 DEF parse_fh
      <3>3. ReadIn(targets, line, cfg.results, targets')
        BY <1>1, <3>1, <3>2, ParsedEffect
      <3>4. QED
        BY <2>1, <3>3
    <2>4. QED
      BY <2>2, <2>3
  <1>5. QED
    BY <1>3, <1>4

\* A line of input.
LEMMA ReadStep ==
    ASSUME IInv, ReadLine, UNCHANGED <<catVars, lockVars>>
    PROVE  IInv'
  <1> USE DEF IInv
  <1>1. /\ pc = "read"
        /\ UNCHANGED <<tool, cfg, at, quitting, sent, ok, round, again>>
        /\ UNCHANGED <<offset, output, failed, status, nodename, sentAs>>
        /\ lines' = lines + 1
    BY DEF ReadLine, catVars, lockVars
  <1>2. /\ ~cfg.fatal /\ cfg \in Options /\ exit = "running" /\ Fresh
        /\ round = 0 /\ at = <<1, 1>> /\ sent = 0 /\ ok = 0 /\ ~quitting
        /\ offset = 0 /\ output = <<>> /\ failed = {} /\ nodename = 0 /\ sentAs = {}
    <2>1. round = 0
      BY <1>1 DEF StartInv
    <2>2. ~cfg.fatal /\ exit = "running"
      BY <1>1 DEF OptionsInv, ExitInv
    <2>3. /\ at = <<1, 1>> /\ sent = 0 /\ ok = 0 /\ ~quitting
          /\ offset = 0 /\ output = <<>> /\ failed = {} /\ nodename = 0
      BY <2>1 DEF StartInv
    <2>4. Fresh
      BY <2>1 DEF StartInv, Fresh
    <2>5. sentAs = {} /\ cfg \in Options
      BY <2>1 DEF NodeInv, TypeOK, FhTypeOK
    <2>6. QED
      BY <2>1, <2>2, <2>3, <2>4, <2>5
  <1>3. targets \in Seq(FhTarget) /\ Unique(targets) /\ cfg.results \in Nat
    BY <1>2, TargetsTyped DEF ListInv, OneTargetPerAddress, Unique, Options
  <1>4. /\ targets' = targets \/ \E line \in Lines : ReadIn(targets, line, cfg.results, targets')
        /\ pc' \in {"read", "ended"} /\ exit' \in {"running", "undefined"}
        /\ exit' # "running" => pc' = "ended"
    BY <1>1, <1>2, ReadEffect DEF ReadLine
  <1>5. targets' \in Seq(FhTarget) /\ Unique(targets')
    BY <1>3, <1>4 DEF ReadIn
  <1>6. ASSUME NEW k \in DOMAIN targets'
        PROVE  /\ ~targets'[k].client
               /\ ~targets'[k].freed => targets'[k].filehandles # <<>>
               /\ \A j \in DOMAIN targets'[k].filehandles :
                     /\ IsNew(targets'[k].filehandles[j])
                     /\ targets'[k].filehandles[j].results = cfg.results
    <2>1. CASE targets' = targets
      BY <1>2, <2>1 DEF Fresh, ListInv
    <2>2. CASE targets' # targets
      <3>1. PICK line \in Lines : ReadIn(targets, line, cfg.results, targets')
        BY <1>4, <2>2
      <3>2. /\ \/ k \in DOMAIN targets /\ targets'[k] = targets[k]
               \/ ~targets'[k].freed => targets'[k].filehandles # <<>>
            /\ targets'[k].client => k \in DOMAIN targets /\ targets[k].client
            /\ \A j \in DOMAIN targets'[k].filehandles :
                  \/ /\ k \in DOMAIN targets /\ j \in DOMAIN targets[k].filehandles
                     /\ targets'[k].filehandles[j] = targets[k].filehandles[j]
                  \/ targets'[k].filehandles[j]
                        = nfs_fh_list_new(line.path, line.kind, cfg.results)
        BY <3>1 DEF ReadIn
      <3>3. /\ IsNew(nfs_fh_list_new(line.path, line.kind, cfg.results))
            /\ nfs_fh_list_new(line.path, line.kind, cfg.results).results = cfg.results
        BY DEF nfs_fh_list_new, IsNew
      <3>4. \A i \in DOMAIN targets :
               /\ ~targets[i].client
               /\ ~targets[i].freed => targets[i].filehandles # <<>>
               /\ \A j \in DOMAIN targets[i].filehandles :
                     /\ IsNew(targets[i].filehandles[j])
                     /\ targets[i].filehandles[j].results = cfg.results
        BY <1>2 DEF Fresh, ListInv
      <3>5. QED
        BY <3>2, <3>3, <3>4
    <2>3. QED
      BY <2>1, <2>2
  <1>7. TypeOK'
    <2>1. nodename' \in 0..Len(targets')
      BY <1>1, <1>2, <1>5, LenProperties
    <2>2. {lines', sent', round'} \subseteq Nat
      BY <1>1 DEF TypeOK, FhTypeOK
    <2>3. pc' \in {"getopt", "read", "walk", "ended"}
          /\ exit' \in {"running", "success", "failure", "returned", "usage",
                "killed", "crashed", "undefined"}
      BY <1>4
    <2>4. QED
      BY <1>1, <1>5, <2>1, <2>2, <2>3 DEF TypeOK, FhTypeOK
  <1>8. OptionsInv'
    BY <1>1, <1>2, <1>4 DEF OptionsInv
  <1>9. ListInv'
    BY <1>1, <1>5, <1>6 DEF ListInv, OneTargetPerAddress, Unique
  <1>10. (/\ StartInv /\ WalkInv /\ TurnInv /\ LockInv /\ TotalsInv /\ ExitInv
          /\ FilehandleInv /\ NodeInv)'
    <2>1. Fresh'
      BY <1>6 DEF Fresh
    <2>2. QED
      BY <1>1, <1>2, <1>4, <1>7, <2>1, NothingHappened
  <1>11. QED
    BY <1>7, <1>8, <1>9, <1>10

\* The first round begins.
LEMMA EndOfInputStep ==
    ASSUME IInv, EndOfInput, UNCHANGED <<catVars, lockVars>>
    PROVE  IInv'
  <1> USE DEF IInv
  <1>1. /\ pc = "read" /\ pc' = "walk" /\ round' = 1
        /\ UNCHANGED <<targets, tool, cfg, lines, at, quitting, sent, ok, again, exit>>
        /\ UNCHANGED <<offset, output, failed, status, nodename, sentAs>>
    BY DEF EndOfInput, catVars, lockVars
  <1>2. /\ round = 0 /\ at = <<1, 1>> /\ exit = "running" /\ ~cfg.fatal
        /\ \A i \in DOMAIN targets :
              /\ ~targets[i].client
              /\ \A j \in DOMAIN targets[i].filehandles :
                    IsNew(targets[i].filehandles[j])
    BY <1>1 DEF StartInv, ExitInv, OptionsInv
  <1>3. \A i \in DOMAIN targets : \A j \in DOMAIN targets[i].filehandles : ~Before(i, j)
    BY <1>2, TargetsTyped DEF Before
  <1>4. \A i \in DOMAIN targets : \A j \in DOMAIN targets[i].filehandles :
           targets[i].filehandles[j].sent = 0
    BY <1>2 DEF IsNew
  <1>5. TypeOK'
    BY <1>1 DEF TypeOK, FhTypeOK
  <1>6. OptionsInv'
    BY <1>1, <1>2 DEF OptionsInv
  <1>7. ListInv'
    BY <1>1 DEF ListInv, OneTargetPerAddress
  <1>8. StartInv'
    BY <1>1 DEF StartInv
  <1>9. WalkInv'
    BY <1>1 DEF WalkInv
  <1>10. TurnInv'
    <2>1. cfg.count \in Nat
      BY DEF TypeOK, FhTypeOK, Options
    <2>2. QED
      BY <1>1, <1>2, <1>3, <1>4, <2>1 DEF TurnInv, Polls, Before
  <1>11. LockInv'
    BY <1>1, <1>3, <1>4 DEF LockInv, Before
  <1>12. TotalsInv'
    BY <1>1 DEF TotalsInv, Polls
  <1>13. ExitInv'
    BY <1>1, <1>2 DEF ExitInv, Reported
  <1>14. FilehandleInv'
    BY <1>1 DEF FilehandleInv
  <1>15. NodeInv'
    BY <1>1, <1>2 DEF NodeInv
  <1>16. QED
    BY <1>5, <1>6, <1>7, <1>8, <1>9, <1>10, <1>11, <1>12, <1>13, <1>14, <1>15

\* The process is killed or crashes, sees nothing of a signal but a flag, or
\* gets an answer that brings nothing.
Stops ==
    /\ UNCHANGED <<targets, tool, cfg, lines, at, sent, ok, round>>
    /\ UNCHANGED <<catVars, lockVars>>
    /\ {quitting', again'} \subseteq BOOLEAN /\ (quitting => quitting')
    /\ quitting' = quitting \/ (pc = "walk" /\ pc' = pc /\ Polls)
    /\ \/ UNCHANGED <<pc, exit>>
       \/ /\ pc \in {"read", "walk"} /\ quitting' = quitting
          /\ pc' = "ended" /\ exit' \in {"killed", "crashed", "undefined"}

LEMMA StopStep ==
    ASSUME IInv, Stops
    PROVE  IInv'
  <1> USE DEF IInv
  <1>1. /\ UNCHANGED <<targets, tool, cfg, lines, at, sent, ok, round>>
        /\ UNCHANGED <<offset, output, failed, status, nodename, sentAs>>
        /\ {quitting', again'} \subseteq BOOLEAN
        /\ (quitting' = quitting \/ (pc = "walk" /\ pc' = pc))
        /\ \/ UNCHANGED <<pc, exit>>
           \/ /\ pc \in {"read", "walk"} /\ quitting' = quitting
              /\ pc' = "ended" /\ exit' \in {"killed", "crashed", "undefined"}
    BY DEF Stops, catVars, lockVars
  <1>2. pc \in {"read", "walk"} => ~cfg.fatal /\ exit = "running"
    BY DEF OptionsInv, ExitInv
  <1>3. TypeOK'
    <2>1. pc' \in {"getopt", "read", "walk", "ended"}
          /\ exit' \in {"running", "success", "failure", "returned", "usage",
                "killed", "crashed", "undefined"}
      BY <1>1 DEF TypeOK, FhTypeOK
    <2>2. QED
      BY <1>1, <2>1 DEF TypeOK, FhTypeOK
  <1>4. OptionsInv'
    BY <1>1, <1>2 DEF OptionsInv
  <1>5. ListInv'
    BY <1>1 DEF ListInv, OneTargetPerAddress
  <1>6. StartInv'
    BY <1>1 DEF StartInv
  <1>7. WalkInv'
    BY <1>1 DEF WalkInv
  <1>8. TurnInv'
    BY <1>1, <1>2 DEF TurnInv, Polls, Before
  <1>9. LockInv'
    BY <1>1 DEF LockInv, Before
  <1>10. TotalsInv'
    BY <1>1 DEF TotalsInv, Polls
  <1>11. ExitInv'
    BY <1>1, <1>2 DEF ExitInv, Reported, Polls
  <1>12. FilehandleInv'
    BY <1>1 DEF FilehandleInv
  <1>13. NodeInv'
    BY <1>1 DEF NodeInv
  <1>14. QED
    BY <1>3, <1>4, <1>5, <1>6, <1>7, <1>8, <1>9, <1>10, <1>11, <1>12, <1>13

-----------------------------------------------------------------------------
(* A target's turn.                                                        *)

\* The walk is at a target that can be read.
LEMMA AtTarget ==
    ASSUME IInv, NEW t, Walking(t), ~Current.freed
    PROVE  /\ at \in (Nat \ {0}) \X (Nat \ {0}) /\ at[1] \in DOMAIN targets
           /\ pc = "walk" /\ tool = t /\ exit = "running" /\ ~cfg.fatal /\ round > 0
           /\ targets[at[1]] \in FhTarget
           /\ at[2] \in DOMAIN targets[at[1]].filehandles
           /\ Current.client \/ at[2] = 1
           /\ cfg \in Options /\ {sent, round} \subseteq Nat /\ ok \in 0 .. sent
           /\ offset \in 0..Size
           /\ UNCHANGED <<tool, cfg, lines, quitting, round>>
  <1> USE DEF IInv
  <1>1. /\ at \in (Nat \ {0}) \X (Nat \ {0}) /\ pc = "walk" /\ at[1] <= Len(targets)
        /\ tool = t /\ cfg \in Options /\ {sent, round} \subseteq Nat /\ ok \in 0 .. sent
        /\ offset \in 0..Size
        /\ UNCHANGED <<tool, cfg, lines, quitting, round>>
    BY DEF Walking, TypeOK, FhTypeOK
  <1>2. at[1] \in DOMAIN targets /\ targets[at[1]] \in FhTarget
    BY <1>1, TargetsTyped
  <1>3. exit = "running" /\ ~cfg.fatal /\ round > 0
    BY <1>1 DEF ExitInv, OptionsInv, StartInv
  <1>4. targets[at[1]].filehandles # <<>>
    BY <1>2 DEF ListInv, Current
  <1>5. 1 \in DOMAIN targets[at[1]].filehandles
    <2>1. /\ targets[at[1]].filehandles \in Seq(FilehandleOf(Name))
          /\ DOMAIN targets[at[1]].filehandles = 1 .. Len(targets[at[1]].filehandles)
          /\ Len(targets[at[1]].filehandles) \in Nat
      BY <1>2, TargetsTyped
    <2>2. QED
      BY <1>4, <2>1, EmptySeq
  <1>6. at[2] > 1 => /\ at[2] \in DOMAIN targets[at[1]].filehandles
                     /\ targets[at[1]].client
    BY DEF WalkInv
  <1>7. at[2] = 1 \/ at[2] > 1
    BY <1>1
  <1>8. QED
    BY <1>1, <1>2, <1>3, <1>5, <1>6, <1>7 DEF Current

\* The current target is connected to.
Connected ==
    /\ targets' \in Seq(FhTarget)
    /\ DOMAIN targets' = DOMAIN targets
    /\ \A i \in DOMAIN targets :
          /\ targets'[i].ip = targets[i].ip /\ targets'[i].freed = targets[i].freed
          /\ targets'[i].filehandles = targets[i].filehandles
          /\ targets'[i].client <=> targets[i].client \/ i = at[1]

LEMMA ConnectEffect ==
    ASSUME IInv, NEW t, Connecting(t),
           targets' = [targets EXCEPT ![at[1]].client = TRUE]
    PROVE  Connected
  <1> DEFINE i == at[1]
             u == [targets[i] EXCEPT !.client = TRUE]
  <1>1. i \in DOMAIN targets /\ targets[i] \in FhTarget
    BY AtTarget DEF Connecting
  <1>2. targets \in Seq(FhTarget) /\ Unique(targets)
    BY TargetsTyped DEF IInv, ListInv, OneTargetPerAddress, Unique
  <1>3. targets' = [targets EXCEPT ![i] = u]
    BY <1>1
  <1>4. /\ u \in FhTarget /\ u.ip = targets[i].ip /\ u.freed = targets[i].freed
        /\ u.filehandles = targets[i].filehandles /\ u.client
    BY <1>1 DEF FhTarget, TargetOf
  <1> HIDE DEF u, i
  <1>5. Replaced(targets, i, u, targets')
    BY <1>1, <1>2, <1>3, <1>4, ReplaceTarget
  <1>6. QED
    BY <1>4, <1>5 DEF Replaced, Connected, i

\* A new connection changes nothing for the filehandles.
LEMMA ConnectStep ==
    ASSUME IInv,
           \/ Connect("nfsls") /\ UNCHANGED <<catVars, lockVars>>
           \/ Connect("nfsdf") /\ UNCHANGED <<catVars, lockVars>>
           \/ CatConnect /\ UNCHANGED lockVars
           \/ LockConnect /\ UNCHANGED catVars
    PROVE  IInv'
  <1> USE DEF IInv
  <1>0. PICK t \in Tools : Connecting(t) /\ targets' = [targets EXCEPT ![at[1]].client = TRUE]
    BY DEF Connect, CatConnect, LockConnect, Tools
  <1>1. /\ at \in (Nat \ {0}) \X (Nat \ {0}) /\ at[1] \in DOMAIN targets
        /\ pc = "walk" /\ tool = t /\ exit = "running" /\ ~cfg.fatal /\ round > 0
        /\ ~Current.client /\ at[2] = 1
        /\ UNCHANGED <<tool, cfg, lines, quitting, round, ok, again>>
        /\ Connected
    <2>1. Walking(t) /\ ~Current.freed /\ ~Current.client /\ UNCHANGED <<ok, again>>
      BY <1>0 DEF Connecting
    <2>2. Connected
      BY <1>0, ConnectEffect
    <2>3. QED
      BY <2>1, <2>2, AtTarget
  <1>2. /\ UNCHANGED <<at, pc, exit, output, failed, status, sentAs>>
        /\ sent' = IF tool = "nfscat" THEN 0 ELSE sent
        /\ offset' = IF tool = "nfscat" THEN 0 ELSE offset
        /\ nodename' = IF tool = "nfslock" THEN at[1] ELSE nodename
    <2>1. CASE Connect("nfsls") \/ Connect("nfsdf")
      <3>1. UNCHANGED <<catVars, lockVars>>
        BY <2>1 DEF CatConnect, LockConnect, Connect, Connecting, Walking
      <3>2. QED
        BY <2>1, <3>1 DEF Connect, Connecting, Walking, catVars, lockVars
    <2>2. CASE CatConnect
      <3>1. UNCHANGED lockVars
        BY <2>2 DEF CatConnect, LockConnect, Connect, Connecting, Walking
      <3>2. QED
        BY <2>2, <3>1 DEF CatConnect, Connecting, Walking, lockVars
    <2>3. CASE LockConnect
      <3>1. UNCHANGED catVars
        BY <2>3 DEF CatConnect, LockConnect, Connect, Connecting, Walking
      <3>2. QED
        BY <2>3, <3>1 DEF LockConnect, Connect, Connecting, Walking, catVars
    <2>4. QED
      BY <2>1, <2>2, <2>3
  <1>3. TypeOK'
    <2>1. /\ offset' \in 0..Size /\ {lines', sent', round'} \subseteq Nat
          /\ nodename' \in 0..Len(targets')
      <3>1. Len(targets') = Len(targets)
        <4>1. targets \in Seq(FhTarget) /\ targets' \in Seq(FhTarget) /\ DOMAIN targets' = DOMAIN targets
          BY <1>1, TargetsTyped DEF Connected
        <4>2. QED
          BY <4>1, LenProperties
      <3>2. at[1] \in 0..Len(targets)
        BY <1>1, TargetsTyped
      <3>3. QED
        BY <1>1, <1>2, <3>1, <3>2, NfsCatAssumption DEF TypeOK, FhTypeOK
    <2>2. ok' \in 0..sent'
      <3>1. tool = "nfscat" => ok = 0
        BY DEF TotalsInv, Polls
      <3>2. QED
        BY <1>1, <1>2, <3>1 DEF TypeOK, FhTypeOK
    <2>3. QED
      BY <1>1, <1>2, <2>1, <2>2 DEF TypeOK, FhTypeOK, Connected
  <1>4. OptionsInv'
    BY <1>1, <1>2 DEF OptionsInv
  <1>5. ListInv'
    BY <1>1 DEF ListInv, OneTargetPerAddress, Connected
  <1>6. StartInv'
    BY <1>1, <1>2 DEF StartInv
  <1>7. WalkInv'
    BY <1>1, <1>2 DEF WalkInv, Connected
  <1>8. TurnInv'
    BY <1>1, <1>2 DEF TurnInv, Polls, Before, Connected
  <1>9. LockInv'
    BY <1>1, <1>2 DEF LockInv, Before, Connected
  <1>10. TotalsInv'
    <2>1. tool = "nfsls" => sent' = sent
      BY <1>2
    <2>2. QED
      BY <1>1, <2>1 DEF TotalsInv, Polls, Connected
  <1>11. ExitInv'
    BY <1>1, <1>2 DEF ExitInv, Reported
  <1>12. FilehandleInv'
    BY <1>1 DEF FilehandleInv, Connected
  <1>13. NodeInv'
    <2>1. at[1] \in Nat
      BY <1>1
    <2>2. \A i \in DOMAIN targets : i \in Nat
      BY TargetsTyped
    <2>3. tool # "nfslock" => nodename' = nodename
      BY <1>2
    <2>4. QED
      BY <1>1, <1>2, <2>1, <2>2, <2>3 DEF NodeInv, Connected
  <1>14. QED
    BY <1>3, <1>4, <1>5, <1>6, <1>7, <1>8, <1>9, <1>10, <1>11, <1>12, <1>13

\* nfslock passes over a target it cannot connect to.
LEMMA LockNoClientStep ==
    ASSUME IInv, LockNoClient, UNCHANGED catVars
    PROVE  IInv'
  <1> USE DEF IInv
  <1>1. /\ at \in (Nat \ {0}) \X (Nat \ {0}) /\ at[1] \in DOMAIN targets
        /\ pc = "walk" /\ tool = "nfslock" /\ exit = "running" /\ ~cfg.fatal /\ round > 0
        /\ round \in Nat
        /\ ~targets[at[1]].client /\ at[2] = 1
        /\ at[2] \in DOMAIN targets[at[1]].filehandles
        /\ UNCHANGED <<tool, cfg, lines, quitting, round, ok, again>>
    <2>1. Walking("nfslock") /\ ~Current.freed /\ ~Current.client /\ UNCHANGED <<ok, again>>
      BY DEF LockNoClient, Connecting
    <2>2. QED
      BY <2>1, AtTarget DEF Current
  <1>2. /\ UNCHANGED <<targets, sent, pc, exit, offset, output, failed, status, nodename, sentAs>>
        /\ at' = <<at[1] + 1, 1>>
    BY DEF LockNoClient, catVars, lockVars
  <1>3. \A i \in DOMAIN targets : i \in Nat \ {0} /\ \A j \in DOMAIN targets[i].filehandles :
           /\ j \in Nat \ {0} /\ targets[i].filehandles[j].sent \in Nat
           /\ Before(i, j)' <=> (Before(i, j) \/ i = at[1])
           /\ Before(i, j) <=> i < at[1]
    BY <1>1, <1>2, TargetsTyped DEF Before
  <1>4. TypeOK'
    BY <1>1, <1>2 DEF TypeOK, FhTypeOK
  <1>5. OptionsInv'
    BY <1>1, <1>2 DEF OptionsInv
  <1>6. ListInv'
    BY <1>1, <1>2 DEF ListInv, OneTargetPerAddress
  <1>7. StartInv'
    BY <1>1, <1>2 DEF StartInv
  <1>8. WalkInv'
    <2>1. \A i \in DOMAIN targets : i < at[1] + 1 => i < at[1] \/ i = at[1]
      BY <1>1, <1>3
    <2>2. targets[at[1]].filehandles # <<>>
      BY <1>1, EmptySeq
    <2>3. QED
      BY <1>2, <2>1, <2>2 DEF WalkInv
  <1>9. TurnInv'
    BY <1>1 DEF TurnInv, Polls
  <1>10. LockInv'
    <2> SUFFICES ASSUME NEW i \in DOMAIN targets, NEW j \in DOMAIN targets[i].filehandles,
                        NEW k \in DOMAIN targets[i].filehandles
                 PROVE  LET s == targets[i].filehandles[j].sent
                            r == targets[i].filehandles[k].sent
                        IN /\ s <= IF Before(i, j)' THEN round ELSE round - 1
                           /\ Before(i, j)' <=> Before(i, k)' => s = r
                           /\ Before(i, j)' /\ ~Before(i, k)' => s = r + 1
      BY <1>1, <1>2 DEF LockInv
    <2>1. LET s == targets[i].filehandles[j].sent
              r == targets[i].filehandles[k].sent
          IN /\ s <= IF Before(i, j) THEN round ELSE round - 1
             /\ Before(i, j) <=> Before(i, k) => s = r
             /\ s \in Nat
      BY <1>1, TargetsTyped DEF LockInv
    <2>2. QED
      BY <1>1, <1>3, <2>1
  <1>11. TotalsInv'
    BY <1>1, <1>2 DEF TotalsInv, Polls
  <1>12. ExitInv'
    BY <1>1, <1>2 DEF ExitInv, Reported
  <1>13. FilehandleInv'
    BY <1>1, <1>2 DEF FilehandleInv
  <1>14. NodeInv'
    <2>1. round <= 1 => \A i \in DOMAIN targets : targets[i].client => i < at[1]
      BY <1>1, <1>3 DEF NodeInv
    <2>2. QED
      BY <1>1, <1>2, <1>3, <2>1 DEF NodeInv
  <1>15. QED
    BY <1>4, <1>5, <1>6, <1>7, <1>8, <1>9, <1>10, <1>11, <1>12, <1>13, <1>14

-----------------------------------------------------------------------------
(* A filehandle's turn.                                                    *)

\* The filehandle whose turn it is becomes f.
OneCalled(f) ==
    /\ targets' \in Seq(FhTarget)
    /\ DOMAIN targets' = DOMAIN targets
    /\ \A i \in DOMAIN targets :
          /\ targets'[i].ip = targets[i].ip /\ targets'[i].freed = targets[i].freed
          /\ targets'[i].client = targets[i].client
          /\ DOMAIN targets'[i].filehandles = DOMAIN targets[i].filehandles
          /\ \A j \in DOMAIN targets[i].filehandles :
                targets'[i].filehandles[j] =
                    IF i = at[1] /\ j = at[2] THEN f ELSE targets[i].filehandles[j]

LEMMA CallEffect ==
    ASSUME IInv, NEW t, Calling(t), NEW f \in FilehandleOf(Name),
           targets' = [targets EXCEPT ![at[1]].filehandles[at[2]] = f]
    PROVE  OneCalled(f)
  <1> DEFINE i == at[1]
             j == at[2]
             fs == [targets[i].filehandles EXCEPT ![j] = f]
             u == [targets[i] EXCEPT !.filehandles = fs]
  <1>1. i \in DOMAIN targets /\ targets[i] \in FhTarget /\ j \in DOMAIN targets[i].filehandles
    BY AtTarget DEF Calling
  <1>2. targets \in Seq(FhTarget) /\ Unique(targets)
    BY TargetsTyped DEF IInv, ListInv, OneTargetPerAddress, Unique
  <1>3. targets' = [targets EXCEPT ![i] = u]
    BY <1>1
  <1>4. /\ targets[i].filehandles \in Seq(FilehandleOf(Name))
        /\ DOMAIN targets[i].filehandles = 1 .. Len(targets[i].filehandles)
    BY <1>1, TargetsTyped DEF IInv
  <1>5. /\ fs \in Seq(FilehandleOf(Name)) /\ DOMAIN fs = DOMAIN targets[i].filehandles
        /\ \A k \in DOMAIN fs : fs[k] = IF k = j THEN f ELSE targets[i].filehandles[k]
    BY <1>1, <1>4, ExceptSeq
  <1> HIDE DEF fs
  <1>6. /\ u \in FhTarget /\ u.ip = targets[i].ip /\ u.freed = targets[i].freed
        /\ u.filehandles = fs /\ u.client = targets[i].client
    BY <1>1, <1>5 DEF FhTarget, TargetOf
  <1> HIDE DEF u
  <1>7. Replaced(targets, i, u, targets')
    <2>1. Replaced(targets, i, u, [targets EXCEPT ![i] = u])
      BY <1>1, <1>2, <1>6, ReplaceTarget
    <2>2. QED
      BY <1>3, <2>1
  <1>8. ASSUME NEW k \in DOMAIN targets
        PROVE  /\ targets'[k].ip = targets[k].ip /\ targets'[k].freed = targets[k].freed
               /\ targets'[k].client = targets[k].client
               /\ DOMAIN targets'[k].filehandles = DOMAIN targets[k].filehandles
               /\ \A l \in DOMAIN targets[k].filehandles :
                     targets'[k].filehandles[l] =
                        IF k = i /\ l = j THEN f ELSE targets[k].filehandles[l]
    <2>1. CASE k = i
      BY <1>5, <1>6, <1>7, <2>1 DEF Replaced
    <2>2. CASE k # i
      <3>1. targets'[k] = targets[k]
        BY <1>7, <2>2 DEF Replaced
      <3>2. QED
        BY <2>2, <3>1
    <2>3. QED
      BY <2>1, <2>2
  <1>9. QED
    BY <1>7, <1>8 DEF Replaced, OneCalled

\* The walk goes on behind the current filehandle.
LEMMA NextFilehandleEffect ==
    ASSUME IInv, NEW t, Calling(t), NextFilehandle
    PROVE  /\ at' \in (Nat \ {0}) \X (Nat \ {0})
           /\ \/ at'[1] = at[1] /\ at'[2] \in DOMAIN targets[at[1]].filehandles
              \/ at'[1] = at[1] + 1 /\ at'[2] = 1
           /\ \A i \in DOMAIN targets : \A j \in DOMAIN targets[i].filehandles :
                 Before(i, j)' <=> (Before(i, j) \/ (i = at[1] /\ j = at[2]))
  <1>1. /\ at \in (Nat \ {0}) \X (Nat \ {0}) /\ at[1] \in DOMAIN targets
        /\ at[2] \in DOMAIN targets[at[1]].filehandles
    BY AtTarget DEF Calling
  <1>2. /\ DOMAIN targets[at[1]].filehandles = 1 .. Len(targets[at[1]].filehandles)
        /\ Len(targets[at[1]].filehandles) \in Nat
    BY <1>1, TargetsTyped DEF IInv
  <1>3. at' = IF at[2] < Len(targets[at[1]].filehandles) THEN <<at[1], at[2] + 1>>
              ELSE <<at[1] + 1, 1>>
    BY DEF NextFilehandle, Current
  <1>4. \A i \in DOMAIN targets : \A j \in DOMAIN targets[i].filehandles :
           i \in Nat \ {0} /\ j \in Nat \ {0}
    BY TargetsTyped DEF IInv
  <1>5. CASE at[2] < Len(targets[at[1]].filehandles)
    <2>1. at'[1] = at[1] /\ at'[2] = at[2] + 1 /\ at' = <<at[1], at[2] + 1>>
      BY <1>3, <1>5
    <2>2. \A i \in DOMAIN targets : \A j \in DOMAIN targets[i].filehandles :
                 Before(i, j)' <=> (Before(i, j) \/ (i = at[1] /\ j = at[2]))
      BY <1>1, <1>4, <2>1 DEF Before
    <2>3. QED
      BY <1>1, <1>2, <1>5, <2>1, <2>2
  <1>6. CASE ~(at[2] < Len(targets[at[1]].filehandles))
    <2>1. at'[1] = at[1] + 1 /\ at'[2] = 1 /\ at' = <<at[1] + 1, 1>>
      BY <1>3, <1>6
    <2>2. at[2] = Len(targets[at[1]].filehandles)
      BY <1>1, <1>2, <1>6
    <2>3. \A i \in DOMAIN targets : \A j \in DOMAIN targets[i].filehandles :
             i = at[1] => j <= at[2]
      BY <1>2, <2>2
    <2>4. \A i \in DOMAIN targets : \A j \in DOMAIN targets[i].filehandles :
                 Before(i, j)' <=> (Before(i, j) \/ (i = at[1] /\ j = at[2]))
      BY <1>1, <1>4, <2>1, <2>3 DEF Before
    <2>5. QED
      BY <1>1, <2>1, <2>4
  <1>7. QED
    BY <1>5, <1>6

\* A call of the filehandle whose turn it is, which becomes f.  nfscat does not
\* count its calls there.
CallOf(f) ==
    /\ IInv
    /\ \E t \in Tools : Calling(t)
    /\ f \in FilehandleOf(Name) /\ OneCalled(f)
    /\ f.given = fh.given /\ f.results = fh.results
    /\ f.sent = fh.sent + 1 \/ (tool = "nfscat" /\ f = fh)
    /\ again' \in BOOLEAN
    /\ \/ NextFilehandle /\ UNCHANGED <<pc, exit>>
       \/ at' = at /\ End("crashed")
       \/ UNCHANGED <<at, pc, exit>>

\* What CallOf says, expanded.
LEMMA CallFacts ==
    ASSUME NEW f, CallOf(f)
    PROVE  /\ IInv /\ OneCalled(f)
           /\ at \in (Nat \ {0}) \X (Nat \ {0}) /\ at[1] \in DOMAIN targets
           /\ at[2] \in DOMAIN targets[at[1]].filehandles
           /\ fh = targets[at[1]].filehandles[at[2]]
           /\ pc = "walk" /\ exit = "running" /\ ~cfg.fatal /\ round \in Nat \ {0}
           /\ targets[at[1]].client
           /\ UNCHANGED <<tool, cfg, lines, quitting, round>>
           /\ f.given = fh.given /\ f.results = fh.results
           /\ f.sent = fh.sent + 1 \/ (tool = "nfscat" /\ f = fh)
           /\ again' \in BOOLEAN
           /\ fh \in FilehandleOf(Name) /\ fh.sent \in Nat /\ fh.received \in Nat
           /\ at' \in (Nat \ {0}) \X (Nat \ {0})
           /\ \/ /\ pc' = "walk" /\ exit' = "running"
                 /\ at' = at \/ NextFilehandle
              \/ pc' = "ended" /\ exit' = "crashed" /\ at' = at
           /\ \/ at' = at
              \/ at'[1] = at[1] /\ at'[2] \in DOMAIN targets[at[1]].filehandles
              \/ at'[1] = at[1] + 1 /\ at'[2] = 1
           /\ \/ at' = at
              \/ \A i \in DOMAIN targets : \A j \in DOMAIN targets[i].filehandles :
                    Before(i, j)' <=> (Before(i, j) \/ (i = at[1] /\ j = at[2]))
  <1>1. PICK t \in Tools : Calling(t)
    BY DEF CallOf
  <1>2. Walking(t) /\ ~Current.freed /\ Current.client
    BY <1>1 DEF Calling
  <1>3. /\ IInv /\ OneCalled(f)
        /\ at \in (Nat \ {0}) \X (Nat \ {0}) /\ at[1] \in DOMAIN targets
        /\ at[2] \in DOMAIN targets[at[1]].filehandles
        /\ fh = targets[at[1]].filehandles[at[2]]
        /\ pc = "walk" /\ exit = "running" /\ ~cfg.fatal /\ round \in Nat \ {0}
        /\ targets[at[1]].client
        /\ UNCHANGED <<tool, cfg, lines, quitting, round>>
    BY <1>2, AtTarget DEF CallOf, fh, Current
  <1>4. fh \in FilehandleOf(Name) /\ fh.sent \in Nat /\ fh.received \in Nat
    BY <1>3, TargetsTyped DEF IInv
  <1>5. /\ f.given = fh.given /\ f.results = fh.results /\ again' \in BOOLEAN
        /\ f.sent = fh.sent + 1 \/ (tool = "nfscat" /\ f = fh)
    BY DEF CallOf
  <1>6. CASE NextFilehandle /\ UNCHANGED <<pc, exit>>
    BY <1>1, <1>3, <1>4, <1>5, <1>6, NextFilehandleEffect
  <1>7. CASE at' = at /\ End("crashed")
    BY <1>3, <1>4, <1>5, <1>7 DEF End
  <1>8. CASE UNCHANGED <<at, pc, exit>>
    BY <1>3, <1>4, <1>5, <1>8
  <1>9. QED
    BY <1>6, <1>7, <1>8 DEF CallOf

\* A call leaves the options, the list and the way through it in order.
LEMMA CallKeeps ==
    ASSUME NEW f, CallOf(f)
    PROVE  OptionsInv' /\ ListInv' /\ StartInv' /\ WalkInv' /\ ExitInv'
  <1>1. /\ OptionsInv /\ ListInv /\ StartInv /\ WalkInv
    BY CallFacts DEF IInv
  <1>2. OptionsInv'
    <2>1. tool' = tool /\ cfg' = cfg /\ ~cfg.fatal /\ pc = "walk" /\ pc' \in {"walk", "ended"}
      BY CallFacts
    <2>2. QED
      BY <1>1, <2>1 DEF OptionsInv
  <1>3. ListInv'
    <2>1. OneTargetPerAddress'
      BY <1>1, CallFacts DEF ListInv, OneTargetPerAddress, OneCalled
    <2>2. ASSUME NEW i \in DOMAIN targets'
          PROVE  /\ ~targets'[i].freed => targets'[i].filehandles # <<>>
                 /\ \A j \in DOMAIN targets'[i].filehandles :
                       targets'[i].filehandles[j].results = cfg'.results
      <3>1. /\ i \in DOMAIN targets /\ targets'[i].freed = targets[i].freed
            /\ DOMAIN targets'[i].filehandles = DOMAIN targets[i].filehandles
            /\ cfg' = cfg
        BY CallFacts DEF OneCalled
      <3>2. ~targets[i].freed => targets[i].filehandles # <<>>
        BY <1>1, <3>1 DEF ListInv
      <3>3. targets[i].filehandles \in Seq(FilehandleOf(Name))
        BY <3>1, CallFacts, TargetsTyped DEF IInv
      <3>4. targets[i].filehandles # <<>> => DOMAIN targets[i].filehandles # {}
        BY <3>3, EmptyDomain
      <3>5. targets'[i].filehandles # <<>> \/ DOMAIN targets'[i].filehandles = {}
        BY EmptySeq
      <3>6. ASSUME NEW j \in DOMAIN targets[i].filehandles
            PROVE  targets'[i].filehandles[j].results = cfg.results
        <4>1. targets[i].filehandles[j].results = cfg.results
          BY <1>1, <3>1 DEF ListInv
        <4>2. targets'[i].filehandles[j] =
                 IF i = at[1] /\ j = at[2] THEN f ELSE targets[i].filehandles[j]
          BY <3>1, CallFacts DEF OneCalled
        <4>3. i = at[1] /\ j = at[2] => f.results = targets[i].filehandles[j].results
          BY CallFacts
        <4>4. QED
          BY <4>1, <4>2, <4>3
      <3>7. QED
        BY <3>1, <3>2, <3>4, <3>5, <3>6
    <2>3. QED
      BY <2>1, <2>2 DEF ListInv
  <1>4. StartInv'
    <2>1. round' = round /\ round # 0 /\ pc' \in {"walk", "ended"} /\ round \in Nat
      BY CallFacts
    <2>2. QED
      BY <2>1 DEF StartInv
  <1>5. WalkInv'
    <2>1. /\ at[1] \in DOMAIN targets /\ at[2] \in DOMAIN targets[at[1]].filehandles
          /\ DOMAIN targets' = DOMAIN targets /\ targets[at[1]].client
          /\ \A i \in DOMAIN targets :
                /\ targets'[i].client = targets[i].client
                /\ DOMAIN targets'[i].filehandles = DOMAIN targets[i].filehandles
          /\ at' \in (Nat \ {0}) \X (Nat \ {0}) /\ at \in (Nat \ {0}) \X (Nat \ {0})
      BY CallFacts DEF OneCalled
    <2>2. \/ at' = at
          \/ at'[1] = at[1] /\ at'[2] \in DOMAIN targets[at[1]].filehandles
          \/ at'[1] = at[1] + 1 /\ at'[2] = 1
      BY CallFacts
    <2>3. at'[2] > 1 => /\ at'[1] \in DOMAIN targets'
                        /\ at'[2] \in DOMAIN targets'[at'[1]].filehandles
                        /\ targets'[at'[1]].client
      BY <2>1, <2>2
    <2>4. ASSUME NEW i \in DOMAIN targets, i < at'[1]
          PROVE  targets'[i].filehandles # <<>>
      <3>1. i < at[1] \/ i = at[1]
        <4>1. i \in Nat
          BY CallFacts, TargetsTyped DEF IInv
        <4>2. QED
          BY <2>1, <2>2, <2>4, <4>1
      <3>2. CASE i = at[1]
        BY <2>1, <3>2, EmptySeq
      <3>3. CASE i < at[1]
        <4>1. targets[i].filehandles # <<>>
          BY <1>1, <3>3 DEF WalkInv
        <4>2. targets[i].filehandles \in Seq(FilehandleOf(Name))
          BY CallFacts, TargetsTyped DEF IInv
        <4>3. DOMAIN targets[i].filehandles # {}
          BY <4>1, <4>2, EmptyDomain
        <4>4. QED
          BY <2>1, <4>3, EmptySeq
      <3>4. QED
        BY <3>1, <3>2, <3>3
    <2>5. QED
      BY <2>1, <2>3, <2>4 DEF WalkInv
  <1>6. ExitInv'
    <2>1. \/ pc' = "walk" /\ exit' = "running"
          \/ pc' = "ended" /\ exit' = "crashed"
      BY CallFacts
    <2>2. QED
      BY <2>1 DEF ExitInv, Reported
  <1>7. QED
    BY <1>2, <1>3, <1>4, <1>5, <1>6

\* The filehandles after a call.
LEMMA AfterCall ==
    ASSUME NEW f, CallOf(f), NEW i \in DOMAIN targets', NEW j \in DOMAIN targets'[i].filehandles
    PROVE  /\ i \in DOMAIN targets /\ j \in DOMAIN targets[i].filehandles
           /\ i \in Nat \ {0} /\ j \in Nat \ {0}
           /\ targets'[i].client = targets[i].client
           /\ targets[i].filehandles[j] \in FilehandleOf(Name)
           /\ targets[i].filehandles[j].sent \in Nat
           /\ targets[i].filehandles[j].received \in Nat
           /\ i = at[1] /\ j = at[2] => /\ targets'[i].filehandles[j] = f
                                        /\ targets[i].filehandles[j] = fh
           /\ ~(i = at[1] /\ j = at[2])
              => targets'[i].filehandles[j] = targets[i].filehandles[j]
           /\ Before(i, j)' <=> Before(i, j) \/ (at' # at /\ i = at[1] /\ j = at[2])
           /\ ~Before(at[1], at[2])
  <1>1. /\ i \in DOMAIN targets /\ j \in DOMAIN targets[i].filehandles
        /\ targets'[i].client = targets[i].client
        /\ targets'[i].filehandles[j] = IF i = at[1] /\ j = at[2] THEN f
                                        ELSE targets[i].filehandles[j]
    BY CallFacts DEF OneCalled
  <1>2. /\ i \in Nat \ {0} /\ j \in Nat \ {0}
        /\ targets[i].filehandles[j] \in FilehandleOf(Name)
        /\ targets[i].filehandles[j].sent \in Nat
        /\ targets[i].filehandles[j].received \in Nat
    BY <1>1, CallFacts, TargetsTyped DEF IInv
  <1>3. /\ i = at[1] /\ j = at[2] => targets[i].filehandles[j] = fh
        /\ at \in (Nat \ {0}) \X (Nat \ {0})
    BY CallFacts
  <1>4. ~Before(at[1], at[2])
    BY <1>3 DEF Before
  <1>5. Before(i, j)' <=> Before(i, j) \/ (at' # at /\ i = at[1] /\ j = at[2])
    <2>1. CASE at' = at
      BY <2>1 DEF Before
    <2>2. CASE at' # at
      BY <1>1, <2>2, CallFacts
    <2>3. QED
      BY <2>1, <2>2
  <1>6. QED
    BY <1>1, <1>2, <1>3, <1>4, <1>5

\* The types of the variables that a call may change.
LEMMA CallTypes ==
    ASSUME NEW f, CallOf(f), sent' \in Nat, ok' \in 0 .. sent',
           offset' \in 0..Size, output' \in Seq((Nat \ {0}) \X (Nat \ {0}) \X (1..Size)),
           status' \in Stat \cup {0, NoAnswer}, nodename' = nodename
    PROVE  TypeOK'
  <1>1. TypeOK
    BY CallFacts DEF IInv
  <1>2. targets' \in Seq(FhTarget) /\ Len(targets') = Len(targets)
    <2>1. targets \in Seq(FhTarget) /\ targets' \in Seq(FhTarget) /\ DOMAIN targets' = DOMAIN targets
      BY CallFacts, TargetsTyped DEF IInv, OneCalled
    <2>2. QED
      BY <2>1, LenProperties
  <1>3. /\ UNCHANGED <<tool, cfg, lines, quitting, round>>
        /\ at' \in (Nat \ {0}) \X (Nat \ {0})
        /\ pc' \in {"walk", "ended"} /\ exit' \in {"running", "crashed"}
        /\ again' \in BOOLEAN
    BY CallFacts
  <1>4. QED
    BY <1>1, <1>2, <1>3 DEF TypeOK, FhTypeOK

\* In the first round a call leaves no connection ahead of the walk.
LEMMA CallKeepsNodes ==
    ASSUME NEW f, CallOf(f), UNCHANGED nodename,
           tool # "nfslock" => UNCHANGED sentAs, nodename = at[1] => UNCHANGED sentAs
    PROVE  NodeInv'
  <1>1. /\ NodeInv /\ UNCHANGED <<tool, round>>
        /\ at[1] \in DOMAIN targets /\ targets[at[1]].client
        /\ DOMAIN targets' = DOMAIN targets
        /\ \A i \in DOMAIN targets : i \in Nat /\ targets'[i].client = targets[i].client
        /\ at[1] \in Nat /\ (at'[1] = at[1] \/ at'[1] = at[1] + 1)
    BY CallFacts, TargetsTyped DEF IInv, OneCalled
  <1>2. tool # "nfslock" => nodename' = 0 /\ sentAs' = {}
    BY <1>1 DEF NodeInv
  <1>3. ASSUME round <= 1
        PROVE  /\ sentAs' = {}
               /\ \A i \in DOMAIN targets :
                     targets[i].client => /\ i <= at'[1]
                                          /\ tool = "nfslock" /\ i = at'[1] => nodename = i
    <2>1. /\ sentAs = {}
          /\ \A i \in DOMAIN targets :
                targets[i].client => /\ i <= at[1]
                                     /\ tool = "nfslock" /\ i = at[1] => nodename = i
      BY <1>1, <1>3 DEF NodeInv
    <2>2. tool = "nfslock" => nodename = at[1]
      BY <1>1, <2>1
    <2>3. QED
      BY <1>1, <2>1, <2>2
  <1>4. QED
    BY <1>1, <1>2, <1>3 DEF NodeInv

\* What nfsls and nfsdf write down of an answer (got = 1) or of none.
PolledAs(f, got) ==
    /\ f.received = fh.received + (IF tool = "nfsls" THEN got ELSE 0)
    /\ tool = "nfsls" => /\ f.avg = NewAverage(fh.avg, f.received)
                         /\ f.name = NULL \/ f.name = basename(fh.path)
    /\ tool = "nfsdf" => f.name = fh.name

\* A call of nfsls or nfsdf.
LEMMA PollStep ==
    ASSUME NEW f, CallOf(f), Polls, NEW got \in {0, 1}, PolledAs(f, got),
           NextFilehandle \/ exit' = "crashed",
           sent' = sent + 1, ok' = ok + got, UNCHANGED <<catVars, lockVars>>
    PROVE  IInv'
  <1>1. IInv /\ tool' = tool /\ cfg' = cfg /\ round' = round /\ tool \in {"nfsls", "nfsdf"}
    BY CallFacts DEF Polls
  <1>2. /\ UNCHANGED <<offset, output, failed, status, nodename, sentAs>>
        /\ sent \in Nat /\ ok \in 0 .. sent /\ round \in Nat \ {0}
    BY <1>1, CallFacts DEF catVars, lockVars, IInv, TypeOK, FhTypeOK
  <1>3. TypeOK'
    <2>1. /\ offset' \in 0..Size /\ output' \in Seq((Nat \ {0}) \X (Nat \ {0}) \X (1..Size))
          /\ status' \in Stat \cup {0, NoAnswer}
      BY <1>1, <1>2 DEF IInv, TypeOK
    <2>2. sent' \in Nat /\ ok' \in 0 .. sent'
      BY <1>2
    <2>3. QED
      BY <1>2, <2>1, <2>2, CallTypes
  <1>4. OptionsInv' /\ ListInv' /\ StartInv' /\ WalkInv' /\ ExitInv'
    BY CallKeeps
  <1>5. NodeInv'
    BY <1>2, CallKeepsNodes
  <1>6. LockInv'
    BY <1>1 DEF LockInv
  <1>7. TurnInv'
    <2>1. /\ \A i \in DOMAIN targets : \A j \in DOMAIN targets[i].filehandles :
                targets[i].filehandles[j].sent = IF Before(i, j) THEN round ELSE round - 1
          /\ cfg.count # 0 /\ ~cfg.loop => round <= cfg.count
      <3>1. exit = "running" /\ round > 0
        BY CallFacts
      <3>2. QED
        BY <1>1, <3>1 DEF IInv, TurnInv, Polls
    <2>2. ASSUME NEW i \in DOMAIN targets', NEW j \in DOMAIN targets'[i].filehandles
          PROVE  LET s == targets'[i].filehandles[j].sent IN
                 /\ s <= round
                 /\ exit' # "crashed" => s = IF Before(i, j)' THEN round ELSE round - 1
      <3>1. exit' # "crashed" => at' # at
        <4>1. NextFilehandle => at' # at
          BY CallFacts DEF NextFilehandle
        <4>2. QED
          BY <4>1
      <3>2. targets[i].filehandles[j].sent = IF Before(i, j) THEN round ELSE round - 1
        BY <2>1, AfterCall
      <3>3. CASE i = at[1] /\ j = at[2]
        <4>1. ~Before(i, j) /\ targets'[i].filehandles[j] = f /\ targets[i].filehandles[j] = fh
          BY <3>3, AfterCall
        <4>2. f.sent = fh.sent + 1
          BY <1>1, CallFacts
        <4>3. targets'[i].filehandles[j].sent = round
          BY <1>2, <3>2, <4>1, <4>2
        <4>4. exit' # "crashed" => Before(i, j)'
          BY <3>1, <3>3, AfterCall
        <4>5. QED
          BY <1>2, <4>3, <4>4
      <3>4. CASE ~(i = at[1] /\ j = at[2])
        <4>1. targets'[i].filehandles[j] = targets[i].filehandles[j] /\ (Before(i, j)' <=> Before(i, j))
          BY <3>4, AfterCall
        <4>2. QED
          BY <1>2, <3>2, <4>1
      <3>5. QED
        BY <3>3, <3>4
    <2>3. QED
      BY <1>1, <2>1, <2>2 DEF TurnInv
  <1>8. TotalsInv'
    <2>1. ~Polls' => ok' = 0
      BY <1>1 DEF Polls
    <2>2. ASSUME NEW i \in DOMAIN targets', NEW j \in DOMAIN targets'[i].filehandles
          PROVE  LET g == targets'[i].filehandles[j] IN
                 /\ g.received <= g.sent
                 /\ tool = "nfsls" /\ sent' = ok' => g.received = g.sent
      <3>1. LET g == targets[i].filehandles[j] IN
            /\ g.received <= g.sent /\ g.sent \in Nat /\ g.received \in Nat
            /\ tool = "nfsls" /\ sent = ok => g.received = g.sent
        BY <1>1, AfterCall DEF IInv, TotalsInv
      <3>2. sent' = ok' => sent = ok /\ got = 1
        BY <1>2
      <3>3. CASE i = at[1] /\ j = at[2]
        <4>1. targets'[i].filehandles[j] = f /\ targets[i].filehandles[j] = fh
          BY <3>3, AfterCall
        <4>2. f.sent = fh.sent + 1 /\ f.received = fh.received + (IF tool = "nfsls" THEN got ELSE 0)
          BY <1>1, CallFacts DEF PolledAs
        <4>3. QED
          BY <1>1, <3>1, <3>2, <4>1, <4>2
      <3>4. CASE ~(i = at[1] /\ j = at[2])
        BY <3>1, <3>2, <3>4, AfterCall
      <3>5. QED
        BY <3>3, <3>4
    <2>3. /\ at[1] \in DOMAIN targets' /\ at[2] \in DOMAIN targets'[at[1]].filehandles
          /\ targets'[at[1]].filehandles[at[2]].sent > 0
      <3>1. at[1] \in DOMAIN targets' /\ at[2] \in DOMAIN targets'[at[1]].filehandles
        BY CallFacts DEF OneCalled
      <3>2. targets'[at[1]].filehandles[at[2]] = f /\ f.sent = fh.sent + 1 /\ fh.sent \in Nat
        BY <1>1, <3>1, AfterCall, CallFacts
      <3>3. QED
        BY <3>1, <3>2
    <2>4. QED
      BY <1>1, <2>1, <2>2, <2>3 DEF TotalsInv
  <1>9. FilehandleInv'
    <2> SUFFICES ASSUME NEW i \in DOMAIN targets', NEW j \in DOMAIN targets'[i].filehandles
                 PROVE  LET g == targets'[i].filehandles[j] IN
                        /\ tool = "nfsls" =>
                             /\ g.sent = 0 => g.avg = "zero"
                             /\ g.sent > 0 /\ g.received = g.sent => g.avg = "real"
                             /\ g.sent = 0 => g.path = g.given
                             /\ g.sent = 1 /\ g.name # NULL => g.name = basename(g.given)
                        /\ g.sent = 0 \/ tool # "nfsls" => g.name = NULL
      BY <1>1 DEF FilehandleInv
    <2>1. LET g == targets[i].filehandles[j] IN
          /\ tool = "nfsls" =>
               /\ g.sent = 0 => g.avg = "zero"
               /\ g.sent > 0 /\ g.received = g.sent => g.avg = "real"
               /\ g.sent = 0 => g.path = g.given
               /\ g.sent = 1 /\ g.name # NULL => g.name = basename(g.given)
          /\ g.sent = 0 \/ tool # "nfsls" => g.name = NULL
          /\ g.received <= g.sent
      BY <1>1, AfterCall DEF IInv, FilehandleInv, TotalsInv
    <2>2. CASE i = at[1] /\ j = at[2]
      <3>1. /\ targets'[i].filehandles[j] = f /\ targets[i].filehandles[j] = fh
            /\ fh.sent \in Nat /\ fh.received \in Nat
            /\ f.sent = fh.sent + 1 /\ f.given = fh.given
        BY <1>1, <2>2, AfterCall, CallFacts
      <3>2. CASE tool = "nfsls"
        <4>1. /\ f.received = fh.received + got
              /\ f.avg = NewAverage(fh.avg, f.received)
              /\ f.name = NULL \/ f.name = basename(fh.path)
          BY <3>2 DEF PolledAs
        <4>2. f.sent > 0
          BY <3>1
        <4>3. f.received = f.sent => f.avg = "real"
          <5>1. SUFFICES ASSUME f.received = f.sent PROVE f.avg = "real"
            OBVIOUS
          <5>2. fh.received = fh.sent /\ f.received # 0
            BY <2>1, <3>1, <4>1, <5>1
          <5>3. fh.avg \in {"zero", "real"}
            BY <2>1, <3>1, <3>2, <5>2
          <5>4. QED
            BY <4>1, <5>2, <5>3 DEF NewAverage
        <4>4. f.sent = 1 => fh.path = fh.given
          BY <2>1, <3>1, <3>2
        <4>5. QED
          BY <3>1, <3>2, <4>1, <4>2, <4>3, <4>4
      <3>3. CASE tool # "nfsls"
        <4>1. f.name = fh.name
          BY <1>1, <3>3 DEF PolledAs
        <4>2. QED
          BY <2>1, <3>1, <3>3, <4>1
      <3>4. QED
        BY <3>2, <3>3
    <2>3. CASE ~(i = at[1] /\ j = at[2])
      <3>1. targets'[i].filehandles[j] = targets[i].filehandles[j]
        BY <2>3, AfterCall
      <3>2. QED
        BY <2>1, <3>1
    <2>4. QED
      BY <2>2, <2>3
  <1>10. QED
    BY <1>3, <1>4, <1>5, <1>6, <1>7, <1>8, <1>9 DEF IInv

\* Cutting the last name off a path leaves a path and a name.
LEMMA CutPath ==
    ASSUME NEW p \in PathOf(Name)
    PROVE  dirname(p) \in PathOf(Name) /\ basename(p) \in Name \cup {"/"}
  <1>1. p.names \in Seq(Name) /\ Len(p.names) \in Nat /\ DOMAIN p.names = 1 .. Len(p.names)
    BY LenProperties DEF PathOf
  <1>2. dirname(p) \in PathOf(Name)
    <2>1. Root \in PathOf(Name)
      BY EmptySeq DEF Root, PathOf
    <2>2. CASE Len(p.names) <= 1
      BY <2>1, <2>2 DEF dirname
    <2>3. CASE ~(Len(p.names) <= 1)
      <3>1. \A i \in 1 .. Len(p.names) - 1 : p.names[i] \in Name
        BY <1>1, ElementOfSeq
      <3>2. Front(p.names) \in Seq(Name)
        BY <1>1, <3>1, SubSeqProperties DEF Front
      <3>3. QED
        BY <2>3, <3>2 DEF dirname, PathOf
    <2>4. QED
      BY <2>2, <2>3
  <1>3. basename(p) \in Name \cup {"/"}
    <2>1. CASE p.names = <<>>
      BY <2>1 DEF basename
    <2>2. CASE p.names # <<>>
      <3>1. Len(p.names) # 0
        BY <1>1, <2>2, EmptySeq
      <3>2. Len(p.names) \in 1 .. Len(p.names)
        BY <1>1, <3>1
      <3>3. Last(p.names) \in Name
        BY <1>1, <3>2, ElementOfSeq DEF Last
      <3>4. QED
        BY <2>2, <3>3 DEF basename
    <2>3. QED
      BY <2>1, <2>2
  <1>4. QED
    BY <1>2, <1>3

\* A listing of nfsls.
LEMMA LsCalls ==
    ASSUME IInv, LsCall
    PROVE  \E got \in {0, 1}, f \in FilehandleOf(Name) :
              /\ CallOf(f) /\ PolledAs(f, got) /\ Polls /\ NextFilehandle
              /\ sent' = sent + 1 /\ ok' = ok + got
  <1> DEFINE Got(a) == IF a THEN 1 ELSE 0
             Listed(a) == ListedPath(fh, a)
             Counted(a) == [Listed(a) EXCEPT !.sent = @ + 1, !.received = @ + Got(a)]
             New(a) == [Counted(a) EXCEPT !.avg = NewAverage(@, Counted(a).received)]
  <1>1. PICK answered \in BOOLEAN :
           /\ targets' = [targets EXCEPT ![at[1]].filehandles[at[2]] = New(answered)]
           /\ ok' = ok + Got(answered)
    BY DEF LsCall
  <1> DEFINE got == Got(answered)
             f == New(answered)
  <1>2. /\ Calling("nfsls") /\ sent' = sent + 1 /\ NextFilehandle /\ UNCHANGED <<pc, exit>>
        /\ again' \in BOOLEAN
    BY DEF LsCall, IInv, TypeOK, FhTypeOK
  <1>3. /\ fh \in FilehandleOf(Name) /\ tool = "nfsls" /\ tool \in Tools
    <2>1. Walking("nfsls") /\ ~Current.freed
      BY <1>2 DEF Calling
    <2>2. /\ at[1] \in DOMAIN targets /\ at[2] \in DOMAIN targets[at[1]].filehandles
          /\ tool = "nfsls"
      BY <2>1, AtTarget
    <2>3. QED
      BY <2>2, TargetsTyped DEF IInv, fh, Current, Tools
  <1>4. PICK p \in PathOf(Name), n \in Name \cup {NULL, "/"} :
           /\ Listed(answered) = [[fh EXCEPT !.path = p] EXCEPT !.name = n]
           /\ n = NULL \/ n = basename(fh.path)
    <2>1. fh.path \in PathOf(Name)
      BY <1>3 DEF FilehandleOf
    <2>2. CASE answered /\ ListsItself
      <3>1. Listed(answered) = [[fh EXCEPT !.path = dirname(fh.path)] EXCEPT !.name = basename(fh.path)]
        BY <1>3, <2>2 DEF ListedPath
      <3>2. dirname(fh.path) \in PathOf(Name) /\ basename(fh.path) \in Name \cup {"/"}
        BY <2>1, CutPath
      <3>3. QED
        BY <3>1, <3>2
    <2>3. CASE ~(answered /\ ListsItself)
      <3>1. Listed(answered) = [fh EXCEPT !.name = NULL]
        BY <2>3 DEF ListedPath
      <3>2. [fh EXCEPT !.name = NULL] = [[fh EXCEPT !.path = fh.path] EXCEPT !.name = NULL]
        BY <1>3 DEF FilehandleOf
      <3>3. QED
        BY <2>1, <3>1, <3>2
    <2>4. QED
      BY <2>2, <2>3
  <1>5. PICK l \in FilehandleOf(Name) :
           /\ l = Listed(answered)
           /\ l.given = fh.given /\ l.results = fh.results /\ l.sent = fh.sent
           /\ l.received = fh.received /\ l.avg = fh.avg /\ l.name = n
    BY <1>3, <1>4 DEF FilehandleOf
  <1>6. got \in {0, 1}
    OBVIOUS
  <1> HIDE DEF Listed, Got
  <1>7. PICK s \in Nat, r \in Nat : s = l.sent + 1 /\ r = l.received + got
    <2>1. l.sent \in Nat /\ l.received \in Nat
      BY DEF FilehandleOf
    <2>2. QED
      BY <1>6, <2>1
  <1>8. Counted(answered) = [l EXCEPT !.sent = s, !.received = r]
    BY <1>5, <1>7
  <1> HIDE DEF Counted
  <1>9. /\ Counted(answered) \in FilehandleOf(Name)
        /\ Counted(answered).given = l.given /\ Counted(answered).results = l.results
        /\ Counted(answered).sent = s /\ Counted(answered).received = r
        /\ Counted(answered).avg = l.avg /\ Counted(answered).name = l.name
    BY <1>8 DEF FilehandleOf
  <1>10. PICK v \in {"zero", "real", "inf", "nan"} : v = NewAverage(l.avg, r)
    <2>1. l.avg \in {"zero", "real", "inf", "nan"}
      BY DEF FilehandleOf
    <2>2. QED
      BY <2>1 DEF NewAverage
  <1>11. f = [Counted(answered) EXCEPT !.avg = v]
    BY <1>9, <1>10
  <1> HIDE DEF f
  <1>12. /\ f \in FilehandleOf(Name) /\ f.given = fh.given /\ f.results = fh.results
         /\ f.sent = fh.sent + 1 /\ f.received = fh.received + got
         /\ f.avg = NewAverage(fh.avg, f.received) /\ f.name = n
    <2>1. /\ f \in FilehandleOf(Name) /\ f.given = l.given /\ f.results = l.results
          /\ f.sent = s /\ f.received = r /\ f.avg = v /\ f.name = l.name
      BY <1>9, <1>11 DEF FilehandleOf
    <2>2. QED
      BY <1>5, <1>7, <1>10, <2>1
  <1>13. targets' = [targets EXCEPT ![at[1]].filehandles[at[2]] = f]
    BY <1>1 DEF f
  <1>14. CallOf(f)
    <2>1. OneCalled(f)
      BY <1>2, <1>12, <1>13, CallEffect
    <2>2. QED
      BY <1>2, <1>3, <1>12, <2>1 DEF CallOf
  <1>15. PolledAs(f, got) /\ Polls
    BY <1>3, <1>4, <1>12 DEF PolledAs, Polls
  <1>16. ok' = ok + got
    BY <1>1
  <1> HIDE DEF got
  <1>17. QED
    BY <1>2, <1>6, <1>12, <1>14, <1>15, <1>16

LEMMA LsCallStep ==
    ASSUME IInv, LsCall, UNCHANGED <<catVars, lockVars>>
    PROVE  IInv'
  <1>1. PICK got \in {0, 1}, f \in FilehandleOf(Name) :
           /\ CallOf(f) /\ PolledAs(f, got) /\ Polls /\ NextFilehandle
           /\ sent' = sent + 1 /\ ok' = ok + got
    BY LsCalls
  <1>2. QED
    BY <1>1, PollStep

\* What the other tools write down of a call: a request, and maybe an answer.
Counts(f, n) ==
    /\ f \in FilehandleOf(Name) /\ f.given = fh.given /\ f.results = fh.results
    /\ f.sent = fh.sent + 1 /\ f.received = fh.received + n /\ f.name = fh.name
    /\ f.avg = fh.avg

LEMMA CountedFilehandle ==
    ASSUME fh \in FilehandleOf(Name), NEW n \in {0, 1},
           NEW f, f = [fh EXCEPT !.sent = fh.sent + 1, !.received = fh.received + n]
    PROVE  Counts(f, n)
  <1>1. PICK s \in Nat, r \in Nat : s = fh.sent + 1 /\ r = fh.received + n
    <2>1. fh.sent \in Nat /\ fh.received \in Nat
      BY DEF FilehandleOf
    <2>2. QED
      BY <2>1
  <1>2. f = [fh EXCEPT !.sent = s, !.received = r]
    BY <1>1
  <1>3. /\ f \in FilehandleOf(Name) /\ f.given = fh.given /\ f.results = fh.results
        /\ f.sent = s /\ f.received = r /\ f.name = fh.name /\ f.avg = fh.avg
    BY <1>2 DEF FilehandleOf
  <1>4. QED
    BY <1>1, <1>3 DEF Counts

\* What happens to the list when only the requests of a filehandle are counted.
LEMMA SentEffect ==
    ASSUME IInv, NEW t \in Tools, Calling(t),
           targets' = [targets EXCEPT ![at[1]].filehandles[at[2]].sent = @ + 1]
    PROVE  \E f : OneCalled(f) /\ Counts(f, 0)
  <1>1. /\ at[1] \in DOMAIN targets /\ at[2] \in DOMAIN targets[at[1]].filehandles
        /\ targets[at[1]] \in FhTarget
    BY AtTarget DEF Calling
  <1>2. fh \in FilehandleOf(Name) /\ fh = targets[at[1]].filehandles[at[2]]
    BY <1>1, TargetsTyped DEF IInv, fh, Current
  <1> DEFINE f == [fh EXCEPT !.sent = fh.sent + 1]
  <1>3. targets' = [targets EXCEPT ![at[1]].filehandles[at[2]] = f]
    BY <1>1, <1>2 DEF FhTarget, TargetOf
  <1>4. fh.received + 0 = fh.received
    BY <1>2 DEF FilehandleOf
  <1>5. Counts(f, 0)
    <2>1. Counts([fh EXCEPT !.sent = fh.sent + 1, !.received = fh.received + 0], 0)
      BY <1>2, CountedFilehandle
    <2>2. [fh EXCEPT !.sent = fh.sent + 1, !.received = fh.received] = f
      BY <1>2 DEF FilehandleOf
    <2>3. QED
      BY <1>4, <2>1, <2>2
  <1> HIDE DEF f
  <1>6. OneCalled(f)
    BY <1>3, <1>5, CallEffect DEF Counts
  <1>7. QED
    BY <1>5, <1>6

\* A call of nfsdf.
LEMMA DfCalls ==
    ASSUME IInv, DfAnswered \/ DfRefused \/ DfLost
    PROVE  \E got \in {0, 1}, f \in FilehandleOf(Name) :
              /\ CallOf(f) /\ PolledAs(f, got) /\ Polls
              /\ NextFilehandle \/ exit' = "crashed"
              /\ sent' = sent + 1 /\ ok' = ok + got
  <1>1. Calling("nfsdf") /\ DfCounts /\ tool = "nfsdf" /\ tool \in Tools
    BY DEF DfAnswered, DfRefused, DfLost, Calling, Walking, Tools
  <1>2. PICK f : OneCalled(f) /\ Counts(f, 0)
    BY <1>1, SentEffect DEF DfCounts
  <1>3. PICK got \in {0, 1} :
           /\ ok' = ok + got
           /\ \/ NextFilehandle /\ UNCHANGED <<pc, exit>>
              \/ at' = at /\ End("crashed")
    <2>1. ok \in Nat
      BY DEF IInv, TypeOK, FhTypeOK
    <2>2. QED
      BY <2>1 DEF DfAnswered, DfRefused, DfLost
  <1>4. CallOf(f)
    <2>1. again' \in BOOLEAN
      BY DEF DfAnswered, DfRefused, DfLost, IInv, TypeOK, FhTypeOK
    <2>2. QED
      BY <1>1, <1>2, <1>3, <2>1 DEF CallOf, Counts
  <1>5. PolledAs(f, got)
    BY <1>1, <1>2 DEF PolledAs, Counts
  <1>6. QED
    <2>1. f \in FilehandleOf(Name)
      BY <1>2 DEF Counts
    <2>2. QED
      BY <1>1, <1>3, <1>4, <1>5, <2>1 DEF DfCounts, End, Polls

LEMMA DfCallStep ==
    ASSUME IInv, DfAnswered \/ DfRefused \/ DfLost, UNCHANGED <<catVars, lockVars>>
    PROVE  IInv'
  <1>1. PICK got \in {0, 1}, f \in FilehandleOf(Name) :
           /\ CallOf(f) /\ PolledAs(f, got) /\ Polls
           /\ NextFilehandle \/ exit' = "crashed"
           /\ sent' = sent + 1 /\ ok' = ok + got
    BY DfCalls
  <1>2. QED
    BY <1>1, PollStep

\* nfslock counts requests and answers of a filehandle, nfscat nothing.
LEMMA CountStep ==
    ASSUME NEW f, NEW n \in {0, 1}, CallOf(f), f = fh \/ Counts(f, n), ~Polls, ok' = ok
    PROVE  TurnInv' /\ TotalsInv' /\ FilehandleInv'
  <1>1. IInv /\ tool' = tool /\ round' = round /\ tool \notin {"nfsls", "nfsdf"}
    BY CallFacts DEF Polls
  <1>2. TurnInv'
    BY <1>1 DEF TurnInv, Polls
  <1>3. ok = 0
    BY <1>1 DEF IInv, TotalsInv
  <1>4. ASSUME NEW i \in DOMAIN targets', NEW j \in DOMAIN targets'[i].filehandles
        PROVE  /\ targets'[i].filehandles[j].received <= targets'[i].filehandles[j].sent
               /\ targets'[i].filehandles[j].name = NULL
    <2>1. LET g == targets[i].filehandles[j] IN
          /\ g.received <= g.sent /\ g.sent \in Nat /\ g.received \in Nat
          /\ g.name = NULL
      BY <1>1, AfterCall DEF IInv, TotalsInv, FilehandleInv
    <2>2. CASE i = at[1] /\ j = at[2]
      <3>1. targets'[i].filehandles[j] = f /\ targets[i].filehandles[j] = fh
        BY <2>2, AfterCall
      <3>2. CASE f = fh
        BY <2>1, <3>1, <3>2
      <3>3. CASE Counts(f, n)
        <4>1. f.sent = fh.sent + 1 /\ f.received = fh.received + n /\ f.name = fh.name
          BY <3>3 DEF Counts
        <4>2. QED
          BY <2>1, <3>1, <4>1
      <3>4. QED
        BY <3>2, <3>3
    <2>3. CASE ~(i = at[1] /\ j = at[2])
      BY <2>1, <2>3, AfterCall
    <2>4. QED
      BY <2>2, <2>3
  <1>5. TotalsInv'
    BY <1>1, <1>3, <1>4 DEF TotalsInv
  <1>6. FilehandleInv'
    BY <1>1, <1>4 DEF FilehandleInv
  <1>7. QED
    BY <1>2, <1>5, <1>6

Block == (Nat \ {0}) \X (Nat \ {0}) \X (1..Size)

\* The blocks of the current file up to end.
LEMMA BlocksAre ==
    ASSUME at \in (Nat \ {0}) \X (Nat \ {0}), offset \in 0..Size, NEW end \in offset..Size
    PROVE  /\ Blocks(end) \in Seq(Block) /\ Len(Blocks(end)) = end - offset
           /\ \A k \in 1..(end - offset) : Blocks(end)[k] = <<at[1], at[2], offset + k>>
  <1>1. Size \in Nat /\ offset \in Nat /\ end \in Nat /\ end - offset \in Nat
    BY NfsCatAssumption
  <1>2. \A k \in 1..(end - offset) :
           /\ Blocks(end)[k] = <<at[1], at[2], offset + k>>
           /\ Blocks(end)[k] \in Block
    BY <1>1 DEF Blocks, Block
  <1>3. Blocks(end) \in Seq(Block) /\ DOMAIN Blocks(end) = 1..(end - offset)
    BY <1>1, <1>2 DEF Blocks
  <1>4. Len(Blocks(end)) = end - offset
    BY <1>1, <1>3, LenProperties
  <1>5. QED
    BY <1>2, <1>3, <1>4

\* A read of nfscat: where it ends, and what is left behind.
ReadUpTo(end, f) ==
    /\ CallOf(f) /\ f = fh /\ tool = "nfscat"
    /\ sent' \in Nat /\ ok' = ok /\ UNCHANGED lockVars
    /\ offset' = end /\ end \in offset .. Size
    /\ failed' = failed \/ failed' = failed \cup {at}
    /\ \/ output' = output /\ (end = offset \/ cfg.count # 0)
       \/ output' = output \o Blocks(end) /\ cfg.count = 0
    /\ \/ NextFilehandle /\ UNCHANGED <<pc, exit>>
       \/ UNCHANGED <<at, pc, exit>>
    /\ at' # at => end = Size \/ at \in failed' \/ cfg.count # 0

LEMMA CatReads ==
    ASSUME IInv, CatAnswered \/ CatFailed, UNCHANGED lockVars
    PROVE  \E f, end : ReadUpTo(end, f)
  <1>1. /\ Calling("nfscat") /\ CatCounts /\ UNCHANGED targets
        /\ tool = "nfscat" /\ tool \in Tools
    BY DEF CatAnswered, CatFailed, CatCounts, Calling, Walking, Tools
  <1>2. fh \in FilehandleOf(Name) /\ OneCalled(fh)
    <2>1. /\ at[1] \in DOMAIN targets /\ at[2] \in DOMAIN targets[at[1]].filehandles
      BY <1>1, AtTarget DEF Calling
    <2>2. fh \in FilehandleOf(Name) /\ fh = targets[at[1]].filehandles[at[2]]
      BY <2>1, TargetsTyped DEF IInv, fh, Current
    <2>3. targets' \in Seq(FhTarget)
      BY <1>1, TargetsTyped DEF IInv
    <2>4. QED
      BY <1>1, <2>2, <2>3 DEF OneCalled
  <1>3. /\ Size \in Nat /\ offset \in 0..Size /\ sent \in Nat /\ again \in BOOLEAN
    BY NfsCatAssumption DEF IInv, TypeOK, FhTypeOK
  <1>4. /\ ok' = ok /\ again' \in BOOLEAN
        /\ \/ NextFilehandle /\ UNCHANGED <<pc, exit>>
           \/ UNCHANGED <<at, pc, exit>>
    BY <1>3 DEF CatAnswered, CatFailed
  <1>5. CallOf(fh)
    BY <1>1, <1>2, <1>4 DEF CallOf
  <1>6. sent' \in Nat
    BY <1>1, <1>3 DEF CatCounts
  <1>7. CASE CatAnswered
    <2>1. PICK end \in offset .. Size, eof \in BOOLEAN :
             /\ offset' = end
             /\ output' = IF cfg.count # 0 THEN output ELSE output \o Blocks(end)
             /\ failed' = IF eof /\ end < Size THEN failed \cup {at} ELSE failed
             /\ IF eof \/ CountReached THEN NextFilehandle ELSE UNCHANGED at
      BY <1>7 DEF CatAnswered
    <2>2. at' # at => end = Size \/ at \in failed' \/ cfg.count # 0
      BY <1>3, <2>1 DEF CountReached
    <2>3. failed' = failed \/ failed' = failed \cup {at}
      BY <2>1
    <2>4. ReadUpTo(end, fh)
      BY <1>1, <1>4, <1>5, <1>6, <2>1, <2>2, <2>3 DEF ReadUpTo
    <2>5. QED
      BY <2>4
  <1>8. CASE CatFailed
    <2>1. failed' = failed \cup {at} /\ offset' = offset /\ output' = output
      BY <1>8 DEF CatFailed
    <2>2. offset \in offset .. Size
      BY <1>3
    <2>3. ReadUpTo(offset, fh)
      BY <1>1, <1>4, <1>5, <1>6, <2>1, <2>2 DEF ReadUpTo
    <2>4. QED
      BY <2>3
  <1>9. QED
    BY <1>7, <1>8

\* The invariant across a read of nfscat.
LEMMA CatCallStep ==
    ASSUME IInv, CatAnswered \/ CatFailed, UNCHANGED lockVars
    PROVE  IInv'
  <1>1. PICK f, end : ReadUpTo(end, f)
    BY CatReads
  <1>2. /\ CallOf(f) /\ f = fh /\ tool = "nfscat" /\ ok' = ok /\ sent' \in Nat
        /\ UNCHANGED <<status, nodename, sentAs>>
    BY <1>1 DEF ReadUpTo, lockVars
  <1>3. ~Polls
    BY <1>2 DEF Polls
  <1>4. /\ offset' \in 0..Size
        /\ output' \in Seq((Nat \ {0}) \X (Nat \ {0}) \X (1..Size))
    <2>1. /\ Size \in Nat /\ offset \in 0..Size /\ output \in Seq(Block)
          /\ at \in (Nat \ {0}) \X (Nat \ {0})
      BY NfsCatAssumption DEF IInv, TypeOK, FhTypeOK, Block
    <2>2. offset' = end /\ end \in offset .. Size
      BY <1>1 DEF ReadUpTo
    <2>3. Blocks(end) \in Seq(Block)
      BY <2>1, <2>2, BlocksAre
    <2>4. output \o Blocks(end) \in Seq(Block)
      BY <2>1, <2>3, ConcatProperties
    <2>5. output' \in Seq(Block)
      BY <1>1, <2>1, <2>4 DEF ReadUpTo
    <2>6. QED
      BY <2>1, <2>2, <2>5 DEF Block
  <1>5. TypeOK'
    <2>1. ok' \in 0 .. sent'
      <3>1. ok = 0
        BY <1>3 DEF IInv, TotalsInv
      <3>2. QED
        BY <1>2, <3>1
    <2>2. status' \in Stat \cup {0, NoAnswer}
      BY <1>2 DEF IInv, TypeOK
    <2>3. QED
      BY <1>2, <1>4, <2>1, <2>2, CallTypes
  <1>6. OptionsInv' /\ ListInv' /\ StartInv' /\ WalkInv' /\ ExitInv'
    BY <1>2, CallKeeps
  <1>7. NodeInv'
    BY <1>2, CallKeepsNodes
  <1>8. LockInv'
    <2>1. tool' = "nfscat"
      BY <1>2, CallFacts
    <2>2. QED
      BY <2>1 DEF LockInv
  <1>9. TurnInv' /\ TotalsInv' /\ FilehandleInv'
    BY <1>2, <1>3, CountStep
  <1>10. QED
    BY <1>5, <1>6, <1>7, <1>8, <1>9 DEF IInv

\* What a request for a lock does to the list.
LEMMA LockEffect ==
    ASSUME IInv, LockCall
    PROVE  \E n \in {0, 1}, f \in FilehandleOf(Name) : OneCalled(f) /\ Counts(f, n)
  <1>0. Calling("nfslock")
    BY DEF LockCall
  <1>1. /\ at[1] \in DOMAIN targets /\ at[2] \in DOMAIN targets[at[1]].filehandles
        /\ targets[at[1]] \in FhTarget
    BY <1>0, AtTarget DEF Calling
  <1>2. fh \in FilehandleOf(Name) /\ fh = targets[at[1]].filehandles[at[2]]
    BY <1>1, TargetsTyped DEF IInv, fh, Current
  <1>3. fh.received \in Nat
    BY <1>2 DEF FilehandleOf
  <1>4. PICK n \in {0, 1} :
           (IF status' = NoAnswer THEN fh.received ELSE fh.received + 1) = fh.received + n
    BY <1>3
  <1> DEFINE f == [fh EXCEPT !.sent = fh.sent + 1, !.received = fh.received + n]
  <1>5. targets' = [targets EXCEPT ![at[1]].filehandles[at[2]] =
                       [fh EXCEPT !.sent = fh.sent + 1,
                           !.received = IF status' = NoAnswer THEN fh.received
                                        ELSE fh.received + 1]]
    BY <1>1, <1>2 DEF LockCall, FhTarget, TargetOf
  <1>6. targets' = [targets EXCEPT ![at[1]].filehandles[at[2]] = f]
    BY <1>4, <1>5
  <1>7. Counts(f, n)
    BY <1>2, CountedFilehandle
  <1> HIDE DEF f
  <1>8. OneCalled(f)
    BY <1>0, <1>6, <1>7, CallEffect DEF Counts
  <1>9. f \in FilehandleOf(Name)
    BY <1>7 DEF Counts
  <1>10. QED
    BY <1>7, <1>8, <1>9

\* The invariant across a request of nfslock.
LEMMA LockCallStep ==
    ASSUME IInv, LockCall, UNCHANGED catVars
    PROVE  IInv'
  <1>1. PICK n \in {0, 1}, f \in FilehandleOf(Name) : OneCalled(f) /\ Counts(f, n)
    BY LockEffect
  <1>2. /\ Calling("nfslock") /\ tool = "nfslock" /\ tool \in Tools /\ NextFilehandle
        /\ UNCHANGED <<sent, ok, pc, exit, nodename, offset, output, failed>>
        /\ status' \in Stat \cup {NoAnswer}
        /\ sentAs' = IF nodename = at[1] THEN sentAs ELSE sentAs \cup {at[1]}
        /\ again' \in BOOLEAN
    BY DEF LockCall, Calling, Walking, Tools, catVars, IInv, TypeOK, FhTypeOK
  <1>3. CallOf(f)
    BY <1>1, <1>2 DEF CallOf, Counts
  <1>4. ~Polls
    BY <1>2 DEF Polls
  <1>5. TypeOK'
    <2>1. /\ sent' \in Nat /\ ok' \in 0 .. sent' /\ offset' \in 0..Size
          /\ output' \in Seq((Nat \ {0}) \X (Nat \ {0}) \X (1..Size))
      BY <1>2 DEF IInv, TypeOK, FhTypeOK
    <2>2. QED
      BY <1>2, <1>3, <2>1, CallTypes
  <1>6. OptionsInv' /\ ListInv' /\ StartInv' /\ WalkInv' /\ ExitInv'
    BY <1>3, CallKeeps
  <1>7. NodeInv'
    BY <1>2, <1>3, CallKeepsNodes
  <1>8. TurnInv' /\ TotalsInv' /\ FilehandleInv'
    BY <1>1, <1>2, <1>3, <1>4, CountStep
  <1>9. at' # at
    BY <1>3, <1>2, CallFacts DEF NextFilehandle
  <1>10. round' = round /\ round \in Nat \ {0} /\ tool' = tool
    BY <1>3, CallFacts
  <1>11. ASSUME NEW i \in DOMAIN targets', NEW j \in DOMAIN targets'[i].filehandles
         PROVE  /\ targets[i].filehandles[j].sent
                     <= IF Before(i, j) THEN round ELSE round - 1
                /\ targets[i].filehandles[j].sent \in Nat
                /\ targets'[i].filehandles[j].sent =
                      targets[i].filehandles[j].sent
                         + (IF i = at[1] /\ j = at[2] THEN 1 ELSE 0)
    <2>1. /\ i \in DOMAIN targets /\ j \in DOMAIN targets[i].filehandles
          /\ targets[i].filehandles[j].sent \in Nat
      BY <1>3, AfterCall
    <2>2. targets[i].filehandles[j].sent <= IF Before(i, j) THEN round ELSE round - 1
      BY <1>2, <1>3, <1>10, <2>1, CallFacts DEF IInv, LockInv
    <2>3. CASE i = at[1] /\ j = at[2]
      <3>1. targets'[i].filehandles[j] = f /\ targets[i].filehandles[j] = fh
        BY <1>3, <2>3, AfterCall
      <3>2. f.sent = fh.sent + 1
        BY <1>1 DEF Counts
      <3>3. QED
        BY <2>1, <2>2, <2>3, <3>1, <3>2
    <2>4. CASE ~(i = at[1] /\ j = at[2])
      <3>1. targets'[i].filehandles[j] = targets[i].filehandles[j]
        BY <1>3, <2>4, AfterCall
      <3>2. QED
        BY <2>1, <2>2, <2>4, <3>1
    <2>5. QED
      BY <2>3, <2>4
  <1>12. LockInv'
    <2> SUFFICES ASSUME NEW i \in DOMAIN targets', NEW j \in DOMAIN targets'[i].filehandles,
                        NEW k \in DOMAIN targets'[i].filehandles
                 PROVE  LET s == targets'[i].filehandles[j].sent
                            r == targets'[i].filehandles[k].sent
                        IN /\ s <= IF Before(i, j)' THEN round ELSE round - 1
                           /\ Before(i, j)' <=> Before(i, k)' => s = r
                           /\ Before(i, j)' /\ ~Before(i, k)' => s = r + 1
      BY <1>10 DEF LockInv
    <2>1. LET s == targets[i].filehandles[j].sent
              r == targets[i].filehandles[k].sent
          IN /\ Before(i, j) <=> Before(i, k) => s = r
             /\ Before(i, j) /\ ~Before(i, k) => s = r + 1
             /\ ~Before(i, j) /\ Before(i, k) => r = s + 1
      <3>1. /\ i \in DOMAIN targets /\ j \in DOMAIN targets[i].filehandles
            /\ k \in DOMAIN targets[i].filehandles
        BY <1>3, AfterCall
      <3>2. QED
        BY <1>2, <1>10, <3>1 DEF IInv, LockInv
    <2>2. /\ Before(i, j)' <=> Before(i, j) \/ (i = at[1] /\ j = at[2])
          /\ Before(i, k)' <=> Before(i, k) \/ (i = at[1] /\ k = at[2])
          /\ i = at[1] /\ j = at[2] => ~Before(i, j)
          /\ i = at[1] /\ k = at[2] => ~Before(i, k)
      BY <1>3, <1>9, AfterCall
    <2>3. QED
      <3> DEFINE s == targets[i].filehandles[j].sent
                 r == targets[i].filehandles[k].sent
                 ns == targets'[i].filehandles[j].sent
                 nr == targets'[i].filehandles[k].sent
      <3>1. /\ s \in Nat /\ r \in Nat
            /\ s <= IF Before(i, j) THEN round ELSE round - 1
            /\ ns = s + (IF i = at[1] /\ j = at[2] THEN 1 ELSE 0)
            /\ nr = r + (IF i = at[1] /\ k = at[2] THEN 1 ELSE 0)
        BY <1>11
      <3>2. ns <= IF Before(i, j)' THEN round ELSE round - 1
        BY <1>10, <2>2, <3>1
      <3>3. Before(i, j)' <=> Before(i, k)' => ns = nr
        BY <2>1, <2>2, <3>1
      <3>4. Before(i, j)' /\ ~Before(i, k)' => ns = nr + 1
        BY <2>1, <2>2, <3>1
      <3>5. QED
        BY <3>2, <3>3, <3>4
  <1>13. QED
    BY <1>5, <1>6, <1>7, <1>8, <1>12 DEF IInv

-----------------------------------------------------------------------------
(* The end of a round.                                                     *)

\* Behind the last target everyone has had its turn.
LEMMA AllBefore ==
    ASSUME TypeOK, at[1] > Len(targets),
           NEW i \in DOMAIN targets, NEW j \in DOMAIN targets[i].filehandles
    PROVE  Before(i, j)
  <1>1. /\ at \in (Nat \ {0}) \X (Nat \ {0}) /\ i \in 1 .. Len(targets)
        /\ Len(targets) \in Nat
    BY TargetsTyped DEF TypeOK, FhTypeOK
  <1>2. QED
    BY <1>1 DEF Before

\* Nobody has had a turn at the beginning of a round.
LEMMA NoneBefore ==
    ASSUME TypeOK, at' = <<1, 1>>,
           NEW i \in DOMAIN targets, NEW j \in DOMAIN targets[i].filehandles
    PROVE  ~Before(i, j)'
  BY TargetsTyped DEF Before

\* Nothing but where the walk stands changes at the end of a round.
EndsRound ==
    /\ pc = "walk" /\ at[1] > Len(targets)
    /\ UNCHANGED <<targets, tool, cfg, lines, quitting, ok, again, status, nodename, sentAs>>
    /\ UNCHANGED <<offset, output, failed>>
    /\ \/ at' = <<1, 1>> /\ round' = round + 1 /\ UNCHANGED <<pc, exit>>
       \/ /\ UNCHANGED <<at, round>> /\ pc' = "ended"
          /\ exit' \in {"success", "failure", "returned", "crashed"}

LEMMA EndsRoundKeeps ==
    ASSUME IInv, EndsRound, ok <= sent', sent' \in Nat,
           tool = "nfsls" => sent' = sent
    PROVE  /\ TypeOK' /\ OptionsInv' /\ ListInv' /\ StartInv' /\ WalkInv' /\ LockInv'
           /\ TotalsInv' /\ FilehandleInv' /\ NodeInv'
           /\ exit = "running" /\ ~cfg.fatal /\ round > 0
  <1> USE DEF IInv
  <1>1. /\ pc = "walk" /\ at[1] > Len(targets)
        /\ UNCHANGED <<targets, tool, cfg, lines, quitting, ok, again, status, nodename, sentAs>>
        /\ UNCHANGED <<offset, output, failed>>
        /\ \/ at' = <<1, 1>> /\ round' = round + 1 /\ UNCHANGED <<pc, exit>>
           \/ /\ UNCHANGED <<at, round>> /\ pc' = "ended"
              /\ exit' \in {"success", "failure", "returned", "crashed"}
    BY DEF EndsRound
  <1>2. /\ exit = "running" /\ ~cfg.fatal /\ round > 0 /\ round \in Nat
        /\ at \in (Nat \ {0}) \X (Nat \ {0})
    BY <1>1 DEF ExitInv, OptionsInv, StartInv, TypeOK, FhTypeOK
  <1>3. TypeOK'
    <2>1. /\ {lines', sent', round'} \subseteq Nat /\ ok' \in 0 .. sent'
          /\ at' \in (Nat \ {0}) \X (Nat \ {0})
      BY <1>1, <1>2 DEF TypeOK, FhTypeOK
    <2>2. /\ pc' \in {"getopt", "read", "walk", "ended"}
          /\ exit' \in {"running", "success", "failure", "returned", "usage",
                "killed", "crashed", "undefined"}
      BY <1>1, <1>2
    <2>3. QED
      BY <1>1, <2>1, <2>2 DEF TypeOK, FhTypeOK
  <1>4. OptionsInv'
    BY <1>1, <1>2 DEF OptionsInv
  <1>5. ListInv'
    BY <1>1 DEF ListInv, OneTargetPerAddress
  <1>6. StartInv'
    BY <1>1, <1>2 DEF StartInv
  <1>7. WalkInv'
    <2>1. CASE at' = at
      BY <1>1, <2>1 DEF WalkInv
    <2>2. CASE at' = <<1, 1>>
      <3>1. \A i \in DOMAIN targets : i \in Nat \ {0}
        BY TargetsTyped
      <3>2. QED
        BY <1>1, <2>2, <3>1 DEF WalkInv
    <2>3. QED
      BY <1>1, <2>1, <2>2
  <1>8. LockInv'
    <2>1. CASE UNCHANGED <<at, round>>
      BY <1>1, <2>1 DEF LockInv, Before
    <2>2. CASE at' = <<1, 1>> /\ round' = round + 1
      <3>1. SUFFICES ASSUME tool = "nfslock"
                     PROVE  LockInv'
        BY <1>1 DEF LockInv
      <3>2. ASSUME NEW i \in DOMAIN targets, NEW j \in DOMAIN targets[i].filehandles,
                   NEW k \in DOMAIN targets[i].filehandles
            PROVE  /\ targets[i].filehandles[j].sent <= round
                   /\ targets[i].filehandles[j].sent = targets[i].filehandles[k].sent
                   /\ ~Before(i, j)' /\ ~Before(i, k)'
        <4>1. Before(i, j) /\ Before(i, k)
          BY <1>1, AllBefore
        <4>2. ~Before(i, j)' /\ ~Before(i, k)'
          BY <2>2, NoneBefore
        <4>3. QED
          BY <1>2, <3>1, <4>1, <4>2 DEF LockInv
      <3>3. QED
        BY <1>1, <1>2, <2>2, <3>2 DEF LockInv
    <2>3. QED
      BY <1>1, <2>1, <2>2
  <1>9. TotalsInv'
    BY <1>1 DEF TotalsInv, Polls
  <1>10. FilehandleInv'
    BY <1>1 DEF FilehandleInv
  <1>11. NodeInv'
    <2>1. CASE UNCHANGED <<at, round>>
      BY <1>1, <2>1 DEF NodeInv
    <2>2. CASE round' = round + 1
      BY <1>1, <1>2, <2>2 DEF NodeInv
    <2>3. QED
      BY <1>1, <2>1, <2>2
  <1>12. QED
    BY <1>2, <1>3, <1>4, <1>5, <1>6, <1>7, <1>8, <1>9, <1>10, <1>11

\* A round of nfsls or nfsdf.
LEMMA EndOfRoundStep ==
    ASSUME IInv, NEW t \in {"nfsls", "nfsdf"}, EndOfRound(t), UNCHANGED <<catVars, lockVars>>
    PROVE  IInv'
  <1> USE DEF IInv
  <1>1. /\ pc = "walk" /\ tool = t /\ at[1] > Len(targets)
        /\ UNCHANGED <<targets, tool, cfg, lines, quitting, sent, ok, again>>
        /\ UNCHANGED <<offset, output, failed, status, nodename, sentAs>>
    BY DEF EndOfRound, catVars, lockVars
  <1>2. \/ /\ at' = <<1, 1>> /\ round' = round + 1 /\ UNCHANGED <<pc, exit>>
           /\ cfg.count # 0 /\ ~cfg.loop => targets # <<>> /\ MoreToSend
        \/ /\ UNCHANGED <<at, round>> /\ pc' = "ended" /\ exit' = "crashed"
        \/ /\ UNCHANGED <<at, round>> /\ pc' = "ended" /\ exit' \in {"success", "failure"}
           /\ exit' = "success" => Success
           /\ ~quitting /\ ~cfg.loop /\ cfg.count # 0 => targets # <<>> /\ ~MoreToSend
    BY DEF EndOfRound, End
  <1>3. /\ EndsRound /\ ok <= sent' /\ sent' \in Nat /\ sent' = sent /\ round \in Nat
        /\ cfg.count \in Nat /\ at \in (Nat \ {0}) \X (Nat \ {0})
    BY <1>1, <1>2 DEF EndsRound, TypeOK, FhTypeOK, Options
  <1>4. /\ TypeOK' /\ OptionsInv' /\ ListInv' /\ StartInv' /\ WalkInv' /\ LockInv'
        /\ TotalsInv' /\ FilehandleInv' /\ NodeInv'
        /\ exit = "running" /\ ~cfg.fatal /\ round > 0
    BY <1>3, EndsRoundKeeps
  <1>5. Polls
    BY <1>1 DEF Polls
  <1>6. \A i \in DOMAIN targets : \A j \in DOMAIN targets[i].filehandles :
           targets[i].filehandles[j].sent = round
    <2>1. \A i \in DOMAIN targets : \A j \in DOMAIN targets[i].filehandles : Before(i, j)
      BY <1>1, AllBefore
    <2>2. QED
      BY <1>4, <1>5, <2>1 DEF TurnInv
  <1>7. targets # <<>> => targets[1].filehandles[1].sent = round
    <2>1. SUFFICES ASSUME targets # <<>> PROVE targets[1].filehandles[1].sent = round
      OBVIOUS
    <2>2. /\ targets \in Seq(FhTarget) /\ DOMAIN targets = 1 .. Len(targets)
          /\ Len(targets) \in Nat
      BY TargetsTyped
    <2>3. 1 \in DOMAIN targets
      BY <2>1, <2>2, EmptySeq
    <2>4. /\ targets[1].filehandles \in Seq(FilehandleOf(Name))
          /\ DOMAIN targets[1].filehandles = 1 .. Len(targets[1].filehandles)
          /\ Len(targets[1].filehandles) \in Nat
      BY <2>3, TargetsTyped
    <2>5. targets[1].filehandles # <<>>
      <3>1. 1 < at[1]
        BY <1>1, <1>3, <2>2, <2>3
      <3>2. QED
        BY <2>3, <3>1 DEF WalkInv
    <2>6. 1 \in DOMAIN targets[1].filehandles
      BY <2>4, <2>5, EmptySeq
    <2>7. QED
      BY <1>6, <2>3, <2>6
  <1>8. TurnInv'
    <2>1. CASE UNCHANGED <<at, round>>
      <3>1. \A i \in DOMAIN targets : \A j \in DOMAIN targets[i].filehandles : Before(i, j)'
        BY <1>1, <2>1, AllBefore DEF Before
      <3>2. cfg.count # 0 /\ ~cfg.loop => round <= cfg.count
        BY <1>4, <1>5 DEF TurnInv
      <3>3. QED
        BY <1>1, <1>3, <1>6, <2>1, <3>1, <3>2 DEF TurnInv
    <2>2. CASE at' = <<1, 1>> /\ round' = round + 1 /\ (cfg.count # 0 /\ ~cfg.loop => targets # <<>> /\ MoreToSend)
      <3>1. \A i \in DOMAIN targets : \A j \in DOMAIN targets[i].filehandles : ~Before(i, j)'
        BY <2>2, NoneBefore
      <3>2. cfg.count # 0 /\ ~cfg.loop => round + 1 <= cfg.count
        BY <1>3, <1>7, <2>2 DEF MoreToSend
      <3>3. QED
        BY <1>1, <1>3, <1>6, <2>2, <3>1, <3>2 DEF TurnInv
    <2>3. QED
      BY <1>2, <2>1, <2>2
  <1>9. ExitInv'
    <2>1. CASE exit' = "running" \/ exit' = "crashed"
      BY <1>2, <1>4, <2>1 DEF ExitInv, Reported
    <2>2. CASE exit' \in {"success", "failure"}
      <3>1. /\ UNCHANGED <<at, round>> /\ pc' = "ended"
            /\ exit' = "success" => sent # 0 /\ sent = ok
            /\ ~quitting /\ ~cfg.loop /\ cfg.count # 0 => round >= cfg.count
        BY <1>2, <1>3, <1>4, <1>7, <2>2 DEF Success, MoreToSend
      <3>2. QED
        BY <1>1, <1>4, <3>1 DEF ExitInv, Reported, Polls
    <2>3. QED
      BY <1>2, <1>4, <2>1, <2>2
  <1>10. QED
    BY <1>4, <1>8, <1>9

\* The last file of nfscat, and a round of nfslock.
LEMMA EndOfWalkStep ==
    ASSUME IInv, (CatEnd /\ UNCHANGED lockVars) \/ (LockEndOfRound /\ UNCHANGED catVars)
    PROVE  IInv'
  <1> USE DEF IInv
  <1>1. /\ pc = "walk" /\ tool \in {"nfscat", "nfslock"} /\ at[1] > Len(targets)
        /\ UNCHANGED <<targets, tool, cfg, lines, quitting, ok, again>>
        /\ UNCHANGED <<offset, output, failed, status, nodename, sentAs>>
        /\ sent' \in {sent, sent + 1}
        /\ \/ at' = <<1, 1>> /\ round' = round + 1 /\ UNCHANGED <<pc, exit>>
           \/ /\ UNCHANGED <<at, round>> /\ pc' = "ended" /\ exit' \in {"success", "returned"}
    BY DEF CatEnd, LockEndOfRound, End, catVars, lockVars
  <1>2. EndsRound /\ ok <= sent' /\ sent' \in Nat
    BY <1>1 DEF EndsRound, TypeOK, FhTypeOK
  <1>3. /\ TypeOK' /\ OptionsInv' /\ ListInv' /\ StartInv' /\ WalkInv' /\ LockInv'
        /\ TotalsInv' /\ FilehandleInv' /\ NodeInv'
        /\ exit = "running" /\ ~cfg.fatal /\ round > 0
    BY <1>1, <1>2, EndsRoundKeeps
  <1>4. TurnInv'
    BY <1>1 DEF TurnInv, Polls
  <1>5. ExitInv'
    BY <1>1, <1>3 DEF ExitInv, Reported, Polls
  <1>6. QED
    BY <1>3, <1>4, <1>5

-----------------------------------------------------------------------------
\* The steps of the four tools by what they do to the list.
LEMMA StepsAre ==
    ASSUME [Next]_vars, IInv
    PROVE  \/ (LsGetopt \/ DfGetopt \/ CatGetopt \/ LockGetopt) /\ UNCHANGED <<catVars, lockVars>>
           \/ ReadLine /\ UNCHANGED <<catVars, lockVars>>
           \/ EndOfInput /\ UNCHANGED <<catVars, lockVars>>
           \/ Stops
           \/ \/ Connect("nfsls") /\ UNCHANGED <<catVars, lockVars>>
              \/ Connect("nfsdf") /\ UNCHANGED <<catVars, lockVars>>
              \/ CatConnect /\ UNCHANGED lockVars
              \/ LockConnect /\ UNCHANGED catVars
           \/ LockNoClient /\ UNCHANGED catVars
           \/ LsCall /\ UNCHANGED <<catVars, lockVars>>
           \/ (DfAnswered \/ DfRefused \/ DfLost) /\ UNCHANGED <<catVars, lockVars>>
           \/ (CatAnswered \/ CatFailed) /\ UNCHANGED lockVars
           \/ LockCall /\ UNCHANGED catVars
           \/ \E t \in {"nfsls", "nfsdf"} : EndOfRound(t) /\ UNCHANGED <<catVars, lockVars>>
           \/ (CatEnd /\ UNCHANGED lockVars) \/ (LockEndOfRound /\ UNCHANGED catVars)
  <1>1. quitting \in BOOLEAN /\ again \in BOOLEAN
    BY DEF IInv, TypeOK, FhTypeOK
  <1>2. CASE ReachFreed /\ UNCHANGED <<catVars, lockVars>>
    BY <1>1, <1>2 DEF ReachFreed, Walking, End, Stops
  <1>3. CASE \E t \in Tools : NoClientCrash(t) /\ UNCHANGED <<catVars, lockVars>>
    BY <1>1, <1>3 DEF NoClientCrash, Connecting, Walking, End, Stops
  <1>4. CASE User
    BY <1>1, <1>4 DEF User, Interrupt, End, Stops, Polls
  <1>5. CASE UNCHANGED vars
    BY <1>1, <1>5 DEF vars, fhVars, Stops
  <1>6. CASE Common
    BY <1>2, <1>6 DEF Common
  <1>7. CASE (LsNext \/ DfNext) /\ UNCHANGED <<catVars, lockVars>>
    <2>1. CASE LsAgain \/ LsRecurses
      BY <1>1, <1>7, <2>1 DEF LsAgain, LsRecurses, Calling, Walking, End, Stops
    <2>2. QED
      BY <1>3, <1>7, <2>1 DEF LsNext, DfNext, Tools
  <1>8. CASE CatNext /\ UNCHANGED lockVars
    <2>1. CASE (CatGetopt \/ NoClientCrash("nfscat")) /\ UNCHANGED catVars
      <3>1. UNCHANGED <<catVars, lockVars>>
        BY <1>8, <2>1
      <3>2. QED
        BY <1>3, <2>1, <3>1 DEF Tools
    <2>2. CASE CatConnect
      BY <1>8, <2>2
    <2>3. CASE CatAnswered \/ CatFailed
      BY <1>8, <2>3
    <2>4. CASE CatEnd
      BY <1>8, <2>4
    <2>5. QED
      BY <1>8, <2>1, <2>2, <2>3, <2>4 DEF CatNext
  <1>9. CASE LockNext /\ UNCHANGED catVars
    BY <1>9 DEF LockNext
  <1>10. QED
    BY <1>4, <1>5, <1>6, <1>7, <1>8, <1>9 DEF Next, Process, Ended

\* The list, the walk through it, the counters, the totals and the exit status
\* of all four tools stay in line with each other.
THEOREM FhIInvariant == Spec => []IInv
  <1>1. Init => IInv
    BY InitIInv
  <1>2. IInv /\ [Next]_vars => IInv'
    BY StepsAre, OptionStep, ReadStep, EndOfInputStep, StopStep, ConnectStep,
       LockNoClientStep, LsCallStep, DfCallStep, CatCallStep, LockCallStep,
       EndOfRoundStep, EndOfWalkStep
  <1>3. QED
    BY <1>1, <1>2, PTL DEF Spec

\* The filehandles of the list by their two numbers.
LEMMA FilehandlesAre ==
    ASSUME TypeOK, NEW p \in Filehandles
    PROVE  /\ p[1] \in DOMAIN targets /\ p[2] \in DOMAIN targets[p[1]].filehandles
           /\ FhAt(p) = targets[p[1]].filehandles[p[2]]
           /\ FhAt(p).sent \in Nat /\ FhAt(p).received \in Nat
  <1>1. PICK i \in DOMAIN targets : p \in {i} \X DOMAIN targets[i].filehandles
    BY DEF Filehandles
  <1>2. p[1] = i /\ p[2] \in DOMAIN targets[i].filehandles
    BY <1>1
  <1>3. QED
    BY <1>2, TargetsTyped DEF FhAt

\* nfsls and nfsdf report behind the end of a round, when each filehandle was
\* asked in every round.
LEMMA AllAsked ==
    ASSUME IInv, Polls, Reported, NEW p \in Filehandles
    PROVE  /\ FhAt(p).sent = round /\ round \in Nat
           /\ cfg.count # 0 /\ ~cfg.loop => round <= cfg.count
  <1>1. round > 0 /\ at[1] > Len(targets) /\ exit # "crashed"
    BY DEF IInv, ExitInv, Reported
  <1>2. /\ p[1] \in DOMAIN targets /\ p[2] \in DOMAIN targets[p[1]].filehandles
        /\ FhAt(p) = targets[p[1]].filehandles[p[2]]
    BY FilehandlesAre DEF IInv
  <1>3. Before(p[1], p[2])
    BY <1>1, <1>2, AllBefore DEF IInv
  <1>4. FhAt(p).sent = round /\ (cfg.count # 0 /\ ~cfg.loop => round <= cfg.count)
    BY <1>1, <1>2, <1>3 DEF IInv, TurnInv
  <1>5. round \in Nat
    BY DEF IInv, TypeOK, FhTypeOK
  <1>6. QED
    BY <1>4, <1>5

\* A target is in the list once; nfsls and nfsdf return 0 only if everything
\* was answered, and ask as often as -c or -C says; the results of -C have a
\* place, the mean is a number and the name the one that was read as long as
\* nothing failed; nfslock asks all filehandles of a server equally often,
\* and at first under the server's own name.  All this for every command line,
\* every input and all answers.
THEOREM FhToolsInvariant == Spec => []FhToolsInv
  <1>1. IInv => FhToolsInv
    <2> SUFFICES ASSUME IInv PROVE FhToolsInv
      OBVIOUS
    <2> USE DEF IInv
    <2>1. TypeOK /\ OneTargetPerAddress
      BY DEF ListInv
    <2>2. SuccessMeansAllAnswered
      <3> SUFFICES ASSUME Polls, exit = "success" PROVE SuccessMeansAllAnswered
        BY DEF SuccessMeansAllAnswered
      <3>1. Reported /\ sent # 0 /\ sent = ok /\ sent \in Nat
        BY DEF Reported, ExitInv, TypeOK, FhTypeOK
      <3>2. PICK i \in DOMAIN targets : \E j \in DOMAIN targets[i].filehandles :
                    targets[i].filehandles[j].sent > 0
        BY <3>1 DEF TotalsInv
      <3>3. PICK j \in DOMAIN targets[i].filehandles : TRUE
        BY <3>2
      <3>4. <<i, j>> \in Filehandles
        BY <3>3 DEF Filehandles
      <3>5. \A p \in Filehandles : FhAt(p).sent = round
        BY <3>1, AllAsked
      <3>6. \A p \in Filehandles : tool = "nfsls" => FhAt(p).received = FhAt(p).sent
        BY <3>1, FilehandlesAre DEF TotalsInv
      <3>7. QED
        BY <3>4, <3>5, <3>6 DEF SuccessMeansAllAnswered
    <2>3. CountIsExact
      <3> SUFFICES ASSUME Polls, Reported, cfg.count # 0, ~cfg.loop, ~quitting,
                          NEW p \in Filehandles
                   PROVE  FhAt(p).sent = cfg.count
        BY DEF CountIsExact
      <3>1. FhAt(p).sent = round /\ round <= cfg.count /\ round \in Nat
        BY AllAsked
      <3>2. round >= cfg.count /\ cfg.count \in Nat
        BY DEF ExitInv, TypeOK, FhTypeOK, Options
      <3>3. QED
        BY <3>1, <3>2
    <2>4. ResultsInBounds
      <3> SUFFICES ASSUME tool = "nfsls", cfg.format = "fping", NEW p \in Filehandles
                   PROVE  FhAt(p).sent <= FhAt(p).results
        BY DEF ResultsInBounds
      <3>1. /\ p[1] \in DOMAIN targets /\ p[2] \in DOMAIN targets[p[1]].filehandles
            /\ FhAt(p) = targets[p[1]].filehandles[p[2]]
            /\ FhAt(p).sent \in Nat
        BY FilehandlesAre
      <3>2. targets # <<>>
        BY <3>1, EmptySeq
      <3>3. cfg.count # 0 /\ ~cfg.loop /\ cfg.results = cfg.count
        BY <3>2 DEF OptionsInv
      <3>4. FhAt(p).results = cfg.count
        BY <3>1, <3>3 DEF ListInv
      <3>5. round \in Nat /\ cfg.count \in Nat
        BY DEF TypeOK, FhTypeOK, Options
      <3>6. CASE round = 0
        BY <3>1, <3>4, <3>5, <3>6 DEF StartInv, IsNew
      <3>7. CASE round # 0
        <4>1. FhAt(p).sent <= round /\ round <= cfg.count
          BY <3>1, <3>3, <3>5, <3>7 DEF TurnInv, Polls
        <4>2. QED
          BY <3>1, <3>4, <3>5, <4>1
      <3>8. QED
        BY <3>6, <3>7
    <2>5. AverageIsReal
      BY FilehandlesAre DEF AverageIsReal, FilehandleInv
    <2>6. NamedAsRead
      BY FilehandlesAre DEF NamedAsRead, FilehandleInv
    <2>7. LockAsksAll
      <3> SUFFICES ASSUME tool = "nfslock", at[1] > Len(targets),
                          NEW p \in Filehandles, NEW q \in Filehandles, p[1] = q[1]
                   PROVE  FhAt(p).sent = FhAt(q).sent /\ FhAt(p).sent <= round
        BY DEF LockAsksAll
      <3>1. /\ p[1] \in DOMAIN targets /\ p[2] \in DOMAIN targets[p[1]].filehandles
            /\ q[2] \in DOMAIN targets[p[1]].filehandles
            /\ FhAt(p) = targets[p[1]].filehandles[p[2]]
            /\ FhAt(q) = targets[p[1]].filehandles[q[2]]
            /\ round \in Nat
        BY FilehandlesAre DEF TypeOK, FhTypeOK
      <3>2. Before(p[1], p[2]) /\ Before(p[1], q[2])
        BY <3>1, AllBefore
      <3>3. CASE round = 0
        BY <3>1, <3>3 DEF StartInv, IsNew
      <3>4. CASE round # 0
        BY <3>1, <3>2, <3>4 DEF LockInv
      <3>5. QED
        BY <3>3, <3>4
    <2>8. NamedInFirstRound
      BY DEF NamedInFirstRound, NodeInv
    <2>9. QED
      BY <2>1, <2>2, <2>3, <2>4, <2>5, <2>6, <2>7, <2>8 DEF FhToolsInv
  <1>2. QED
    BY <1>1, FhIInvariant, PTL

\* What FilehandlesAreKept says of one step.
KeepsFilehandles ==
    \A i \in DOMAIN targets :
        /\ i \in DOMAIN targets'
        /\ targets'[i].ip = targets[i].ip
        /\ \A j \in DOMAIN targets[i].filehandles :
              /\ j \in DOMAIN targets'[i].filehandles
              /\ targets'[i].filehandles[j].given = targets[i].filehandles[j].given

LEMMA CallKeepsFilehandles ==
    ASSUME NEW f, CallOf(f)
    PROVE  KeepsFilehandles
  <1>1. /\ OneCalled(f) /\ f.given = fh.given /\ fh = targets[at[1]].filehandles[at[2]]
    BY CallFacts
  <1>2. QED
    BY <1>1 DEF OneCalled, KeepsFilehandles

\* A filehandle that was read keeps its place in the list and the path it was
\* read with, and its target the address, through more input for any target
\* and through all calls.
THEOREM FilehandlesStay == Spec => FilehandlesAreKept
  <1>1. IInv /\ [Next]_vars => [KeepsFilehandles]_vars
    <2> SUFFICES ASSUME IInv, [Next]_vars PROVE [KeepsFilehandles]_vars
      OBVIOUS
    <2>1. ASSUME UNCHANGED targets
          PROVE  KeepsFilehandles
      BY <2>1 DEF KeepsFilehandles
    <2>2. CASE LsGetopt \/ DfGetopt \/ CatGetopt \/ LockGetopt
      BY <2>1, <2>2 DEF LsGetopt, DfGetopt, CatGetopt, LockGetopt, GetOption, EndOfOptions
    <2>3. CASE ReadLine
      <3>1. targets' = targets \/ \E line \in Lines : ReadIn(targets, line, cfg.results, targets')
        BY <2>3, ReadEffect
      <3>2. QED
        BY <2>1, <3>1 DEF ReadIn, KeepsFilehandles
    <2>4. CASE EndOfInput \/ Stops \/ LockNoClient
      BY <2>1, <2>4 DEF EndOfInput, Stops, LockNoClient
    <2>5. CASE \/ Connect("nfsls") \/ Connect("nfsdf")
               \/ CatConnect \/ LockConnect
      <3>1. PICK t \in Tools : Connecting(t) /\ targets' = [targets EXCEPT ![at[1]].client = TRUE]
        BY <2>5 DEF Connect, CatConnect, LockConnect, Tools
      <3>2. Connected
        BY <3>1, ConnectEffect
      <3>3. QED
        BY <3>2 DEF Connected, KeepsFilehandles
    <2>6. CASE LsCall
      BY <2>6, LsCalls, CallKeepsFilehandles
    <2>7. CASE DfAnswered \/ DfRefused \/ DfLost
      BY <2>7, DfCalls, CallKeepsFilehandles
    <2>8. CASE (CatAnswered \/ CatFailed) /\ UNCHANGED lockVars
      BY <2>8, CatReads, CallKeepsFilehandles DEF ReadUpTo
    <2>9. CASE LockCall
      <3>1. PICK n \in {0, 1}, f \in FilehandleOf(Name) : OneCalled(f) /\ Counts(f, n)
        BY <2>9, LockEffect
      <3>2. /\ Calling("nfslock") /\ "nfslock" \in Tools /\ NextFilehandle
            /\ UNCHANGED <<pc, exit>> /\ again' \in BOOLEAN
        BY <2>9 DEF LockCall, Tools, IInv, TypeOK, FhTypeOK
      <3>3. CallOf(f)
        BY <3>1, <3>2 DEF CallOf, Counts
      <3>4. QED
        BY <3>3, CallKeepsFilehandles
    <2>10. CASE (\E t \in {"nfsls", "nfsdf"} : EndOfRound(t)) \/ CatEnd \/ LockEndOfRound
      BY <2>1, <2>10 DEF EndOfRound, CatEnd, LockEndOfRound
    <2>11. QED
      BY <2>2, <2>3, <2>4, <2>5, <2>6, <2>7, <2>8, <2>9, <2>10, StepsAre
  <1>2. [KeepsFilehandles]_vars => [\A i \in DOMAIN targets :
          /\ i \in DOMAIN targets'
          /\ targets'[i].ip = targets[i].ip
          /\ \A j \in DOMAIN targets[i].filehandles :
                /\ j \in DOMAIN targets'[i].filehandles
                /\ targets'[i].filehandles[j].given = targets[i].filehandles[j].given
            ]_vars
    BY DEF KeepsFilehandles
  <1>3. QED
    BY <1>1, <1>2, FhIInvariant, PTL DEF Spec, FilehandlesAreKept

-----------------------------------------------------------------------------
(* What nfscat writes.                                                     *)

\* The tools that write no file.
LEMMA NoCat ==
    ASSUME CatInv, tool # "nfscat", tool' = tool, UNCHANGED catVars
    PROVE  CatInv' /\ WholeInv'
  <1>1. offset' = 0 /\ output' = <<>> /\ failed' = {}
    BY DEF CatInv, catVars
  <1>2. Len(output') = 0 /\ DOMAIN output' = {}
    BY <1>1, EmptySeq
  <1>3. WrittenInOrder'
    BY <1>2 DEF WrittenInOrder
  <1>4. QED
    BY <1>1, <1>2, <1>3 DEF CatInv, WholeInv

\* Before the first file.
LEMMA NoFile ==
    ASSUME tool' = "nfscat", round' <= 1, at' = <<1, 1>>, output' = <<>>,
           \A i \in DOMAIN targets' : i \in Nat \ {0} /\ ~targets'[i].client
    PROVE  CatInv' /\ WholeInv'
  <1>1. Len(output') = 0 /\ DOMAIN output' = {}
    BY EmptySeq
  <1>2. CatInv'
    BY <1>1 DEF CatInv, WrittenInOrder
  <1>3. ASSUME NEW i \in DOMAIN targets'
        PROVE  /\ WrittenOf(<<i, 1>>)' = {} /\ ~Before(i, 1)' /\ ~targets'[i].client
    BY <1>1 DEF WrittenOf, Before
  <1>4. 1 .. 0 = {}
    OBVIOUS
  <1>5. WholeInv'
    BY <1>3, <1>4 DEF WholeInv
  <1>6. QED
    BY <1>2, <1>5

\* A new connection: nothing of its files is written yet.
LEMMA CatConnectKeeps ==
    ASSUME IInv, CatInv, WholeInv, CatConnect
    PROVE  CatInv' /\ WholeInv'
  <1>1. /\ at \in (Nat \ {0}) \X (Nat \ {0}) /\ at[1] \in DOMAIN targets
        /\ tool = "nfscat" /\ at[2] = 1 /\ ~targets[at[1]].client
        /\ UNCHANGED <<tool, cfg, round, at, output, failed>> /\ offset' = 0
    <2>1. /\ Walking("nfscat") /\ ~Current.freed /\ ~Current.client
          /\ UNCHANGED <<at, output, failed>> /\ offset' = 0
      BY DEF CatConnect, Connecting
    <2>2. QED
      BY <2>1, AtTarget DEF Current
  <1>2. Connected
    BY ConnectEffect DEF CatConnect
  <1>3. \A k \in DOMAIN output : Before(output[k][1], output[k][2])
    BY <1>1 DEF CatInv
  <1>4. CatInv'
    BY <1>1, <1>3 DEF CatInv, WrittenInOrder, Before
  <1>5. ASSUME NEW i \in DOMAIN targets'
        PROVE  /\ i \in DOMAIN targets /\ (Before(i, 1)' <=> Before(i, 1))
               /\ WrittenOf(<<i, 1>>)' = WrittenOf(<<i, 1>>)
               /\ i # at[1] => (targets'[i].client <=> targets[i].client)
               /\ i = at[1] => ~Before(i, 1)
    <2>1. /\ i \in DOMAIN targets /\ i \in Nat
          /\ i # at[1] => (targets'[i].client <=> targets[i].client)
      BY <1>2, TargetsTyped DEF IInv, Connected
    <2>2. (Before(i, 1)' <=> Before(i, 1)) /\ (i = at[1] => ~Before(i, 1))
      BY <1>1, <2>1 DEF Before
    <2>3. WrittenOf(<<i, 1>>)' = WrittenOf(<<i, 1>>)
      BY <1>1 DEF WrittenOf
    <2>4. QED
      BY <2>1, <2>2, <2>3
  <1>6. WholeInv'
    BY <1>1, <1>5 DEF WholeInv
  <1>7. QED
    BY <1>4, <1>6

\* What ReadUpTo says, expanded.
LEMMA ReadFacts ==
    ASSUME NEW f, NEW end, ReadUpTo(end, f)
    PROVE  /\ IInv /\ tool = "nfscat" /\ UNCHANGED <<tool, cfg, round>>
           /\ at \in (Nat \ {0}) \X (Nat \ {0}) /\ at[1] \in DOMAIN targets
           /\ targets[at[1]].client /\ DOMAIN targets' = DOMAIN targets
           /\ \A i \in DOMAIN targets :
                 i \in Nat \ {0} /\ targets'[i].client = targets[i].client
           /\ at' = at \/ at' = <<at[1], at[2] + 1>> \/ at' = <<at[1] + 1, 1>>
           /\ Size \in Nat /\ offset \in 0..Size /\ end \in offset .. Size
           /\ offset' = end /\ output \in Seq(Block) /\ failed \subseteq failed'
           /\ at' # at => end = Size \/ at \in failed' \/ cfg.count # 0
  <1>1. CallOf(f) /\ tool = "nfscat" /\ (at' = at \/ NextFilehandle)
    BY DEF ReadUpTo
  <1>2. /\ IInv /\ UNCHANGED <<tool, cfg, round>>
        /\ at \in (Nat \ {0}) \X (Nat \ {0}) /\ at[1] \in DOMAIN targets
        /\ targets[at[1]].client /\ DOMAIN targets' = DOMAIN targets
        /\ \A i \in DOMAIN targets :
              i \in Nat \ {0} /\ targets'[i].client = targets[i].client
    BY <1>1, CallFacts, TargetsTyped DEF IInv, OneCalled
  <1>3. at' = at \/ at' = <<at[1], at[2] + 1>> \/ at' = <<at[1] + 1, 1>>
    BY <1>1 DEF NextFilehandle
  <1>4. Size \in Nat /\ offset \in 0..Size /\ output \in Seq(Block)
    BY <1>2, NfsCatAssumption DEF IInv, TypeOK, Block
  <1>5. /\ offset' = end /\ end \in offset .. Size /\ failed \subseteq failed'
        /\ at' # at => end = Size \/ at \in failed' \/ cfg.count # 0
    BY DEF ReadUpTo
  <1>6. QED
    BY <1>1, <1>2, <1>3, <1>4, <1>5

\* A read adds the blocks behind the offset, unless reads are only counted.
LEMMA OutputAfter ==
    ASSUME CatInv, NEW f, NEW end, ReadUpTo(end, f)
    PROVE  /\ output' \in Seq(Block) /\ Len(output) \in Nat /\ Len(output') \in Nat
           /\ DOMAIN output = 1 .. Len(output) /\ DOMAIN output' = 1 .. Len(output')
           /\ cfg.count = 0 => Len(output') = Len(output) + (end - offset)
           /\ cfg.count # 0 => output' = <<>> /\ Len(output') = 0 /\ Len(output) = 0
           /\ \A k \in 1 .. Len(output) : output'[k] = output[k]
           /\ \A k \in 1 .. Len(output') : k > Len(output) =>
                 output'[k] = <<at[1], at[2], offset + (k - Len(output))>>
  <1>1. /\ at \in (Nat \ {0}) \X (Nat \ {0}) /\ output \in Seq(Block)
        /\ Size \in Nat /\ offset \in 0..Size /\ end \in offset .. Size
    BY ReadFacts
  <1>2. /\ Blocks(end) \in Seq(Block) /\ Len(Blocks(end)) = end - offset
        /\ \A k \in 1..(end - offset) : Blocks(end)[k] = <<at[1], at[2], offset + k>>
    BY <1>1, BlocksAre
  <1>3. /\ Len(output) \in Nat /\ DOMAIN output = 1 .. Len(output)
        /\ cfg.count # 0 => output = <<>> /\ Len(output) = 0
    BY <1>1, LenProperties, EmptySeq DEF CatInv
  <1>4. CASE output' = output /\ (end = offset \/ cfg.count # 0)
    <2>1. cfg.count = 0 => end - offset = 0
      BY <1>1, <1>4
    <2>2. QED
      BY <1>1, <1>3, <1>4, <2>1
  <1>5. CASE output' = output \o Blocks(end) /\ cfg.count = 0
    <2>1. /\ output' \in Seq(Block) /\ Len(output') = Len(output) + (end - offset)
          /\ \A k \in 1 .. Len(output) + (end - offset) :
                output'[k] = IF k <= Len(output) THEN output[k] ELSE Blocks(end)[k - Len(output)]
      BY <1>1, <1>2, <1>5, ConcatProperties
    <2>2. end - offset \in Nat
      BY <1>1
    <2>3. \A k \in 1 .. Len(output) : output'[k] = output[k]
      BY <1>3, <2>1, <2>2
    <2>4. ASSUME NEW k \in 1 .. Len(output'), k > Len(output)
          PROVE  output'[k] = <<at[1], at[2], offset + (k - Len(output))>>
      <3>1. k - Len(output) \in 1 .. (end - offset)
        BY <1>3, <2>1, <2>2, <2>4
      <3>2. output'[k] = Blocks(end)[k - Len(output)]
        BY <1>3, <2>1, <2>2, <2>4
      <3>3. QED
        BY <1>2, <3>1, <3>2
    <2>5. DOMAIN output' = 1 .. Len(output') /\ Len(output') \in Nat
      BY <2>1, LenProperties
    <2>6. QED
      BY <1>3, <1>5, <2>1, <2>3, <2>4, <2>5
  <1>6. QED
    BY <1>4, <1>5 DEF ReadUpTo

\* Before, behind a step.
Passed(i, j) == i < at'[1] \/ (i = at'[1] /\ j < at'[2])

\* The walk only goes forward, and past the current file in order.
LEMMA ReadMoves ==
    ASSUME NEW f, NEW end, ReadUpTo(end, f), NEW i \in Nat \ {0}, NEW j \in Nat \ {0}
    PROVE  /\ Before(i, j) => Passed(i, j)
           /\ at' # at => Passed(at[1], at[2])
           /\ Passed(i, 1) <=> Before(i, 1) \/ (at' # at /\ i = at[1] /\ at[2] = 1)
           /\ at' # at /\ i = at'[1] => i = at[1] + 1 \/ Passed(i, 1)
  <1>1. at \in (Nat \ {0}) \X (Nat \ {0})
    BY ReadFacts
  <1>2. PICK x \in Nat \ {0}, y \in Nat \ {0} : at[1] = x /\ at[2] = y /\ at = <<x, y>>
    BY <1>1
  <1>3. at' = <<x, y>> \/ at' = <<x, y + 1>> \/ at' = <<x + 1, 1>>
    BY <1>2, ReadFacts
  <1>4. /\ Before(i, j) <=> i < x \/ (i = x /\ j < y)
        /\ Before(i, 1) <=> i < x \/ (i = x /\ 1 < y)
    BY <1>2 DEF Before, Passed
  <1>5. CASE at' = <<x, y>>
    BY <1>2, <1>4, <1>5 DEF Before, Passed
  <1>6. CASE at' = <<x, y + 1>>
    <2>1. at'[1] = x /\ at'[2] = y + 1 /\ at' # at
      BY <1>2, <1>6
    <2>2. QED
      BY <1>2, <1>4, <2>1 DEF Before, Passed
  <1>7. CASE at' = <<x + 1, 1>>
    <2>1. at'[1] = x + 1 /\ at'[2] = 1 /\ at' # at
      BY <1>2, <1>7
    <2>2. QED
      BY <1>2, <1>4, <2>1 DEF Before, Passed
  <1>8. QED
    BY <1>3, <1>5, <1>6, <1>7

\* The output stays in order.
LEMMA ReadKeepsOrder ==
    ASSUME CatInv, NEW f, NEW end, ReadUpTo(end, f)
    PROVE  WrittenInOrder'
  <1>1. /\ at \in (Nat \ {0}) \X (Nat \ {0}) /\ output \in Seq(Block)
        /\ Size \in Nat /\ offset \in Nat
    BY ReadFacts
  <1>2. /\ Len(output) \in Nat /\ Len(output') \in Nat
        /\ DOMAIN output = 1 .. Len(output)
        /\ \A k \in 1 .. Len(output) : output'[k] = output[k]
        /\ \A k \in 1 .. Len(output') : k > Len(output) =>
              output'[k] = <<at[1], at[2], offset + (k - Len(output))>>
    BY OutputAfter
  <1> SUFFICES ASSUME NEW k \in 2 .. Len(output')
               PROVE  LET o == output'[k]
                          b == output'[k - 1]
                      IN IF o[1] = b[1] /\ o[2] = b[2] THEN o[3] = b[3] + 1
                         ELSE o[1] > b[1] \/ (o[1] = b[1] /\ o[2] > b[2])
    BY DEF WrittenInOrder
  <1>3. k \in 1 .. Len(output') /\ k - 1 \in 1 .. Len(output')
    BY <1>2
  <1>4. CASE k <= Len(output)
    <2>1. /\ k \in 2 .. Len(output) /\ k - 1 \in 1 .. Len(output)
          /\ output'[k] = output[k] /\ output'[k - 1] = output[k - 1]
      BY <1>2, <1>4
    <2>2. QED
      BY <2>1 DEF CatInv, WrittenInOrder
  <1>5. CASE k = Len(output) + 1
    <2>1. /\ k - 1 = Len(output) /\ k - 1 \in DOMAIN output
          /\ output'[k - 1] = output[k - 1] /\ output[k - 1] \in Block
      BY <1>1, <1>2, <1>3, <1>5, ElementOfSeq
    <2>2. output'[k] = <<at[1], at[2], offset + 1>>
      <3>1. k > Len(output) /\ k - Len(output) = 1
        BY <1>2, <1>5
      <3>2. QED
        BY <1>2, <1>3, <3>1
    <2>3. PICK x \in Nat, y \in Nat, z \in Nat : output[k - 1] = <<x, y, z>>
      BY <1>1, <2>1 DEF Block
    <2>4. \/ Before(x, y)
          \/ x = at[1] /\ y = at[2] /\ z = offset
      BY <2>1, <2>3 DEF CatInv
    <2>5. QED
      BY <1>1, <2>1, <2>2, <2>3, <2>4 DEF Before, Passed
  <1>6. CASE k > Len(output) + 1
    <2>1. /\ k > Len(output) /\ k - 1 > Len(output)
          /\ k - Len(output) = (k - 1 - Len(output)) + 1 /\ k - 1 - Len(output) \in Nat
      BY <1>2, <1>3, <1>6
    <2>2. /\ output'[k] = <<at[1], at[2], offset + (k - Len(output))>>
          /\ output'[k - 1] = <<at[1], at[2], offset + (k - 1 - Len(output))>>
      BY <1>2, <1>3, <2>1
    <2>3. offset + (k - Len(output)) = (offset + (k - 1 - Len(output))) + 1
      BY <1>1, <2>1
    <2>4. QED
      BY <2>2, <2>3
  <1>7. QED
    BY <1>2, <1>4, <1>5, <1>6

\* What a read leaves behind of the output.
LEMMA ReadKeepsCat ==
    ASSUME CatInv, NEW f, NEW end, ReadUpTo(end, f)
    PROVE  CatInv'
  <1>1. /\ tool = "nfscat" /\ UNCHANGED <<tool, cfg, round>>
        /\ at \in (Nat \ {0}) \X (Nat \ {0}) /\ at[1] \in DOMAIN targets
        /\ targets[at[1]].client /\ DOMAIN targets' = DOMAIN targets
        /\ \A i \in DOMAIN targets : targets'[i].client = targets[i].client
        /\ Size \in Nat /\ offset \in 0..Size /\ end \in offset .. Size
        /\ offset' = end /\ output \in Seq(Block)
    BY ReadFacts
  <1>2. /\ Len(output) \in Nat /\ Len(output') \in Nat
        /\ DOMAIN output = 1 .. Len(output) /\ DOMAIN output' = 1 .. Len(output')
        /\ cfg.count = 0 => Len(output') = Len(output) + (end - offset)
        /\ cfg.count # 0 => output' = <<>> /\ Len(output') = 0
        /\ \A k \in 1 .. Len(output) : output'[k] = output[k]
        /\ \A k \in 1 .. Len(output') : k > Len(output) =>
              output'[k] = <<at[1], at[2], offset + (k - Len(output))>>
    BY OutputAfter
  <1>3. ASSUME NEW k \in DOMAIN output'
        PROVE  \/ Passed(output'[k][1], output'[k][2])
               \/ /\ output'[k][1] = at'[1] /\ output'[k][2] = at'[2]
                  /\ output'[k][3] <= offset'
                  /\ at'[1] \in DOMAIN targets' /\ targets'[at'[1]].client
                  /\ k = Len(output') => output'[k][3] = offset'
    <2>1. cfg.count = 0 /\ Len(output') = Len(output) + (end - offset) /\ k \in 1 .. Len(output')
      BY <1>2
    <2>2. CASE k <= Len(output)
      <3>1. k \in DOMAIN output /\ output'[k] = output[k] /\ output[k] \in Block
        BY <1>1, <1>2, <2>1, <2>2, ElementOfSeq
      <3>2. PICK x \in Nat \ {0}, y \in Nat \ {0}, z \in 1..Size : output[k] = <<x, y, z>>
        BY <3>1 DEF Block
      <3>3. \/ Before(x, y)
            \/ /\ x = at[1] /\ y = at[2] /\ z <= offset
               /\ k = Len(output) => z = offset
        BY <3>1, <3>2 DEF CatInv
      <3>4. output'[k][1] = x /\ output'[k][2] = y /\ output'[k][3] = z
        BY <3>1, <3>2
      <3>5. CASE Before(x, y) \/ (at' # at /\ x = at[1] /\ y = at[2])
        <4>1. Passed(x, y)
          BY <1>1, <3>5, ReadMoves
        <4>2. QED
          BY <3>4, <4>1
      <3>6. CASE at' = at /\ x = at[1] /\ y = at[2] /\ z <= offset /\ (k = Len(output) => z = offset)
        <4>1. z <= end /\ (k = Len(output') => z = end)
          BY <1>1, <1>2, <2>1, <2>2, <3>6
        <4>2. QED
          BY <1>1, <3>4, <3>6, <4>1
      <3>7. QED
        BY <3>3, <3>5, <3>6
    <2>3. CASE k > Len(output)
      <3>1. /\ output'[k] = <<at[1], at[2], offset + (k - Len(output))>>
            /\ offset + (k - Len(output)) <= end
            /\ k = Len(output') => offset + (k - Len(output)) = end
        BY <1>1, <1>2, <2>1, <2>3
      <3>2. output'[k][1] = at[1] /\ output'[k][2] = at[2]
            /\ output'[k][3] = offset + (k - Len(output))
        BY <3>1
      <3>3. CASE at' = at
        BY <1>1, <3>1, <3>2, <3>3
      <3>4. CASE at' # at
        <4>1. Passed(at[1], at[2])
          BY <1>1, <3>4, ReadMoves
        <4>2. QED
          BY <3>2, <4>1
      <3>5. QED
        BY <3>3, <3>4
    <2>4. QED
      BY <1>2, <2>1, <2>2, <2>3
  <1>4. WrittenInOrder'
    BY ReadKeepsOrder
  <1>5. round <= 1 /\ tool' = "nfscat" /\ (cfg'.count # 0 => output' = <<>>)
    BY <1>1, <1>2 DEF CatInv
  <1>6. QED
    BY <1>1, <1>3, <1>4, <1>5 DEF CatInv, Before, Passed

\* A read writes the blocks up to its end, of the current file only.
LEMMA WrittenAfter ==
    ASSUME CatInv, NEW f, NEW end, ReadUpTo(end, f), cfg.count = 0, NEW i, NEW j
    PROVE  WrittenOf(<<i, j>>)' =
              WrittenOf(<<i, j>>) \cup
                 (IF i = at[1] /\ j = at[2] THEN (offset + 1) .. end ELSE {})
  <1>1. /\ Size \in Nat /\ offset \in Nat /\ end \in Nat /\ offset <= end
        /\ Len(output) \in Nat /\ Len(output') = Len(output) + (end - offset)
        /\ DOMAIN output = 1 .. Len(output) /\ DOMAIN output' = 1 .. Len(output')
        /\ \A k \in 1 .. Len(output) : output'[k] = output[k]
        /\ \A k \in 1 .. Len(output') : k > Len(output) =>
              output'[k] = <<at[1], at[2], offset + (k - Len(output))>>
    BY ReadFacts, OutputAfter
  <1> DEFINE W == {output[k][3] : k \in {l \in DOMAIN output : output[l][1] = i /\ output[l][2] = j}}
             X == {output'[k][3] : k \in {l \in DOMAIN output' : output'[l][1] = i /\ output'[l][2] = j}}
             New == IF i = at[1] /\ j = at[2] THEN (offset + 1) .. end ELSE {}
  <1>2. WrittenOf(<<i, j>>) = W /\ WrittenOf(<<i, j>>)' = X
    BY DEF WrittenOf
  <1>3. ASSUME NEW b \in X PROVE b \in W \cup New
    <2>1. PICK k \in 1 .. Len(output') : b = output'[k][3] /\ output'[k][1] = i /\ output'[k][2] = j
      BY <1>1
    <2>2. CASE k <= Len(output)
      <3>1. k \in 1 .. Len(output) /\ output'[k] = output[k]
        BY <1>1, <2>2
      <3>2. b \in W
        BY <1>1, <2>1, <3>1
      <3>3. QED
        BY <3>2
    <2>3. CASE k > Len(output)
      <3>1. output'[k] = <<at[1], at[2], offset + (k - Len(output))>>
        BY <1>1, <2>3
      <3>2. b = offset + (k - Len(output)) /\ i = at[1] /\ j = at[2]
        BY <2>1, <3>1
      <3>3. b \in (offset + 1) .. end
        BY <1>1, <2>3, <3>2
      <3>4. QED
        BY <3>2, <3>3
    <2>4. QED
      BY <1>1, <2>2, <2>3
  <1>4. ASSUME NEW b \in W PROVE b \in X
    <2>1. PICK k \in 1 .. Len(output) : b = output[k][3] /\ output[k][1] = i /\ output[k][2] = j
      BY <1>1
    <2>2. k \in 1 .. Len(output') /\ output'[k] = output[k]
      BY <1>1
    <2>3. QED
      BY <1>1, <2>1, <2>2
  <1>5. ASSUME NEW b \in New PROVE b \in X
    <2>1. i = at[1] /\ j = at[2] /\ b \in (offset + 1) .. end
      OBVIOUS
    <2> DEFINE k == Len(output) + (b - offset)
    <2>2. /\ k \in 1 .. Len(output') /\ k > Len(output)
          /\ offset + (k - Len(output)) = b
      <3>1. /\ Len(output) \in Nat /\ Len(output') = Len(output) + (end - offset)
            /\ offset \in Nat /\ end \in Nat /\ b \in (offset + 1) .. end
        BY <1>1, <2>1
      <3>2. QED
        BY <3>1
    <2> HIDE DEF k
    <2>3. output'[k] = <<at[1], at[2], b>>
      BY <1>1, <2>2
    <2>4. k \in {l \in DOMAIN output' : output'[l][1] = i /\ output'[l][2] = j}
      BY <1>1, <2>1, <2>2, <2>3
    <2>5. output'[k][3] = b
      BY <2>3
    <2>6. QED
      BY <2>4, <2>5
  <1> HIDE DEF W, X, New
  <1>6. X = W \cup New
    BY <1>3, <1>4, <1>5
  <1>7. QED
    BY <1>2, <1>6 DEF New

\* The first file of a server is whole when the walk goes past it.
LEMMA ReadKeepsWhole ==
    ASSUME CatInv, WholeInv, NEW f, NEW end, ReadUpTo(end, f)
    PROVE  WholeInv'
  <1>1. /\ IInv /\ tool = "nfscat" /\ UNCHANGED <<tool, cfg, round>>
        /\ at \in (Nat \ {0}) \X (Nat \ {0}) /\ at[1] \in DOMAIN targets
        /\ targets[at[1]].client /\ DOMAIN targets' = DOMAIN targets
        /\ \A i \in DOMAIN targets :
              i \in Nat \ {0} /\ targets'[i].client = targets[i].client
        /\ Size \in Nat /\ offset \in 0..Size /\ end \in offset .. Size
        /\ offset' = end /\ failed \subseteq failed'
        /\ at' # at => end = Size \/ at \in failed' \/ cfg.count # 0
    BY ReadFacts
  <1> SUFFICES ASSUME cfg.count = 0, NEW i \in DOMAIN targets, <<i, 1>> \notin failed'
               PROVE  WrittenOf(<<i, 1>>)' =
                         1 .. (IF Passed(i, 1) THEN Size
                               ELSE IF i = at'[1] /\ targets'[i].client THEN offset'
                               ELSE 0)
    BY <1>1 DEF WholeInv, Before, Passed
  <1>2. WrittenOf(<<i, 1>>) = 1 .. (IF Before(i, 1) THEN Size
                                    ELSE IF i = at[1] /\ targets[i].client THEN offset
                                    ELSE 0)
    BY <1>1 DEF WholeInv
  <1>3. WrittenOf(<<i, 1>>)' =
           WrittenOf(<<i, 1>>) \cup
              (IF i = at[1] /\ 1 = at[2] THEN (offset + 1) .. end ELSE {})
    BY WrittenAfter
  <1>4. i \in Nat \ {0}
    BY <1>1
  <1>5. /\ Passed(i, 1) <=> Before(i, 1) \/ (at' # at /\ i = at[1] /\ at[2] = 1)
        /\ at' # at /\ i = at'[1] => i = at[1] + 1 \/ Passed(i, 1)
    BY <1>4, ReadMoves
  <1>6. CASE i = at[1] /\ at[2] = 1
    <2>1. ~Before(i, 1) /\ targets[i].client /\ targets'[i].client
      BY <1>1, <1>6 DEF Before
    <2>2. WrittenOf(<<i, 1>>)' = (1 .. offset) \cup ((offset + 1) .. end)
      BY <1>2, <1>3, <1>6, <2>1
    <2>3. WrittenOf(<<i, 1>>)' = 1 .. end
      <3>1. offset \in Nat /\ end \in Nat /\ offset <= end
        BY <1>1
      <3>2. (1 .. offset) \cup ((offset + 1) .. end) = 1 .. end
        BY <3>1
      <3>3. QED
        BY <2>2, <3>2
    <2>4. CASE at' = at
      BY <1>1, <1>5, <1>6, <2>1, <2>3, <2>4
    <2>5. CASE at' # at
      <3>1. at = <<i, 1>>
        BY <1>1, <1>6
      <3>2. end = Size
        BY <1>1, <2>5, <3>1
      <3>3. QED
        BY <1>5, <1>6, <2>3, <2>5, <3>2
    <2>6. QED
      BY <2>4, <2>5
  <1>7. CASE ~(i = at[1] /\ at[2] = 1)
    <2>1. WrittenOf(<<i, 1>>)' = WrittenOf(<<i, 1>>) /\ (Passed(i, 1) <=> Before(i, 1))
      BY <1>3, <1>5, <1>7
    <2>2. CASE Before(i, 1)
      BY <1>2, <2>1, <2>2
    <2>3. CASE ~Before(i, 1)
      <3>1. i > at[1]
        BY <1>1, <1>4, <1>7, <2>3 DEF Before
      <3>2. ~targets[i].client
        BY <1>1, <1>4, <3>1 DEF CatInv, IInv, NodeInv
      <3>3. QED
        BY <1>1, <1>2, <2>1, <2>3, <3>2
    <2>4. QED
      BY <2>2, <2>3
  <1>8. QED
    BY <1>6, <1>7

\* nfscat writes the blocks of each file in one piece and in order, whatever
\* the servers answer, and the first file of each server completely, unless a
\* read of it failed or the server said too early that it was at its end: for
\* files of any size, any block size, and reads as short as they may be.
THEOREM FilesAreWritten == Spec => []FilesAreWhole
  <1>1. Init => CatInv /\ WholeInv
    <2> SUFFICES ASSUME Init PROVE CatInv /\ WholeInv
      OBVIOUS
    <2>1. /\ round = 0 /\ at = <<1, 1>> /\ output = <<>> /\ offset = 0 /\ failed = {}
          /\ targets = <<>>
      BY DEF Init, FhInit
    <2>2. Len(output) = 0 /\ DOMAIN output = {} /\ DOMAIN targets = {}
      BY <2>1, EmptySeq
    <2>3. QED
      BY <2>1, <2>2 DEF CatInv, WholeInv, WrittenInOrder
  <1>2. IInv /\ IInv' /\ CatInv /\ WholeInv /\ [Next]_vars => CatInv' /\ WholeInv'
    <2> SUFFICES ASSUME IInv, IInv', CatInv, WholeInv, [Next]_vars
                 PROVE  CatInv' /\ WholeInv'
      OBVIOUS
    <2>1. CASE tool # "nfscat" /\ tool' = tool /\ UNCHANGED catVars
      BY <2>1, NoCat
    <2>2. ASSUME tool = "nfscat", tool' = tool, round = 0, round' <= 1, at' = at,
                 UNCHANGED catVars,
                 \A i \in DOMAIN targets' : ~targets'[i].client
          PROVE  CatInv' /\ WholeInv'
      <3>1. at = <<1, 1>> /\ output = <<>>
        BY <2>2 DEF IInv, StartInv
      <3>2. \A i \in DOMAIN targets' : i \in Nat \ {0}
        <4>1. targets' \in Seq(FhTarget)
          BY DEF IInv, TypeOK, FhTypeOK
        <4>2. DOMAIN targets' = 1 .. Len(targets')
          BY <4>1, LenProperties
        <4>3. QED
          BY <4>2
      <3>3. QED
        BY <2>2, <3>1, <3>2, NoFile DEF catVars
    <2>3. ASSUME UNCHANGED <<targets, tool, cfg, at, round, catVars>>
          PROVE  CatInv' /\ WholeInv'
      <3>1. CatInv'
        BY <2>3 DEF CatInv, WrittenInOrder, Before, catVars
      <3>2. \A i \in DOMAIN targets :
               /\ WrittenOf(<<i, 1>>)' = WrittenOf(<<i, 1>>)
               /\ Before(i, 1)' <=> Before(i, 1)
        BY <2>3 DEF WrittenOf, Before, catVars
      <3>3. WholeInv'
        BY <2>3, <3>2 DEF WholeInv, catVars
      <3>4. QED
        BY <3>1, <3>3
    <2>4. CASE (LsGetopt \/ DfGetopt \/ CatGetopt \/ LockGetopt) /\ UNCHANGED catVars
      <3>1. /\ pc = "getopt" /\ UNCHANGED <<targets, tool, at, round>>
        BY <2>4 DEF LsGetopt, DfGetopt, CatGetopt, LockGetopt, GetOption, EndOfOptions
      <3>2. round = 0 /\ \A i \in DOMAIN targets : ~targets[i].client
        BY <3>1 DEF IInv, StartInv
      <3>3. QED
        BY <2>1, <2>2, <2>4, <3>1, <3>2
    <2>5. CASE ReadLine /\ UNCHANGED catVars
      <3>1. /\ pc = "read" /\ UNCHANGED <<tool, at, round>>
        BY <2>5 DEF ReadLine
      <3>2. round = 0 /\ round' = 0
        BY <3>1 DEF IInv, StartInv
      <3>3. \A i \in DOMAIN targets' : ~targets'[i].client
        BY <3>2 DEF IInv, StartInv
      <3>4. QED
        BY <2>1, <2>2, <2>5, <3>1, <3>2, <3>3
    <2>6. CASE EndOfInput /\ UNCHANGED catVars
      <3>1. /\ pc = "read" /\ round' = 1 /\ UNCHANGED <<tool, at, targets>>
        BY <2>6 DEF EndOfInput
      <3>2. round = 0 /\ \A i \in DOMAIN targets : ~targets[i].client
        BY <3>1 DEF IInv, StartInv
      <3>3. QED
        BY <2>1, <2>2, <2>6, <3>1, <3>2
    <2>7. CASE Stops \/ CatEnd
      BY <2>3, <2>7 DEF Stops, CatEnd
    <2>8. CASE (Connect("nfsls") \/ Connect("nfsdf") \/ LockConnect) /\ UNCHANGED catVars
      BY <2>1, <2>8 DEF Connect, LockConnect, Connecting, Walking
    <2>9. CASE CatConnect
      BY <2>9, CatConnectKeeps
    <2>10. CASE (LockNoClient \/ LsCall \/ DfAnswered \/ DfRefused \/ DfLost \/ LockCall)
                /\ UNCHANGED catVars
      BY <2>1, <2>10 DEF LockNoClient, LsCall, DfAnswered, DfRefused, DfLost, LockCall,
                         Connecting, Calling, Walking
    <2>11. CASE (CatAnswered \/ CatFailed) /\ UNCHANGED lockVars
      BY <2>11, CatReads, ReadKeepsCat, ReadKeepsWhole
    <2>12. CASE ((\E t \in {"nfsls", "nfsdf"} : EndOfRound(t)) \/ LockEndOfRound)
                /\ UNCHANGED catVars
      BY <2>1, <2>12 DEF EndOfRound, LockEndOfRound
    <2>13. QED
      BY <2>4, <2>5, <2>6, <2>7, <2>8, <2>9, <2>10, <2>11, <2>12, StepsAre
  <1>3. IInv /\ CatInv /\ WholeInv => FilesAreWhole
    <2> SUFFICES ASSUME IInv, CatInv, WholeInv,
                        tool = "nfscat", exit = "success", cfg.count = 0,
                        NEW p \in Filehandles, p[2] = 1, p \notin failed
                 PROVE  WrittenOf(p) = 1 .. Size
      BY DEF FilesAreWhole, FirstFileIsWhole, CatInv
    <2>1. PICK i \in DOMAIN targets : p \in {i} \X DOMAIN targets[i].filehandles
      BY DEF Filehandles
    <2>2. p = <<i, 1>>
      BY <2>1
    <2>3. Before(i, 1)
      <3>1. at[1] > Len(targets) /\ at[1] \in Nat
        BY DEF IInv, ExitInv, Reported, TypeOK, FhTypeOK
      <3>2. i \in 1 .. Len(targets) /\ Len(targets) \in Nat
        BY TargetsTyped DEF IInv
      <3>3. QED
        BY <3>1, <3>2 DEF Before
    <2>4. QED
      BY <2>2, <2>3 DEF WholeInv
  <1>4. QED
    BY <1>1, <1>2, <1>3, FhIInvariant, PTL DEF Spec

-----------------------------------------------------------------------------
(* The refinement of Rounds.                                               *)

\* Every request counts in the total, and without -c or -l there is one round.
RoundsInv ==
    Polls =>
        /\ \A i \in DOMAIN targets : \A j \in DOMAIN targets[i].filehandles :
              targets[i].filehandles[j].sent <= sent
        /\ ~cfg.loop /\ cfg.count = 0 => round <= 1

\* A call of nfsls or nfsdf.
Polled(f) == /\ CallOf(f) /\ Polls /\ sent' = sent + 1
             /\ ok' \in {ok, ok + 1}
             /\ (NextFilehandle \/ exit' = "crashed")

\* The end of a round of nfsls or nfsdf, in the terms of RoundsInv.
RoundEnds ==
    /\ pc = "walk" /\ at[1] > Len(targets) /\ Polls
    /\ UNCHANGED <<targets, tool, cfg, lines, quitting, sent, ok>>
    /\ \/ /\ round' = round + 1 /\ UNCHANGED <<pc, exit>>
          /\ ~quitting /\ (cfg.loop \/ cfg.count # 0)
       \/ UNCHANGED round /\ pc' = "ended" /\ exit' = "crashed"
       \/ /\ UNCHANGED <<at, round>> /\ pc' = "ended"
          /\ exit' = IF Success THEN "success" ELSE "failure"
          /\ quitting \/ ~cfg.loop

\* The steps of the tools in the terms of Rounds.
LEMMA RoundStepsAre ==
    ASSUME IInv, [Next]_vars
    PROVE  \/ /\ tool' = tool /\ ~Polls /\ UNCHANGED quitting
           \/ /\ tool' = tool /\ round = 0 /\ round' = 0 /\ UNCHANGED quitting
           \/ EndOfInput
           \/ Stops
           \/ /\ Polls /\ Connected
              /\ UNCHANGED <<tool, cfg, at, quitting, sent, ok, round, pc, exit>>
           \/ \E f : Polled(f)
           \/ RoundEnds
  <1> DEFINE Other == tool' = tool /\ ~Polls /\ UNCHANGED quitting
  <1>1. CASE LsGetopt \/ DfGetopt \/ CatGetopt \/ LockGetopt
    <2>1. /\ pc = "getopt" /\ UNCHANGED <<tool, round, quitting>>
      BY <1>1 DEF LsGetopt, DfGetopt, CatGetopt, LockGetopt, GetOption, EndOfOptions
    <2>2. round = 0
      BY <2>1 DEF IInv, StartInv
    <2>3. QED
      BY <2>1, <2>2
  <1>2. CASE ReadLine
    <2>1. /\ pc = "read" /\ UNCHANGED <<tool, round, quitting>>
      BY <1>2 DEF ReadLine
    <2>2. round = 0
      BY <2>1 DEF IInv, StartInv
    <2>3. QED
      BY <2>1, <2>2
  <1>3. CASE Connect("nfsls") \/ Connect("nfsdf")
    <2>1. PICK t \in {"nfsls", "nfsdf"} : Connect(t)
      BY <1>3
    <2>2. Connecting(t) /\ targets' = [targets EXCEPT ![at[1]].client = TRUE]
      BY <2>1 DEF Connect
    <2>3. Connected
      BY <2>2, ConnectEffect
    <2>4. Polls /\ UNCHANGED <<tool, cfg, at, quitting, sent, ok, round, pc, exit>>
      BY <2>1 DEF Connect, Connecting, Walking, Polls
    <2>5. QED
      BY <2>3, <2>4
  <1>4. CASE CatConnect \/ LockConnect \/ LockNoClient \/ CatAnswered \/ CatFailed \/ LockCall
    <2>1. Other
      BY <1>4 DEF CatConnect, LockConnect, Connect, LockNoClient, CatAnswered, CatFailed,
                  LockCall, Connecting, Calling, Walking, Polls
    <2>2. QED
      BY <2>1
  <1>5. CASE CatEnd \/ LockEndOfRound
    <2>1. Other
      BY <1>5 DEF CatEnd, LockEndOfRound, Polls
    <2>2. QED
      BY <2>1
  <1>6. ok \in Nat
    BY DEF IInv, TypeOK, FhTypeOK
  <1>7. CASE LsCall
    <2>1. PICK got \in {0, 1}, f \in FilehandleOf(Name) :
             /\ CallOf(f) /\ Polls /\ NextFilehandle /\ sent' = sent + 1 /\ ok' = ok + got
      BY <1>7, LsCalls
    <2>2. Polled(f)
      BY <1>6, <2>1 DEF Polled
    <2>3. QED
      BY <2>2
  <1>8. CASE DfAnswered \/ DfRefused \/ DfLost
    <2>1. PICK got \in {0, 1}, f \in FilehandleOf(Name) :
             /\ CallOf(f) /\ Polls /\ (NextFilehandle \/ exit' = "crashed")
             /\ sent' = sent + 1 /\ ok' = ok + got
      BY <1>8, DfCalls
    <2>2. Polled(f)
      BY <1>6, <2>1 DEF Polled
    <2>3. QED
      BY <2>2
  <1>9. CASE \E t \in {"nfsls", "nfsdf"} : EndOfRound(t)
    <2>1. RoundEnds
      BY <1>9 DEF EndOfRound, End, RoundEnds, Polls
    <2>2. QED
      BY <2>1
  <1>10. QED
    BY <1>1, <1>2, <1>3, <1>4, <1>5, <1>7, <1>8, <1>9, StepsAre

LEMMA RoundsStep ==
    ASSUME IInv, IInv', RoundsInv, [Next]_vars
    PROVE  RoundsInv'
  <1>1. ASSUME round' = 0
        PROVE  RoundsInv'
    <2>1. \A i \in DOMAIN targets' : \A j \in DOMAIN targets'[i].filehandles :
             targets'[i].filehandles[j].sent = 0
      BY <1>1 DEF IInv, StartInv, IsNew
    <2>2. sent' \in Nat
      BY DEF IInv, TypeOK, FhTypeOK
    <2>3. QED
      BY <1>1, <2>1, <2>2 DEF RoundsInv
  <1>2. ASSUME tool' = tool, ~Polls
        PROVE  RoundsInv'
    BY <1>2 DEF RoundsInv, Polls
  <1>3. CASE EndOfInput
    BY <1>3 DEF EndOfInput, RoundsInv, Polls
  <1>4. CASE Stops
    BY <1>4 DEF Stops, RoundsInv, Polls
  <1>5. CASE Connected /\ UNCHANGED <<tool, cfg, round, sent>>
    BY <1>5 DEF Connected, RoundsInv, Polls
  <1>6. CASE \E f : Polled(f)
    <2>1. PICK f : CallOf(f) /\ Polls /\ sent' = sent + 1
      BY <1>6 DEF Polled
    <2>2. UNCHANGED <<tool, cfg, round>> /\ f.sent = fh.sent + 1
      BY <2>1, CallFacts DEF Polls
    <2>3. ASSUME NEW i \in DOMAIN targets', NEW j \in DOMAIN targets'[i].filehandles
          PROVE  targets'[i].filehandles[j].sent <= sent'
      <3>1. /\ targets[i].filehandles[j].sent <= sent
            /\ targets[i].filehandles[j].sent \in Nat /\ sent \in Nat
        BY <2>1, AfterCall DEF RoundsInv, IInv, TypeOK, FhTypeOK
      <3>2. \/ targets'[i].filehandles[j] = targets[i].filehandles[j]
            \/ targets'[i].filehandles[j].sent = targets[i].filehandles[j].sent + 1
        BY <2>1, <2>2, AfterCall
      <3>3. QED
        BY <2>1, <3>1, <3>2
    <2>4. QED
      BY <2>2, <2>3 DEF RoundsInv, Polls
  <1>7. CASE RoundEnds
    BY <1>7 DEF RoundEnds, RoundsInv, Polls
  <1>8. QED
    BY <1>1, <1>2, <1>3, <1>4, <1>5, <1>6, <1>7, RoundStepsAre

\* Behind the end of a walk each filehandle was asked in each round.
AllInTurn(n) ==
    \A i \in DOMAIN targets : \A j \in DOMAIN targets[i].filehandles :
        targets[i].filehandles[j].sent = n

\* What the variables of Rounds are once a tool that polls has begun.
LEMMA BegunAre ==
    ASSUME IInv, Begun
    PROVE  /\ Polls /\ pc \in {"walk", "ended"} /\ round \in Nat \ {0}
           /\ Asked = [i \in DOMAIN targets |->
                 [j \in DOMAIN targets[i].filehandles |-> targets[i].filehandles[j].sent]]
           /\ DOMAIN Asked = DOMAIN targets
           /\ \A i \in DOMAIN targets :
                 /\ DOMAIN Asked[i] = DOMAIN targets[i].filehandles
                 /\ \A j \in DOMAIN targets[i].filehandles :
                       Asked[i][j] = targets[i].filehandles[j].sent
           /\ Goal = IF cfg.loop THEN 0 ELSE IF cfg.count = 0 THEN 1 ELSE cfg.count
           /\ cfg.count \in Nat /\ sent \in Nat /\ ok \in 0 .. sent
           /\ exit = "running" => Verdict = "running"
           /\ exit = "crashed" => Verdict = "running"
  <1>1. cfg.count \in Nat /\ sent \in Nat /\ ok \in 0 .. sent /\ round \in Nat
    BY DEF IInv, TypeOK, FhTypeOK, Options
  <1>2. Polls /\ pc \in {"walk", "ended"} /\ round > 0
    BY DEF Begun
  <1>3. Asked = [i \in DOMAIN targets |->
           [j \in DOMAIN targets[i].filehandles |-> targets[i].filehandles[j].sent]]
    BY DEF Asked
  <1>4. QED
    BY <1>1, <1>2, <1>3 DEF Goal, Verdict, Reported

\* What they are before.
LEMMA NotBegunAre ==
    ASSUME IInv, ~Begun
    PROVE  Asked = <<>> /\ Goal = 0 /\ Verdict = "running" /\ (Begun /\ ok < sent) = FALSE
  <1>1. Polls => ~Reported
    BY DEF IInv, ExitInv, Reported, Begun
  <1>2. QED
    BY <1>1 DEF Asked, Goal, Verdict

\* The first round.
LEMMA BeginStep ==
    ASSUME IInv, IInv', EndOfInput, Polls
    PROVE  R!Begin
  <1>1. /\ ~Begun /\ round = 0 /\ exit = "running" /\ ok = 0 /\ sent = 0
        /\ UNCHANGED <<targets, tool, cfg, quitting, sent, ok, exit>>
        /\ pc' = "walk" /\ round' = 1
    BY DEF EndOfInput, Begun, IInv, StartInv, ExitInv
  <1>2. Begun'
    BY <1>1 DEF Begun, Polls
  <1>3. Asked = <<>> /\ Verdict = "running" /\ (Begun /\ ok < sent) = FALSE
    BY <1>1, NotBegunAre
  <1>4. /\ Asked' = [i \in DOMAIN targets' |->
                 [j \in DOMAIN targets'[i].filehandles |-> targets'[i].filehandles[j].sent]]
        /\ Goal' \in Nat /\ Verdict' = "running"
    <2>1. /\ Goal' = IF cfg'.loop THEN 0 ELSE IF cfg'.count = 0 THEN 1 ELSE cfg'.count
          /\ cfg'.count \in Nat
          /\ Asked' = [i \in DOMAIN targets' |->
                 [j \in DOMAIN targets'[i].filehandles |-> targets'[i].filehandles[j].sent]]
      BY <1>2 DEF IInv, TypeOK, FhTypeOK, Options, Goal, Asked
    <2>2. exit' = "running"
      BY <1>1
    <2>3. QED
      BY <2>1, <2>2 DEF Verdict, Reported
  <1>5. Asked' \in Seq(Seq({0}))
    <2>1. ASSUME NEW i \in DOMAIN targets
          PROVE  [j \in DOMAIN targets[i].filehandles |-> targets[i].filehandles[j].sent]
                    \in Seq({0})
      <3>1. /\ DOMAIN targets[i].filehandles = 1 .. Len(targets[i].filehandles)
            /\ Len(targets[i].filehandles) \in Nat
        BY TargetsTyped DEF IInv
      <3>2. \A j \in DOMAIN targets[i].filehandles : targets[i].filehandles[j].sent = 0
        BY <1>1 DEF IInv, StartInv, IsNew
      <3>3. QED
        BY <3>1, <3>2
    <2>2. DOMAIN targets = 1 .. Len(targets) /\ Len(targets) \in Nat
      BY TargetsTyped DEF IInv
    <2>3. QED
      BY <1>1, <1>4, <2>1, <2>2
  <1>6. (Begun /\ ok < sent)' = FALSE
    BY <1>1
  <1>7. QED
    BY <1>1, <1>3, <1>4, <1>5, <1>6 DEF R!Begin

\* A function with another value at one place is one on the same domain.
LEMMA ChangedRow ==
    ASSUME NEW D, NEW A, A = [k \in D |-> A[k]], NEW i, NEW x
    PROVE  [A EXCEPT ![i] = x] = [k \in D |-> [A EXCEPT ![i] = x][k]]
  OBVIOUS

\* A call is a turn of the filehandle.
LEMMA AskStep ==
    ASSUME IInv, IInv', RoundsInv, NEW f, Polled(f)
    PROVE  R!Ask
  <1> DEFINE i == at[1]
             j == at[2]
  <1>1. /\ CallOf(f) /\ OneCalled(f) /\ Polls /\ sent' = sent + 1 /\ ok' \in {ok, ok + 1}
        /\ at \in (Nat \ {0}) \X (Nat \ {0}) /\ i \in DOMAIN targets
        /\ j \in DOMAIN targets[i].filehandles /\ fh = targets[i].filehandles[j]
        /\ pc = "walk" /\ exit = "running" /\ round \in Nat \ {0}
        /\ UNCHANGED <<tool, cfg, quitting, round>>
        /\ f.sent = fh.sent + 1 /\ fh.sent \in Nat
        /\ pc' \in {"walk", "ended"} /\ exit' \in {"running", "crashed"}
    BY CallFacts DEF Polled, Polls
  <1>2. Begun /\ Begun'
    BY <1>1 DEF Begun, Polls
  <1>3. /\ DOMAIN Asked = DOMAIN targets
        /\ \A k \in DOMAIN targets :
              /\ DOMAIN Asked[k] = DOMAIN targets[k].filehandles
              /\ \A l \in DOMAIN targets[k].filehandles :
                    Asked[k][l] = targets[k].filehandles[l].sent
        /\ Asked = [k \in DOMAIN targets |->
              [l \in DOMAIN targets[k].filehandles |-> targets[k].filehandles[l].sent]]
        /\ Goal = IF cfg.loop THEN 0 ELSE IF cfg.count = 0 THEN 1 ELSE cfg.count
        /\ cfg.count \in Nat /\ sent \in Nat /\ ok \in 0 .. sent
        /\ Verdict = "running"
    BY <1>1, <1>2, BegunAre
  <1>4. \A k \in DOMAIN targets : \A l \in DOMAIN targets[k].filehandles :
           /\ k \in Nat \ {0} /\ l \in Nat \ {0}
           /\ targets[k].filehandles[l].sent = IF Before(k, l) THEN round ELSE round - 1
    BY <1>1, TargetsTyped DEF IInv, TurnInv
  <1>5. ~Before(i, j)
    BY <1>1 DEF Before
  <1>6. Asked[i][j] = round - 1
    BY <1>1, <1>3, <1>4, <1>5
  <1>7. R!Turn(i, j)
    <2>1. ASSUME NEW k \in DOMAIN targets, NEW l \in DOMAIN targets[k].filehandles
          PROVE  /\ Asked[k][l] >= round - 1
                 /\ k < i \/ (k = i /\ l < j) => Asked[k][l] > round - 1
      BY <1>1, <1>3, <1>4, <2>1 DEF Before
    <2>2. ASSUME NEW k \in DOMAIN Asked, NEW l \in DOMAIN Asked[k]
          PROVE  /\ Asked[k][l] >= Asked[i][j]
                 /\ (k < i \/ (k = i /\ l < j)) => Asked[k][l] > Asked[i][j]
      <3>1. k \in DOMAIN targets /\ l \in DOMAIN targets[k].filehandles
        BY <1>3
      <3>2. /\ Asked[k][l] >= round - 1
            /\ (k < i \/ (k = i /\ l < j)) => Asked[k][l] > round - 1
        BY <2>1, <3>1
      <3>3. QED
        BY <1>6, <3>2
    <2> HIDE DEF i, j
    <2>3. QED
      BY <2>2 DEF R!Turn
  <1>8. Goal = 0 \/ Asked[i][j] < Goal
    <2>1. ~cfg.loop /\ cfg.count = 0 => round <= 1
      BY <1>1 DEF RoundsInv
    <2>2. ~cfg.loop /\ cfg.count # 0 => round <= cfg.count
      BY <1>1 DEF IInv, TurnInv
    <2>3. QED
      BY <1>1, <1>3, <1>6, <2>1, <2>2
  <1>9. Asked' = [Asked EXCEPT ![i][j] = Asked[i][j] + 1]
    <2>1. Asked' = [k \in DOMAIN targets' |->
              [l \in DOMAIN targets'[k].filehandles |-> targets'[k].filehandles[l].sent]]
      BY <1>2 DEF Asked
    <2> DEFINE New == [Asked EXCEPT ![i] = [Asked[i] EXCEPT ![j] = Asked[i][j] + 1]]
               Old(k) == [l \in DOMAIN targets[k].filehandles |->
                            targets[k].filehandles[l].sent]
               Row(k) == [l \in DOMAIN targets'[k].filehandles |->
                            targets'[k].filehandles[l].sent]
    <2>2. ASSUME NEW k \in DOMAIN targets
          PROVE  Row(k) = New[k]
      <3>1. /\ k \in DOMAIN targets'
            /\ DOMAIN targets'[k].filehandles = DOMAIN targets[k].filehandles
            /\ \A l \in DOMAIN targets[k].filehandles :
                  targets'[k].filehandles[l] =
                      IF k = i /\ l = j THEN f ELSE targets[k].filehandles[l]
        BY <1>1 DEF OneCalled
      <3>2. Asked[k] = Old(k)
        BY <1>3
      <3>3. CASE k = i
        <4>1. New[k] = [Old(k) EXCEPT ![j] = Asked[i][j] + 1]
          BY <1>3, <3>2, <3>3
        <4>2. Row(k) = [Old(k) EXCEPT ![j] = Asked[i][j] + 1]
          <5>1. \A l \in DOMAIN targets[k].filehandles :
                   targets'[k].filehandles[l].sent =
                      IF l = j THEN Asked[i][j] + 1 ELSE targets[k].filehandles[l].sent
            BY <1>1, <1>3, <3>1, <3>3
          <5>2. QED
            BY <3>1, <5>1
        <4>3. QED
          BY <4>1, <4>2
      <3>4. CASE k # i
        <4>1. New[k] = Old(k)
          BY <1>3, <3>2, <3>4
        <4>2. Row(k) = Old(k)
          BY <3>1, <3>4
        <4>3. QED
          BY <4>1, <4>2
      <3>5. QED
        BY <3>3, <3>4
    <2>3. DOMAIN targets' = DOMAIN targets
      BY <1>1 DEF OneCalled
    <2>4. New = [k \in DOMAIN targets |-> New[k]]
      <3>1. Asked = [k \in DOMAIN targets |-> Asked[k]]
        BY <1>2 DEF Asked
      <3>2. QED
        BY <3>1, ChangedRow
    <2>5. Asked' = New
      <3>1. Asked' = [k \in DOMAIN targets |-> Row(k)]
        BY <2>1, <2>3
      <3> HIDE DEF New, Row
      <3>2. QED
        BY <2>2, <2>4, <3>1
    <2>6. QED
      BY <2>5
  <1>10. (Begun /\ ok < sent)' \in {Begun /\ ok < sent, TRUE}
    <2>1. ok < sent => ok' < sent'
      BY <1>1, <1>3
    <2>2. CASE ok < sent
      <3>1. (Begun /\ ok < sent)'
        BY <1>2, <2>1, <2>2
      <3>2. QED
        BY <3>1
    <2>3. CASE ~(ok < sent)
      <3>1. ~(Begun /\ ok < sent)
        BY <2>3
      <3>2. QED
        BY <3>1
    <2>4. QED
      BY <2>2, <2>3
  <1>11. Goal' = Goal /\ Verdict' = Verdict /\ UNCHANGED quitting
    <2>1. Verdict' = "running"
      BY <1>1 DEF Verdict, Reported
    <2>2. Goal' = Goal
      BY <1>1, <1>2 DEF Goal
    <2>3. QED
      BY <1>1, <1>3, <2>1, <2>2
  <1>12. i \in DOMAIN Asked /\ j \in DOMAIN Asked[i]
    BY <1>1, <1>3
  <1> HIDE DEF i, j
  <1>13. QED
    BY <1>3, <1>7, <1>8, <1>9, <1>10, <1>11, <1>12 DEF R!Ask

\* The end of the last round is a report.
LEMMA ReportStep ==
    ASSUME IInv, IInv', RoundsInv, RoundEnds,
           pc' = "ended", exit' = IF Success THEN "success" ELSE "failure",
           quitting \/ ~cfg.loop, UNCHANGED <<at, round>>
    PROVE  R!Report
  <1>1. /\ pc = "walk" /\ at[1] > Len(targets) /\ Polls
        /\ UNCHANGED <<targets, tool, cfg, lines, quitting, sent, ok>>
    BY DEF RoundEnds
  <1>2. exit = "running" /\ round > 0
    BY <1>1 DEF IInv, ExitInv, StartInv
  <1>3. Begun /\ Begun'
    BY <1>1, <1>2 DEF Begun, Polls
  <1>4. /\ DOMAIN Asked = DOMAIN targets /\ round \in Nat \ {0}
        /\ \A i \in DOMAIN targets :
              /\ DOMAIN Asked[i] = DOMAIN targets[i].filehandles
              /\ \A j \in DOMAIN targets[i].filehandles :
                    Asked[i][j] = targets[i].filehandles[j].sent
        /\ Goal = IF cfg.loop THEN 0 ELSE IF cfg.count = 0 THEN 1 ELSE cfg.count
        /\ cfg.count \in Nat /\ sent \in Nat /\ ok \in 0 .. sent
        /\ Verdict = "running"
    BY <1>2, <1>3, BegunAre
  <1>5. ASSUME NEW i \in DOMAIN Asked, NEW j \in DOMAIN Asked[i]
        PROVE  /\ Asked[i][j] = round /\ Asked[i][j] > 0 /\ Asked[i][j] <= sent
               /\ Asked[i] # <<>>
    <2>1. i \in DOMAIN targets /\ j \in DOMAIN targets[i].filehandles
      BY <1>4
    <2>2. Before(i, j)
      BY <1>1, <2>1, AllBefore DEF IInv
    <2>3. targets[i].filehandles[j].sent = round
      BY <1>1, <1>2, <2>1, <2>2 DEF IInv, TurnInv
    <2>4. targets[i].filehandles[j].sent <= sent
      BY <1>1, <2>1 DEF RoundsInv
    <2>5. QED
      BY <1>4, <2>1, <2>3, <2>4, EmptySeq
  <1>6. quitting \/ (Goal > 0 /\ Goal = round)
    <2>1. SUFFICES ASSUME ~quitting, ~cfg.loop PROVE Goal > 0 /\ Goal = round
      OBVIOUS
    <2>2. CASE cfg.count = 0
      <3>1. round <= 1
        BY <1>1, <2>1, <2>2 DEF RoundsInv
      <3>2. QED
        BY <1>4, <2>1, <2>2, <3>1
    <2>3. CASE cfg.count # 0
      <3>1. round <= cfg.count
        BY <1>1, <1>2, <2>1, <2>3 DEF IInv, TurnInv
      <3>2. round >= cfg.count
        <4>1. Reported' /\ Polls' /\ ~quitting' /\ ~cfg'.loop /\ cfg'.count # 0
              /\ round' = round /\ cfg' = cfg
          BY <1>1, <2>1, <2>3 DEF Reported, Polls
        <4>2. round' >= cfg'.count
          BY <4>1 DEF IInv, ExitInv
        <4>3. QED
          BY <4>1, <4>2
      <3>3. QED
        BY <1>4, <2>1, <2>3, <3>1, <3>2
    <2>4. QED
      BY <2>2, <2>3
  <1>7. Asked' = Asked /\ Goal' = Goal /\ UNCHANGED quitting
        /\ (Begun /\ ok < sent)' = (Begun /\ ok < sent)
    BY <1>1, <1>3 DEF Asked, Goal
  <1>8. Verdict' = IF (Begun /\ ok < sent) \/ R!NoFilehandle THEN "failure" ELSE "success"
    <2>1. Verdict' = exit'
      BY <1>1 DEF Verdict, Reported, Polls
    <2>2. sent = 0 => R!NoFilehandle
      <3>1. SUFFICES ASSUME sent = 0, NEW i \in DOMAIN Asked PROVE Asked[i] = <<>>
        BY DEF R!NoFilehandle
      <3>2. DOMAIN Asked[i] = {}
        <4>1. SUFFICES ASSUME NEW j \in DOMAIN Asked[i] PROVE FALSE
          OBVIOUS
        <4>2. Asked[i][j] = round /\ Asked[i][j] <= sent
          BY <1>5, <3>1
        <4>3. QED
          BY <1>4, <3>1, <4>2
      <3>3. Asked[i] = [j \in DOMAIN targets[i].filehandles |-> targets[i].filehandles[j].sent]
        BY <1>3, <1>4, BegunAre
      <3>4. QED
        BY <3>2, <3>3
    <2>3. ok > 0 => ~R!NoFilehandle
      <3>1. SUFFICES ASSUME ok > 0 PROVE ~R!NoFilehandle
        OBVIOUS
      <3>2. PICK i \in DOMAIN targets : \E j \in DOMAIN targets[i].filehandles :
                    targets[i].filehandles[j].sent > 0
        BY <3>1 DEF IInv, TotalsInv
      <3>3. i \in DOMAIN Asked /\ Asked[i] # <<>>
        BY <1>4, <1>5, <3>2
      <3>4. QED
        BY <3>3 DEF R!NoFilehandle
    <2>4. Success <=> ~(Begun /\ ok < sent) /\ ~R!NoFilehandle
      BY <1>3, <1>4, <2>2, <2>3 DEF Success
    <2>5. QED
      BY <2>1, <2>4
  <1>9. QED
    BY <1>4, <1>5, <1>6, <1>7, <1>8 DEF R!Report

\* A step of the tools is a step of Rounds, or none.
LEMMA RoundsStepOrNone ==
    ASSUME IInv, IInv', RoundsInv, [Next]_vars
    PROVE  [R!RoundsNext]_(R!roundsVars)
  <1>1. ASSUME ~Begun, ~Begun', UNCHANGED quitting
        PROVE  UNCHANGED R!roundsVars
    <2>1. /\ Asked' = <<>> /\ Goal' = 0 /\ Verdict' = "running"
          /\ (Begun /\ ok < sent)' = FALSE
      <3>1. (Polls => ~Reported)'
        BY <1>1 DEF IInv, ExitInv, Reported, Begun
      <3>2. QED
        BY <1>1, <3>1 DEF Asked, Goal, Verdict
    <2>2. QED
      BY <1>1, <2>1, NotBegunAre DEF R!roundsVars
  <1>2. ASSUME Begun, Begun', UNCHANGED <<quitting, cfg, sent, ok>>, Verdict' = Verdict,
               DOMAIN targets' = DOMAIN targets,
               \A i \in DOMAIN targets :
                  /\ DOMAIN targets'[i].filehandles = DOMAIN targets[i].filehandles
                  /\ \A j \in DOMAIN targets[i].filehandles :
                        targets'[i].filehandles[j].sent = targets[i].filehandles[j].sent
        PROVE  UNCHANGED R!roundsVars
    BY <1>2 DEF R!roundsVars, Asked, Goal
  <1>3. ASSUME tool' = tool, ~Polls
        PROVE  ~Begun /\ ~Begun'
    BY <1>3 DEF Begun, Polls
  <1>4. CASE EndOfInput
    <2>1. CASE Polls
      BY <1>4, <2>1, BeginStep DEF R!RoundsNext
    <2>2. CASE ~Polls
      BY <1>1, <1>3, <1>4, <2>2 DEF EndOfInput
    <2>3. QED
      BY <2>1, <2>2
  <1>5. CASE Stops
    <2>1. /\ UNCHANGED <<targets, tool, cfg, at, sent, ok, round>>
          /\ quitting' \in BOOLEAN
          /\ quitting' = quitting \/ (pc = "walk" /\ pc' = pc /\ Polls)
          /\ \/ UNCHANGED <<pc, exit>>
             \/ /\ pc \in {"read", "walk"} /\ quitting' = quitting
                /\ pc' = "ended" /\ exit' \in {"killed", "crashed", "undefined"}
      BY <1>5 DEF Stops
    <2>2. pc \in {"read", "walk"} => exit = "running"
      BY DEF IInv, ExitInv
    <2>3. Verdict' = Verdict
      BY <2>1, <2>2 DEF Verdict, Polls, Reported
    <2>4. CASE quitting' = quitting /\ ~Begun
      <3>1. ~Begun'
        <4>1. pc \in {"read", "walk"} /\ Polls => pc = "walk" \/ round = 0
          BY DEF IInv, StartInv
        <4>2. QED
          BY <2>1, <2>4, <4>1 DEF Begun, Polls
      <3>2. QED
        BY <1>1, <2>4, <3>1
    <2>5. CASE quitting' = quitting /\ Begun
      <3>1. Begun'
        BY <2>1, <2>5 DEF Begun, Polls
      <3>2. QED
        BY <1>2, <2>1, <2>3, <2>5, <3>1
    <2>6. CASE quitting' # quitting
      <3>1. /\ pc = "walk" /\ Polls /\ UNCHANGED <<pc, exit>> /\ exit = "running"
            /\ round > 0
        BY <2>1, <2>2, <2>6 DEF IInv, StartInv
      <3>2. Begun /\ Begun'
        BY <2>1, <3>1 DEF Begun, Polls
      <3>3. Verdict = "running" /\ UNCHANGED <<Asked, Goal, Verdict>>
            /\ (Begun /\ ok < sent)' = (Begun /\ ok < sent)
        BY <2>1, <2>3, <3>1, <3>2, BegunAre DEF Asked, Goal
      <3>4. quitting' = TRUE
        <4>1. quitting \in BOOLEAN /\ quitting' \in BOOLEAN
          BY DEF IInv, TypeOK, FhTypeOK
        <4>2. quitting => quitting'
          BY <1>5 DEF Stops
        <4>3. QED
          BY <2>6, <4>1, <4>2
      <3>5. QED
        BY <3>3, <3>4 DEF R!Stop, R!RoundsNext
    <2>7. QED
      BY <2>4, <2>5, <2>6
  <1>6. CASE Polls /\ Connected /\ UNCHANGED <<tool, cfg, at, quitting, sent, ok, round, pc, exit>>
    <2>1. (Begun' <=> Begun) /\ Verdict' = Verdict
      BY <1>6 DEF Begun, Polls, Verdict, Reported
    <2>2. QED
      BY <1>1, <1>2, <1>6, <2>1 DEF Connected
  <1>7. CASE \E f : Polled(f)
    BY <1>7, AskStep DEF R!RoundsNext
  <1>8. CASE RoundEnds
    <2>1. /\ pc = "walk" /\ Polls
          /\ UNCHANGED <<targets, tool, cfg, quitting, sent, ok>>
          /\ round \in Nat /\ round > 0 /\ exit = "running"
      BY <1>8 DEF RoundEnds, IInv, TypeOK, FhTypeOK, StartInv, ExitInv
    <2>2. CASE \/ round' = round + 1 /\ UNCHANGED <<pc, exit>>
               \/ UNCHANGED round /\ pc' = "ended" /\ exit' = "crashed"
      <3>1. Begun /\ Begun' /\ Verdict' = Verdict
        BY <2>1, <2>2 DEF Begun, Polls, Verdict, Reported
      <3>2. QED
        BY <1>2, <2>1, <3>1
    <2>3. CASE /\ pc' = "ended" /\ exit' = IF Success THEN "success" ELSE "failure"
               /\ quitting \/ ~cfg.loop
               /\ UNCHANGED <<at, round>>
      BY <1>8, <2>3, ReportStep DEF R!RoundsNext
    <2>4. QED
      BY <1>8, <2>2, <2>3 DEF RoundEnds
  <1>9. CASE tool' = tool /\ ~Polls /\ UNCHANGED quitting
    BY <1>1, <1>3, <1>9
  <1>10. CASE tool' = tool /\ round = 0 /\ round' = 0 /\ UNCHANGED quitting
    BY <1>1, <1>10 DEF Begun
  <1>11. QED
    BY <1>4, <1>5, <1>6, <1>7, <1>8, <1>9, <1>10, RoundStepsAre

\* nfsls and nfsdf ask every filehandle in turns, as often as -c says, once
\* without it, or until they are interrupted, and report success exactly when
\* there was something to ask and everything was answered: for every list, all
\* answers, and an interruption at any time.
THEOREM ToolsImplementRounds == Spec => ImplementsRounds
  <1>1. Init => RoundsInv /\ R!RoundsInit
    <2> SUFFICES ASSUME Init PROVE RoundsInv /\ R!RoundsInit
      OBVIOUS
    <2>1. targets = <<>> /\ pc = "getopt" /\ round = 0 /\ ~quitting /\ quitting = FALSE
          /\ exit = "running"
      BY DEF Init, FhInit
    <2>2. RoundsInv
      BY <2>1, EmptySeq DEF RoundsInv
    <2>3. ~Begun
      BY <2>1 DEF Begun
    <2>4. R!RoundsInit
      BY <2>1, <2>3 DEF R!RoundsInit, Asked, Goal, Verdict, Reported
    <2>5. QED
      BY <2>2, <2>4
  <1>2. IInv /\ IInv' /\ RoundsInv /\ [Next]_vars
           => RoundsInv' /\ [R!RoundsNext]_(R!roundsVars)
    BY RoundsStep, RoundsStepOrNone
  <1>3. QED
    BY <1>1, <1>2, FhIInvariant, PTL DEF Spec, ImplementsRounds, R!RoundsSpec

-----------------------------------------------------------------------------
(* The steps move on.                                                      *)

\* No option goes back to an earlier one.
LEMMA ParsingKeepsIndex ==
    ASSUME NEW c \in Options
    PROVE  /\ \A o \in LsOption : LsParseOption(c, o).optind = c.optind
           /\ \A o \in DfOption : DfParseOption(c, o).optind = c.optind
           /\ \A o \in CatOption : CatParseOption(c, o).optind = c.optind
           /\ \A o \in LockOption : LockParseOption(c, o).optind = c.optind
  <1>1. Fatal(c).optind = c.optind
    BY DEF Fatal, Options
  <1>2. \A unit : ParseUnit(c, unit).optind = c.optind
    BY <1>1 DEF ParseUnit, Options
  <1>3. ASSUME NEW o \in LsOption PROVE LsParseOption(c, o).optind = c.optind
    <2>1. o.letter \in {"b", "d", "h", "l", "L", "c", "C"}
      BY DEF LsOption, Flag, WithNumber
    <2>2. ASSUME NEW l \in {"b", "d", "h", "l", "L", "c", "C"}, o.letter = l
          PROVE  LsParseOption(c, o).optind = c.optind
      BY <1>1, <1>2, <2>2 DEF LsParseOption, Options
    <2>3. QED
      BY <2>1, <2>2
  <1>4. ASSUME NEW o \in DfOption PROVE DfParseOption(c, o).optind = c.optind
    <2>1. o.letter \in {"b", "G", "h", "i", "l", "n", "c"}
      BY DEF DfOption, Flag, WithNumber
    <2>2. ASSUME NEW l \in {"b", "G", "h", "i", "l", "n", "c"}, o.letter = l
          PROVE  DfParseOption(c, o).optind = c.optind
      BY <1>1, <1>2, <2>2 DEF DfParseOption, Options
    <2>3. QED
      BY <2>1, <2>2
  <1>5. ASSUME NEW o \in CatOption PROVE CatParseOption(c, o).optind = c.optind
    <2>1. o.letter \in {"b", "c", "H"}
      BY DEF CatOption, WithNumber, WithHertz
    <2>2. QED
      BY <1>1, <2>1 DEF CatParseOption, Options
  <1>6. ASSUME NEW o \in LockOption PROVE LockParseOption(c, o).optind = c.optind
    <2>1. o.letter \in {"l", "c", "H"}
      BY DEF LockOption, Flag, WithNumber, WithHertz
    <2>2. QED
      BY <1>1, <2>1 DEF LockParseOption, Options
  <1>7. QED
    BY <1>3, <1>4, <1>5, <1>6

\* Where two tuples of eight numbers differ first.
LEMMA FurtherBy ==
    ASSUME NEW a1, NEW a2, NEW a3, NEW a4, NEW a5, NEW a6, NEW a7, NEW a8,
           NEW b1, NEW b2, NEW b3, NEW b4, NEW b5, NEW b6, NEW b7, NEW b8,
           NEW k \in 1 .. 8,
           LET a == <<a1, a2, a3, a4, a5, a6, a7, a8>>
               b == <<b1, b2, b3, b4, b5, b6, b7, b8>>
           IN a[k] > b[k] /\ \A j \in 1 .. (k - 1) : a[j] = b[j]
    PROVE  Further(<<a1, a2, a3, a4, a5, a6, a7, a8>>, <<b1, b2, b3, b4, b5, b6, b7, b8>>)
  <1>1. DOMAIN <<b1, b2, b3, b4, b5, b6, b7, b8>> = 1 .. 8
    OBVIOUS
  <1>2. QED
    BY <1>1 DEF Further

Found == IF pc = "walk" /\ at[1] <= Len(targets) /\ Current.client THEN 1 ELSE 0

\* The kinds of progress that a step can make.
MovesOn ==
    \/ Phase[pc'] > Phase[pc]
    \/ pc' = pc /\ round' > round
    \/ pc' = pc /\ round' = round /\ cfg'.optind > cfg.optind
    \/ pc' = pc /\ UNCHANGED <<round, cfg>> /\ lines' > lines
    \/ pc' = pc /\ UNCHANGED <<round, cfg, lines>> /\ at'[1] > at[1]
    \/ pc' = pc /\ UNCHANGED <<round, cfg, lines>> /\ at'[1] = at[1] /\ at'[2] > at[2]
    \/ pc' = pc /\ UNCHANGED <<round, cfg, lines, at>> /\ Found' > Found
    \/ pc' = pc /\ UNCHANGED <<round, cfg, lines, at>> /\ Found' = Found /\ offset' > offset

LEMMA ProgressIsFurther ==
    ASSUME MovesOn
    PROVE  Further(Progress', Progress)
  <1> DEFINE a == <<Phase[pc'], round', cfg'.optind, lines', at'[1], at'[2], Found', offset'>>
             b == <<Phase[pc], round, cfg.optind, lines, at[1], at[2], Found, offset>>
  <1>1. Progress = b /\ Progress' = a
    BY DEF Progress, Found
  <1>2. CASE Phase[pc'] > Phase[pc]
    <2>1. a[1] > b[1] /\ \A j \in 1 .. (1 - 1) : a[j] = b[j]
      BY <1>2
    <2>2. QED
      BY <1>1, <2>1, FurtherBy
  <1>3. CASE pc' = pc /\ round' > round
    <2>1. a[2] > b[2] /\ \A j \in 1 .. (2 - 1) : a[j] = b[j]
      BY <1>3
    <2>2. QED
      BY <1>1, <2>1, FurtherBy
  <1>4. CASE pc' = pc /\ round' = round /\ cfg'.optind > cfg.optind
    <2>1. a[3] > b[3] /\ \A j \in 1 .. (3 - 1) : a[j] = b[j]
      BY <1>4
    <2>2. QED
      BY <1>1, <2>1, FurtherBy
  <1>5. CASE pc' = pc /\ UNCHANGED <<round, cfg>> /\ lines' > lines
    <2>1. a[4] > b[4] /\ \A j \in 1 .. (4 - 1) : a[j] = b[j]
      BY <1>5
    <2>2. QED
      BY <1>1, <2>1, FurtherBy
  <1>6. CASE pc' = pc /\ UNCHANGED <<round, cfg, lines>> /\ at'[1] > at[1]
    <2>1. a[5] > b[5] /\ \A j \in 1 .. (5 - 1) : a[j] = b[j]
      BY <1>6
    <2>2. QED
      BY <1>1, <2>1, FurtherBy
  <1>7. CASE pc' = pc /\ UNCHANGED <<round, cfg, lines>> /\ at'[1] = at[1] /\ at'[2] > at[2]
    <2>1. a[6] > b[6] /\ \A j \in 1 .. (6 - 1) : a[j] = b[j]
      BY <1>7
    <2>2. QED
      BY <1>1, <2>1, FurtherBy
  <1>8. CASE pc' = pc /\ UNCHANGED <<round, cfg, lines, at>> /\ Found' > Found
    <2>1. a[7] > b[7] /\ \A j \in 1 .. (7 - 1) : a[j] = b[j]
      BY <1>8
    <2>2. QED
      BY <1>1, <2>1, FurtherBy
  <1>9. CASE pc' = pc /\ UNCHANGED <<round, cfg, lines, at>> /\ Found' = Found /\ offset' > offset
    <2>1. a[8] > b[8] /\ \A j \in 1 .. (8 - 1) : a[j] = b[j]
      BY <1>9
    <2>2. QED
      BY <1>1, <2>1, FurtherBy
  <1>10. QED
    BY <1>2, <1>3, <1>4, <1>5, <1>6, <1>7, <1>8, <1>9 DEF MovesOn

\* The options.
LEMMA OptionMovesOn ==
    ASSUME IInv, LsGetopt \/ DfGetopt \/ CatGetopt \/ LockGetopt
    PROVE  MovesOn
  <1>1. pc = "getopt" /\ round' = round /\ cfg \in Options
    BY DEF LsGetopt, DfGetopt, CatGetopt, LockGetopt, GetOption, EndOfOptions, IInv, TypeOK, FhTypeOK
  <1>2. CASE \E t \in Tools, d \in {LsDefaults(cfg), DfDefaults(cfg), cfg} : EndOfOptions(t, d)
    <2>1. pc' \in {"read", "ended"}
      BY <1>2 DEF EndOfOptions, End
    <2>2. QED
      BY <1>1, <2>1 DEF MovesOn, Phase
  <1>3. CASE \/ GetOption("nfsls", {LsParseOption(cfg, o) : o \in LsOption})
             \/ GetOption("nfsdf", {DfParseOption(cfg, o) : o \in DfOption})
             \/ GetOption("nfscat", {CatParseOption(cfg, o) : o \in CatOption})
             \/ GetOption("nfslock", {LockParseOption(cfg, o) : o \in LockOption})
    <2>1. ASSUME NEW t, NEW S, GetOption(t, S),
                 \A c \in S : c \in Options /\ c.optind = cfg.optind
          PROVE  MovesOn
      <3>1. PICK c \in S : /\ cfg' = [c EXCEPT !.optind = c.optind + 1]
                           /\ IF c.fatal THEN End("usage") ELSE UNCHANGED <<pc, exit>>
        BY <2>1 DEF GetOption
      <3>2. cfg'.optind = cfg.optind + 1 /\ cfg.optind \in Nat
        BY <1>1, <2>1, <3>1 DEF Options
      <3>3. pc' = pc \/ pc' = "ended"
        BY <3>1 DEF End
      <3>4. CASE pc' = pc
        BY <1>1, <3>2, <3>4 DEF MovesOn
      <3>5. CASE pc' = "ended"
        BY <1>1, <3>5 DEF MovesOn, Phase
      <3>6. QED
        BY <3>3, <3>4, <3>5
    <2>2. ~cfg.fatal /\ Sensible(tool, cfg)
      BY <1>1 DEF IInv, OptionsInv, Sensible
    <2>3. CASE GetOption("nfsls", {LsParseOption(cfg, o) : o \in LsOption})
      <3>1. tool = "nfsls"
        BY <2>3 DEF GetOption
      <3>2. \A o \in LsOption : LsParseOption(cfg, o) \in Options
        BY <1>1, <2>2, <3>1, LsOptions
      <3>3. QED
        BY <1>1, <2>1, <2>3, <3>2, ParsingKeepsIndex
    <2>4. CASE GetOption("nfsdf", {DfParseOption(cfg, o) : o \in DfOption})
      BY <1>1, <2>1, <2>4, DfOptions, ParsingKeepsIndex
    <2>5. CASE GetOption("nfscat", {CatParseOption(cfg, o) : o \in CatOption})
      BY <1>1, <2>1, <2>5, CatOptions, ParsingKeepsIndex
    <2>6. CASE GetOption("nfslock", {LockParseOption(cfg, o) : o \in LockOption})
      BY <1>1, <2>1, <2>6, LockOptions, ParsingKeepsIndex
    <2>7. QED
      BY <1>3, <2>3, <2>4, <2>5, <2>6
  <1>4. QED
    BY <1>2, <1>3 DEF LsGetopt, DfGetopt, CatGetopt, LockGetopt, Tools

\* A new connection.
LEMMA ConnectMovesOn ==
    ASSUME IInv, NEW t, Connecting(t), UNCHANGED <<at, pc>>,
           targets' = [targets EXCEPT ![at[1]].client = TRUE]
    PROVE  MovesOn
  <1>1. /\ at[1] \in DOMAIN targets /\ pc = "walk" /\ UNCHANGED <<cfg, lines, round>>
        /\ at[1] <= Len(targets) /\ ~Current.client
    BY AtTarget DEF Connecting, Walking
  <1>2. Connected
    BY ConnectEffect
  <1>3. targets \in Seq(FhTarget) /\ targets' \in Seq(FhTarget)
        /\ DOMAIN targets' = DOMAIN targets
    BY <1>2, TargetsTyped DEF Connected, IInv
  <1>4. Len(targets') = Len(targets)
    BY <1>3, LenProperties
  <1>5. targets'[at[1]].client
    BY <1>1, <1>2 DEF Connected
  <1>6. Found = 0 /\ Found' = 1
    BY <1>1, <1>4, <1>5 DEF Found, Current
  <1>7. QED
    BY <1>1, <1>6 DEF MovesOn

\* A file goes on, the next one has its turn, or nothing came.
LEMMA ReadMovesOn ==
    ASSUME IInv, CatAnswered, UNCHANGED lockVars
    PROVE  MovesOn \/ again' # again
  <1>1. PICK f, end : ReadUpTo(end, f)
    BY CatReads
  <1>2. /\ at \in (Nat \ {0}) \X (Nat \ {0}) /\ at[1] \in DOMAIN targets
        /\ targets[at[1]].client
        /\ at' = at \/ at' = <<at[1], at[2] + 1>> \/ at' = <<at[1] + 1, 1>>
        /\ Size \in Nat /\ offset \in 0..Size
    BY <1>1, ReadFacts
  <1>3. /\ pc = "walk" /\ pc' = pc /\ UNCHANGED <<targets, cfg, lines, round>>
        /\ at[1] <= Len(targets) /\ again \in BOOLEAN
    BY DEF CatAnswered, CatCounts, Calling, Walking, IInv, TypeOK, FhTypeOK
  <1>4. CASE at' = at
    <2>1. Found = 1 /\ Found' = 1
      BY <1>2, <1>3, <1>4 DEF Found, Current
    <2>2. PICK to \in offset .. Size, eof \in BOOLEAN :
             /\ offset' = to
             /\ IF eof \/ CountReached THEN NextFilehandle /\ UNCHANGED again
                ELSE again' = (again # (to = offset)) /\ UNCHANGED at
      BY DEF CatAnswered
    <2>3. ~NextFilehandle
      BY <1>2, <1>4 DEF NextFilehandle
    <2>4. again' = (again # (to = offset))
      BY <2>2, <2>3
    <2>5. CASE to = offset
      BY <1>3, <2>4, <2>5
    <2>6. CASE to # offset
      <3>1. offset' > offset
        BY <1>2, <2>2, <2>6
      <3>2. QED
        BY <1>3, <1>4, <2>1, <3>1 DEF MovesOn
    <2>7. QED
      BY <2>5, <2>6
  <1>5. CASE at' = <<at[1], at[2] + 1>> \/ at' = <<at[1] + 1, 1>>
    <2>1. at'[1] > at[1] \/ (at'[1] = at[1] /\ at'[2] > at[2])
      BY <1>2, <1>5
    <2>2. QED
      BY <1>3, <2>1 DEF MovesOn
  <1>6. QED
    BY <1>2, <1>4, <1>5

\* No tool asks for the same thing twice in a round, however short the reads
\* are and whichever calls fail, unless an answer brought nothing and was not
\* the end: every other step comes to the next option, line, target,
\* filehandle, block or round.
THEOREM ToolsMoveOn == Spec => EveryStepMovesOn
  <1>1. ASSUME IInv, Process
        PROVE  Further(Progress', Progress) \/ again' # again
    <2> SUFFICES MovesOn \/ again' # again
      BY ProgressIsFurther
    <2>1. /\ at \in (Nat \ {0}) \X (Nat \ {0}) /\ {lines, round} \subseteq Nat
      BY <1>1 DEF IInv, TypeOK, FhTypeOK
    <2>2. ASSUME pc' = pc, UNCHANGED <<round, cfg, lines>>,
                 at' = <<at[1] + 1, 1>> \/ NextFilehandle
          PROVE  MovesOn
      <3>1. at' = <<at[1] + 1, 1>> \/ at' = <<at[1], at[2] + 1>>
        BY <2>2 DEF NextFilehandle
      <3>2. at'[1] > at[1] \/ (at'[1] = at[1] /\ at'[2] > at[2])
        BY <2>1, <3>1
      <3>3. QED
        BY <2>2, <3>2 DEF MovesOn
    <2>3. ASSUME pc \in {"read", "walk"}, pc' = "ended" PROVE MovesOn
      BY <2>3 DEF MovesOn, Phase
    <2>4. CASE LsGetopt \/ DfGetopt \/ CatGetopt \/ LockGetopt
      BY <1>1, <2>4, OptionMovesOn
    <2>5. CASE ReadLine
      <3>1. /\ pc = "read" /\ lines' = lines + 1 /\ UNCHANGED <<cfg, round>>
            /\ pc' = pc \/ pc' = "ended"
        BY <2>5 DEF ReadLine, End
      <3>2. QED
        BY <2>1, <2>3, <3>1 DEF MovesOn
    <2>6. CASE EndOfInput
      BY <2>6 DEF EndOfInput, MovesOn, Phase
    <2>7. CASE ReachFreed \/ LsRecurses \/ \E t \in Tools : NoClientCrash(t)
      BY <2>3, <2>7 DEF ReachFreed, LsRecurses, NoClientCrash, Connecting, Calling, Walking, End
    <2>8. CASE Connect("nfsls") \/ Connect("nfsdf") \/ CatConnect \/ LockConnect
      <3>1. PICK t : /\ Connecting(t) /\ UNCHANGED <<at, pc>>
                     /\ targets' = [targets EXCEPT ![at[1]].client = TRUE]
        BY <2>8 DEF Connect, CatConnect, LockConnect
      <3>2. QED
        BY <1>1, <3>1, ConnectMovesOn
    <2>9. CASE LockNoClient
      BY <2>2, <2>9 DEF LockNoClient, Connecting, Walking
    <2>10. CASE LsCall \/ DfAnswered \/ DfRefused \/ DfLost \/ CatFailed \/ LockCall
      <3>1. /\ pc = "walk" /\ UNCHANGED <<cfg, lines, round>>
            /\ (pc' = pc /\ NextFilehandle) \/ pc' = "ended"
        BY <2>10 DEF LsCall, DfAnswered, DfRefused, DfLost, CatFailed, LockCall, Calling,
                     Walking, End
      <3>2. QED
        BY <2>2, <2>3, <3>1
    <2>11. CASE CatAnswered /\ UNCHANGED lockVars
      BY <1>1, <2>11, ReadMovesOn
    <2>12. CASE (\E t \in Tools : EndOfRound(t)) \/ CatEnd \/ LockEndOfRound
      <3>1. /\ pc = "walk"
            /\ (pc' = pc /\ round' = round + 1) \/ pc' = "ended"
        BY <2>12 DEF EndOfRound, CatEnd, LockEndOfRound, End
      <3>2. QED
        BY <2>1, <2>3, <3>1 DEF MovesOn
    <2>13. CASE Common
      BY <2>5, <2>6, <2>7, <2>13 DEF Common
    <2>14. CASE LsNext \/ DfNext
      <3>1. CASE LsAgain
        BY <1>1, <3>1 DEF LsAgain, IInv, TypeOK, FhTypeOK
      <3>2. QED
        BY <2>4, <2>7, <2>8, <2>10, <2>12, <2>14, <3>1 DEF LsNext, DfNext, Tools
    <2>15. CASE CatNext /\ UNCHANGED lockVars
      BY <2>4, <2>7, <2>8, <2>10, <2>11, <2>12, <2>15 DEF CatNext, Tools
    <2>16. CASE LockNext
      BY <2>4, <2>8, <2>9, <2>10, <2>12, <2>16 DEF LockNext
    <2>17. QED
      BY <1>1, <2>13, <2>14, <2>15, <2>16 DEF Process
  <1>2. IInv /\ [Next]_vars
           => [Process => Further(Progress', Progress) \/ again' # again]_vars
    BY <1>1
  <1>3. QED
    BY FhIInvariant, <1>2, PTL DEF Spec, EveryStepMovesOn
=============================================================================
