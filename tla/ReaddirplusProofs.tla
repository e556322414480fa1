------------------------- MODULE ReaddirplusProofs --------------------------
(***************************************************************************)
(* Theorems of module Readdirplus, for directories and pages of any size,  *)
(* any number of changes and nested calls, and servers that give cookies   *)
(* in any order, answers with nothing in them, and another type each time. *)
(***************************************************************************)
EXTENDS Readdirplus, TLAPS

\* The types the proofs need.
Typed ==
    /\ dir \subseteq Entry
    /\ cookie \in Nat
    /\ page \in Seq(Entry)
    /\ listed \in Seq((Entry \cup {0}) \X Symlink)
    /\ requested \subseteq Nat
    /\ {warned, changed, verf, argVerf, resVerf} \subseteq Nat
    /\ kind \in Type \cup {"any"}
    /\ eof \in BOOLEAN /\ looped \in BOOLEAN

\* Nothing was listed before a directory answered, a loop leaves the page and
\* ends the directory.
Control ==
    /\ pc = "getattr" /\ kind # "any" => listed = <<>>
    /\ pc = "entries" \/ (listed # <<>> /\ pc # "done") => "dir" \in TypeOf
    /\ looped => pc = "done" \/ (pc = "entries" /\ page = <<>> /\ eof)

\* What is listed is not behind the position.
Behind ==
    pc # "done" /\ ~looped /\ kind # "any" => \A k \in DOMAIN listed : listed[k][1] <= cookie

OrderInv == Typed /\ Control /\ Behind /\ ListedInOrder

LEMMA InitOrder == Init => OrderInv
<1> SUFFICES ASSUME Init PROVE OrderInv
  OBVIOUS
<1>0. dir \subseteq Entry /\ verf \in Nat
  <2>1. CASE kind = "dir"
    BY <2>1 DEF Init, TypeOf
  <2>2. CASE kind # "dir"
    BY <2>2 DEF Init, TypeOf, Type
  <2> QED
    BY <2>1, <2>2
<1>1. Typed
  <2>1. page \in Seq(Entry) /\ listed \in Seq((Entry \cup {0}) \X Symlink)
    BY DEF Init
  <2>2. requested \subseteq Nat /\ eof \in BOOLEAN /\ looped \in BOOLEAN
    BY DEF Init
  <2>3. /\ cookie \in Nat /\ warned \in Nat /\ changed \in Nat
        /\ argVerf \in Nat /\ resVerf \in Nat /\ kind \in Type \cup {"any"}
    BY DEF Init
  <2> QED
    BY <1>0, <2>1, <2>2, <2>3 DEF Typed
<1>2. Control /\ Behind /\ ListedInOrder
  BY DEF Init, Control, Behind, ListedInOrder
<1> QED
  BY <1>1, <1>2 DEF OrderInv

\* Only entries of the list can break the order, so a step that lists nothing
\* has to keep the types and the control.
LEMMA KeepsListed ==
    ASSUME OrderInv, Typed', Control', UNCHANGED <<listed, kind, looped>>,
           cookie' = cookie \/ listed = <<>> \/ kind = "any",
           pc' # "done" => pc # "done"
    PROVE  OrderInv'
BY DEF OrderInv, Behind, ListedInOrder

LEMMA AppendsNext ==
    ASSUME OrderInv, ListEntry
    PROVE  OrderInv'
<1> DEFINE e == Head(page)
<1>1. PICK symlink \in ReadLink(e \in Links) : listed' = Append(listed, <<e, symlink>>)
  BY DEF ListEntry
<1>2. e \in Entry /\ Tail(page) \in Seq(Entry)
  BY DEF OrderInv, Typed, ListEntry
<1>3. symlink \in Symlink
  BY <1>1 DEF ReadLink, Symlink
<1>4. /\ ~looped /\ pc = "entries" /\ pc' = pc
      /\ "dir" \in TypeOf /\ kind' = kind
  BY DEF OrderInv, Control, ListEntry, Scan, server
<1>5. UNCHANGED <<dir, kind, verf, argVerf, resVerf, requested, warned, changed>>
  BY DEF ListEntry, Scan, server
<1>6. listed \in Seq((Entry \cup {0}) \X Symlink)
  BY DEF OrderInv, Typed
<1>7. /\ Len(listed') = Len(listed) + 1 /\ Len(listed) \in Nat
      /\ DOMAIN listed = 1..Len(listed) /\ DOMAIN listed' = 1..(Len(listed) + 1)
      /\ listed'[Len(listed) + 1] = <<e, symlink>>
      /\ \A k \in 1..Len(listed) : listed'[k] = listed[k]
      /\ listed' \in Seq((Entry \cup {0}) \X Symlink)
  BY <1>1, <1>2, <1>3, <1>6
<1>8. \A k \in 1..Len(listed) : listed[k] \in (Entry \cup {0}) \X Symlink
  BY <1>6
<1>9. \A k \in 1..Len(listed) : listed[k][1] \in Nat
  BY <1>8, ReaddirplusAssumption DEF Entry
<1>10. cookie \in Nat /\ e \in Nat
  BY <1>2, ReaddirplusAssumption DEF OrderInv, Typed, Entry
<1>11. kind # "any" => \A k \in 1..Len(listed) : listed[k][1] <= cookie
  BY <1>4, <1>7 DEF OrderInv, Behind
<1>12. CASE cookie < e
  <2>1. cookie' = e /\ looped' = looped /\ eof' = eof /\ page' = Tail(page)
    BY <1>12 DEF ListEntry, Advance
  <2>2. Typed'
    BY <2>1, <1>2, <1>5, <1>7, <1>10 DEF OrderInv, Typed
  <2>3. kind # "any" => \A k \in DOMAIN listed' : listed'[k][1] <= cookie'
    BY <2>1, <1>7, <1>9, <1>10, <1>11, <1>12
  <2>4. ListedInOrder'
    <3> SUFFICES ASSUME NEW j \in DOMAIN listed', NEW k \in DOMAIN listed', j < k,
                        kind # "any"
                 PROVE  listed'[j][1] < listed'[k][1]
      BY <1>4 DEF ListedInOrder
    <3>1. j \in 1..Len(listed) /\ listed'[j] = listed[j]
      BY <1>7
    <3>2. CASE k = Len(listed) + 1
      BY <3>1, <3>2, <1>7, <1>9, <1>10, <1>11, <1>12
    <3>3. CASE k # Len(listed) + 1
      <4>1. k \in 1..Len(listed) /\ listed'[k] = listed[k]
        BY <3>3, <1>7
      <4> QED
        BY <3>1, <4>1, <1>4, <1>7 DEF OrderInv, ListedInOrder
    <3> QED
      BY <3>2, <3>3
  <2>5. ~looped' /\ pc' # "getattr" /\ ("dir" \in TypeOf)'
    BY <2>1, <1>4 DEF TypeOf
  <2>6. Control'
    BY <2>5 DEF Control
  <2>7. Behind'
    BY <2>3, <1>4 DEF Behind
  <2> QED
    BY <2>2, <2>4, <2>6, <2>7 DEF OrderInv
<1>13. CASE ~(cookie < e)
  <2>1. cookie' = cookie /\ looped' = TRUE /\ eof' = TRUE /\ page' = <<>>
    BY <1>13 DEF ListEntry, Advance
  <2>2. Typed'
    BY <2>1, <1>5, <1>7, <1>10 DEF OrderInv, Typed
  <2>3. ListedInOrder'
    BY <2>1, <1>4, <1>7 DEF OrderInv, ListedInOrder
  <2>4. Control' /\ Behind'
    BY <2>1, <1>4 DEF Control, Behind, TypeOf
  <2> QED
    BY <2>2, <2>3, <2>4 DEF OrderInv
<1> QED
  BY <1>12, <1>13

LEMMA NextOrder == OrderInv /\ [Next]_vars => OrderInv'
<1> SUFFICES ASSUME OrderInv, [Next]_vars
             PROVE  OrderInv'
  OBVIOUS
<1> USE DEF server, client, history, TypeOf, Type
<1>1. CASE GetattrDir
  <2>1. /\ pc' = "readdirplus" \/ pc' = "crashed"
        /\ pc = "getattr" /\ "dir" \in TypeOf /\ UNCHANGED <<listed, looped, kind>>
    BY <1>1 DEF GetattrDir, Getattr, Enter
  <2>2. listed = <<>> \/ kind = "any"
    BY <2>1 DEF OrderInv, Control
  <2>3. Typed'
    BY <1>1 DEF GetattrDir, Getattr, OrderInv, Typed
  <2>4. Control'
    BY <2>1 DEF OrderInv, Control
  <2> QED
    BY <2>1, <2>2, <2>3, <2>4, KeepsListed
<1>2. CASE GetattrItself
  <2>1. PICK type \in TypeOf : \E symlink \in ReadLink(type = "link") :
           listed' = Append(listed, <<0, symlink>>)
    BY <1>2 DEF GetattrItself
  <2>2. PICK symlink \in ReadLink(type = "link") : listed' = Append(listed, <<0, symlink>>)
    BY <2>1
  <2>3. symlink \in Symlink
    BY <2>2 DEF ReadLink, Symlink
  <2>4. Typed'
    BY <2>2, <2>3, <1>2 DEF GetattrItself, Getattr, OrderInv, Typed
  <2>5. ListedInOrder'
    <3>1. kind # "any" => listed = <<>> /\ listed' = <<<<0, symlink>>>>
      BY <1>2, <2>2 DEF GetattrItself, Getattr, OrderInv, Control
    <3> QED
      BY <3>1, <1>2 DEF ListedInOrder, GetattrItself, Getattr
  <2>6. Control' /\ Behind'
    BY <1>2 DEF GetattrItself, Getattr, Control, Behind
  <2> QED
    BY <2>4, <2>5, <2>6 DEF OrderInv
<1>3. CASE GetattrFails
  <2>1. Typed' /\ Control'
    BY <1>3 DEF GetattrFails, Getattr, OrderInv, Typed, Control
  <2> QED
    BY <2>1, <1>3, KeepsListed DEF GetattrFails, Getattr
<1>4. CASE Page
  <2>1. page' \in Seq(dir) /\ eof' \in BOOLEAN
    BY <1>4, ReaddirplusAssumption DEF Page
  <2>2. page' \in Seq(Entry)
    BY <2>1 DEF OrderInv, Typed
  <2>3. changed' \in Nat /\ warned' \in Nat
    BY <1>4 DEF Page, OrderInv, Typed
  <2>4. Typed'
    BY <2>1, <2>2, <2>3, <1>4 DEF Page, Call, OrderInv, Typed
  <2>5. Control'
    BY <1>4 DEF Page, Call, OrderInv, Control
  <2> QED
    BY <2>4, <2>5, <1>4, KeepsListed DEF Page, Call
<1>5. CASE NotDir
  <2>1. Typed' /\ Control'
    BY <1>5 DEF NotDir, Call, Enter, OrderInv, Typed, Control
  <2> QED
    BY <2>1, <1>5, KeepsListed DEF NotDir, Call
<1>6. CASE CallFails
  <2>1. Typed' /\ Control'
    BY <1>6 DEF CallFails, Call, OrderInv, Typed, Control
  <2> QED
    BY <2>1, <1>6, KeepsListed DEF CallFails, Call
<1>7. CASE SkipEntry
  <2>1. Tail(page) \in Seq(Entry)
    BY <1>7 DEF SkipEntry, OrderInv, Typed
  <2>2. Typed' /\ Control'
    BY <2>1, <1>7 DEF SkipEntry, Scan, OrderInv, Typed, Control
  <2> QED
    BY <2>2, <1>7, KeepsListed DEF SkipEntry, Scan
<1>8. CASE ListEntry
  BY <1>8, AppendsNext
<1>9. CASE NextPage
  <2>1. Typed' /\ Control'
    BY <1>9 DEF NextPage, Scan, OrderInv, Typed, Control
  <2> QED
    BY <2>1, <1>9, KeepsListed DEF NextPage, Scan
<1>10. CASE EndOfDirectory
  <2>1. Typed' /\ Control'
    BY <1>10 DEF EndOfDirectory, Scan, OrderInv, Typed, Control
  <2> QED
    BY <2>1, <1>10, KeepsListed DEF EndOfDirectory, Scan
<1>11. CASE Change
  <2>1. dir' \subseteq Entry
    BY <1>11 DEF Change, OrderInv, Typed
  <2>2. verf' \in Nat
    BY <1>11 DEF Change, OrderInv, Typed
  <2>3. Typed' /\ Control'
    BY <2>1, <2>2, <1>11 DEF Change, OrderInv, Typed, Control
  <2> QED
    BY <2>3, <1>11, KeepsListed DEF Change
<1>12. CASE UNCHANGED vars
  <2>1. Typed' /\ Control'
    BY <1>12 DEF vars, OrderInv, Typed, Control
  <2> QED
    BY <2>1, <1>12, KeepsListed DEF vars
<1> QED
  BY <1>1, <1>2, <1>3, <1>4, <1>5, <1>6, <1>7, <1>8, <1>9, <1>10, <1>11, <1>12
     DEF Next, Nfsls, Done

\* Whatever cookies the server gives, the entries of a listing are in order of
\* them and none comes twice, but for a last one that is said to be a loop; it
\* need only agree with itself about the type of the filehandle.
THEOREM ListsInOrder == Spec => []ListedInOrder
<1>1. OrderInv => ListedInOrder
  BY DEF OrderInv
<1> QED
  BY <1>1, InitOrder, NextOrder, PTL DEF Spec

-----------------------------------------------------------------------------
LEMMA InitType == Init => TypeOK
<1> SUFFICES ASSUME Init PROVE TypeOK
  OBVIOUS
<1>1. dir \subseteq Entry /\ hidden \subseteq Entry /\ verf \in Nat /\ strict \in BOOLEAN
  <2>1. dir \subseteq Entry
    BY DEF Init
  <2>2. hidden \subseteq Entry
    BY DEF Init
  <2>3. verf \in Nat /\ strict \in BOOLEAN
    <3>1. verf \in Nat
      BY DEF Init
    <3>2. strict \in BOOLEAN
      <4>1. CASE verf = 0
        BY <4>1 DEF Init
      <4>2. CASE verf # 0
        BY <4>2 DEF Init
      <4> QED
        BY <4>1, <4>2
    <3> QED
      BY <3>1, <3>2
  <2> QED
    BY <2>1, <2>2, <2>3
<1>2. pc \in {"getattr", "readdirplus", "entries", "done", "crashed"}
  BY DEF Init
<1>3. page \in Seq(Entry) /\ listed \in Seq((Entry \cup {0}) \X Symlink)
  BY DEF Init
<1>4. /\ kind \in Type \cup {"any"} /\ firstVerf \subseteq Nat
      /\ argVerf \in Nat /\ resVerf \in Nat /\ changes \in Nat /\ depth \in Nat
      /\ warned \in Nat /\ changed \in Nat
      /\ cookie \in Entry \cup {0}
      /\ stayed \subseteq Entry /\ requested \subseteq Entry \cup {0}
  BY <1>1 DEF Init
<1>5. /\ listdot \in BOOLEAN /\ listdir \in BOOLEAN
      /\ eof \in BOOLEAN /\ looped \in BOOLEAN /\ cut \in BOOLEAN
  BY <1>1 DEF Init
<1>6. honest \in BOOLEAN
  <2>1. CASE kind = "any"
    BY <2>1 DEF Init
  <2>2. CASE kind # "any"
    BY <2>2 DEF Init
  <2> QED
    BY <2>1, <2>2
<1> QED
  BY <1>1, <1>2, <1>3, <1>4, <1>5, <1>6 DEF TypeOK

LEMMA NextType == TypeOK /\ [Next]_vars => TypeOK'
<1> SUFFICES ASSUME TypeOK, [Next]_vars
             PROVE  TypeOK'
  OBVIOUS
<1> USE DEF TypeOK, server, client, history, TypeOf, Type
<1>1. CASE GetattrDir \/ GetattrFails
  <2>1. cut' \in BOOLEAN
    BY <1>1, Zenon DEF GetattrDir, GetattrFails
  <2>2. pc' \in {"readdirplus", "crashed", "done"} /\ depth' \in Nat
    BY <1>1 DEF GetattrDir, GetattrFails, Enter
  <2>3. requested' \subseteq Entry \cup {0} /\ firstVerf' \subseteq Nat
    BY <1>1 DEF GetattrDir, GetattrFails
  <2>4. /\ {argVerf', resVerf', warned', changed'} \subseteq Nat
        /\ cookie' \in Entry \cup {0}
    BY <1>1 DEF GetattrDir, GetattrFails
  <2>5. UNCHANGED <<server, listdot, listdir, page, eof, looped, stayed, listed>>
    BY <1>1 DEF GetattrDir, GetattrFails, Getattr
  <2> QED
    BY <2>1, <2>2, <2>3, <2>4, <2>5
<1>2. CASE GetattrItself
  <2>1. PICK type \in TypeOf, symlink \in UNION {ReadLink(isLink) : isLink \in BOOLEAN} :
           listed' = Append(listed, <<0, symlink>>)
    BY <1>2 DEF GetattrItself, ReadLink
  <2>2. symlink \in Symlink
    BY <2>1 DEF ReadLink, Symlink
  <2>3. listed' \in Seq((Entry \cup {0}) \X Symlink)
    BY <2>1, <2>2
  <2> QED
    BY <2>3, <1>2 DEF GetattrItself, Getattr
<1>3. CASE Page
  <2>1. page' \in Seq(dir) /\ eof' \in BOOLEAN
    BY <1>3, ReaddirplusAssumption DEF Page
  <2>2. page' \in Seq(Entry)
    BY <2>1
  <2>3. changed' \in Nat /\ warned' \in Nat /\ resVerf' \in Nat /\ pc' = "entries"
    BY <1>3 DEF Page
  <2>4. requested' \subseteq Entry \cup {0} /\ firstVerf' \subseteq Nat
    <3>1. requested' = {} \/ requested' = {cookie}
      BY <1>3, Zenon DEF Page
    <3>2. firstVerf' = {verf} \/ firstVerf' = firstVerf
      BY <1>3, Zenon DEF Page
    <3> QED
      BY <3>1, <3>2
  <2> QED
    BY <2>1, <2>2, <2>3, <2>4, <1>3 DEF Page, Call
<1>4. CASE NotDir \/ CallFails
  <2>1. cut' \in BOOLEAN
    BY <1>4, Zenon DEF NotDir, CallFails
  <2>2. pc' \in {"getattr", "crashed", "done"} /\ depth' \in Nat
    BY <1>4 DEF NotDir, CallFails, Enter
  <2>3. UNCHANGED <<server, listdot, listdir, cookie, listed, looped, stayed, argVerf,
                    page, eof, resVerf, warned, requested, changed, firstVerf>>
    BY <1>4, Zenon DEF NotDir, CallFails, Call
  <2> QED
    BY <2>1, <2>2, <2>3
<1>5. CASE SkipEntry
  <2>1. Tail(page) \in Seq(Entry)
    BY <1>5 DEF SkipEntry
  <2> QED
    BY <2>1, <1>5 DEF SkipEntry, Scan
<1>6. CASE ListEntry
  <2> DEFINE e == Head(page)
  <2>1. PICK symlink \in ReadLink(e \in Links) : listed' = Append(listed, <<e, symlink>>)
    BY <1>6 DEF ListEntry
  <2>2. e \in Entry /\ Tail(page) \in Seq(Entry)
    BY <1>6 DEF ListEntry
  <2>3. symlink \in Symlink
    BY <2>1 DEF ReadLink, Symlink
  <2>4. listed' \in Seq((Entry \cup {0}) \X Symlink)
    BY <2>1, <2>2, <2>3
  <2>5. Advance(e)
    BY <1>6 DEF ListEntry
  <2>6. eof' \in BOOLEAN /\ looped' \in BOOLEAN
    BY <2>5, Zenon DEF Advance
  <2>7. cookie' \in Entry \cup {0}
    BY <2>2, <2>5 DEF Advance
  <2>8. page' \in Seq(Entry)
    <3>1. page' = Tail(page) \/ page' = <<>>
      BY <2>5, Zenon DEF Advance
    <3>2. <<>> \in Seq(Entry)
      OBVIOUS
    <3> QED
      BY <2>2, <3>1, <3>2, Zenon
  <2> QED
    BY <2>4, <2>6, <2>7, <2>8, <1>6 DEF ListEntry, Scan
<1>7. CASE NextPage \/ EndOfDirectory
  BY <1>7 DEF NextPage, EndOfDirectory, Scan
<1>8. CASE Change
  <2>1. dir' \subseteq Entry
    BY <1>8 DEF Change
  <2>2. verf' \in Nat
    BY <1>8 DEF Change
  <2> QED
    BY <2>1, <2>2, <1>8 DEF Change
<1>9. CASE UNCHANGED vars
  BY <1>9 DEF vars
<1> QED
  BY <1>1, <1>2, <1>3, <1>4, <1>5, <1>6, <1>7, <1>8, <1>9 DEF Next, Nfsls, Done

-----------------------------------------------------------------------------
\* The verifier that is sent is the one of the last answer, or empty before the
\* first.
AnswerInv ==
    /\ pc \in {"getattr", "readdirplus"} => argVerf = resVerf
    /\ firstVerf = {} => argVerf = 0 /\ resVerf = 0 /\ changed = 0
    /\ ChangeIsReported

LEMMA NextAnswer == TypeOK /\ AnswerInv /\ [Next]_vars => AnswerInv'
<1> SUFFICES ASSUME TypeOK, AnswerInv, [Next]_vars
             PROVE  AnswerInv'
  OBVIOUS
<1> USE DEF AnswerInv, ChangeIsReported, server, client, history
<1>1. CASE GetattrDir
  BY <1>1 DEF GetattrDir, Getattr
<1>2. CASE GetattrItself \/ GetattrFails
  BY <1>2 DEF GetattrItself, GetattrFails, Getattr
<1>3. CASE Page
  <2>1. /\ argVerf = resVerf /\ pc' = "entries" /\ resVerf' = verf /\ argVerf' = argVerf
        /\ warned' = IF argVerf # verf THEN warned + 1 ELSE warned
    BY <1>3 DEF Page, Call
  <2>2. CASE firstVerf = {}
    <3>1. firstVerf' = {verf} /\ changed' = 0 /\ changed = 0 /\ warned = 0 /\ argVerf = 0
      BY <1>3, <2>2 DEF Page
    <3>2. warned' = IF verf # 0 THEN 1 ELSE 0
      BY <2>1, <3>1
    <3> QED
      BY <2>1, <3>1, <3>2
  <2>3. CASE firstVerf # {}
    <3>1. /\ firstVerf' = firstVerf
          /\ changed' = IF resVerf # verf THEN changed + 1 ELSE changed
      BY <1>3, <2>3 DEF Page
    <3>2. warned \in Nat /\ changed \in Nat
      BY DEF TypeOK
    <3>3. CASE resVerf # verf
      BY <2>1, <2>3, <3>1, <3>2, <3>3
    <3>4. CASE resVerf = verf
      BY <2>1, <2>3, <3>1, <3>2, <3>4
    <3> QED
      BY <3>3, <3>4
  <2> QED
    BY <2>2, <2>3
<1>4. CASE NotDir \/ CallFails
  BY <1>4 DEF NotDir, CallFails, Call
<1>5. CASE SkipEntry
  BY <1>5 DEF SkipEntry, Scan
<1>6. CASE ListEntry
  BY <1>6 DEF ListEntry, Scan
<1>7. CASE NextPage
  BY <1>7 DEF NextPage, Scan
<1>8. CASE EndOfDirectory
  BY <1>8 DEF EndOfDirectory, Scan
<1>9. CASE Change
  BY <1>9 DEF Change
<1>10. CASE UNCHANGED vars
  BY <1>10 DEF vars
<1> QED
  BY <1>1, <1>2, <1>3, <1>4, <1>5, <1>6, <1>7, <1>8, <1>9, <1>10 DEF Next, Nfsls, Done

\* A change of the directory's verifier is reported exactly once per answer, and
\* the first answer's as if it were one, however often the directory changes and
\* whatever the server does with old verifiers.
THEOREM ReportsChanges == Spec => []ChangeIsReported
<1>1. Init => AnswerInv
  BY DEF Init, AnswerInv, ChangeIsReported
<1>2. AnswerInv => ChangeIsReported
  BY DEF AnswerInv
<1> QED
  BY <1>1, <1>2, InitType, NextType, NextAnswer, PTL DEF Spec

-----------------------------------------------------------------------------
\* While the answers agree the calls nest at most once: only what is no
\* directory leads from do_readdirplus() to do_getattr(), and only a directory
\* the other way.
DepthInv ==
    kind # "any" =>
        /\ depth \in {1, 2} /\ pc # "crashed"
        /\ pc = "getattr" /\ depth = 2 => kind # "dir"
        /\ pc = "readdirplus" /\ depth = 2 => kind = "dir"

LEMMA NextDepth == OrderInv /\ DepthInv /\ [Next]_vars => DepthInv'
<1> SUFFICES ASSUME OrderInv, DepthInv, [Next]_vars
             PROVE  DepthInv'
  OBVIOUS
<1> USE DEF DepthInv, server, client, history, TypeOf, Type
<1>1. CASE GetattrDir \/ GetattrItself \/ GetattrFails
  BY <1>1, ReaddirplusAssumption DEF GetattrDir, GetattrItself, GetattrFails, Getattr, Enter
<1>2. CASE Page \/ NotDir \/ CallFails
  BY <1>2, ReaddirplusAssumption DEF Page, NotDir, CallFails, Call, Enter
<1>3. CASE SkipEntry
  BY <1>3 DEF SkipEntry, Scan
<1>4. CASE ListEntry
  BY <1>4 DEF ListEntry, Scan
<1>5. CASE NextPage
  <2>1. /\ kind # "any" => kind = "dir"
        /\ kind' = kind /\ depth' = depth /\ pc' = "readdirplus"
    BY <1>5 DEF NextPage, Scan, OrderInv, Control
  <2> QED
    BY <2>1, <1>5 DEF NextPage
<1>6. CASE EndOfDirectory
  BY <1>6 DEF EndOfDirectory, Scan
<1>7. CASE Change
  BY <1>7 DEF Change
<1>8. CASE UNCHANGED vars
  BY <1>8 DEF vars
<1> QED
  BY <1>1, <1>2, <1>3, <1>4, <1>5, <1>6, <1>7, <1>8 DEF Next, Nfsls, Done

\* do_getattr() and do_readdirplus() do not call each other in a loop as long as
\* the answers agree about the type of the filehandle.
THEOREM NestsOnce == Spec => []DepthIsBounded
<1>1. Init => DepthInv
  BY DEF Init, DepthInv
<1>2. DepthInv => DepthIsBounded
  BY DEF DepthInv, DepthIsBounded, NoRecursion
<1> QED
  BY <1>1, <1>2, InitOrder, NextOrder, NextDepth, PTL DEF Spec

-----------------------------------------------------------------------------
\* With -a: as long as entries of a page are left the position may be where
\* the call began; behind the last one it is further, or the directory ended.
PositionInv ==
    listdot =>
        /\ pc \in {"getattr", "readdirplus"} => \A r \in requested : r < cookie
        /\ pc = "entries" =>
             eof \/ \A r \in requested : r < cookie \/ (r = cookie /\ page # <<>>)

LEMMA NextPosition == OrderInv /\ PositionInv /\ [Next]_vars => PositionInv'
<1> SUFFICES ASSUME OrderInv, PositionInv, [Next]_vars, listdot'
             PROVE  /\ pc' \in {"getattr", "readdirplus"} =>
                         \A r \in requested' : r < cookie'
                    /\ pc' = "entries" =>
                         eof' \/ \A r \in requested' :
                                    r < cookie' \/ (r = cookie' /\ page' # <<>>)
  BY DEF PositionInv
<1> USE DEF PositionInv, server, client, history
<1>1. CASE GetattrDir \/ GetattrItself \/ GetattrFails
  BY <1>1 DEF GetattrDir, GetattrItself, GetattrFails, Getattr, Enter
<1>2. CASE Page
  <2>1. cookie' = cookie /\ pc' = "entries"
    BY <1>2 DEF Page, Call
  <2>2. PICK n \in 0..PageSize : \E p \in [1..n -> dir] :
           page' = p /\ requested' = IF n = 0 THEN {} ELSE {cookie}
    BY <1>2 DEF Page
  <2>3. n # 0 => DOMAIN page' = 1..n /\ 1 \in 1..n
    BY <2>2, ReaddirplusAssumption
  <2>4. n # 0 => page' # <<>>
    BY <2>3
  <2> QED
    BY <2>1, <2>2, <2>4
<1>3. CASE NotDir \/ CallFails
  BY <1>3 DEF NotDir, CallFails, Call, Enter
<1>4. CASE SkipEntry
  BY <1>4 DEF SkipEntry, Scan, Skipped
<1>5. CASE ListEntry
  <2> DEFINE e == Head(page)
  <2>1. /\ listdot /\ pc = "entries" /\ requested' = requested
        /\ Advance(e) /\ pc' = pc
    BY <1>5 DEF ListEntry, Scan
  <2>2. CASE cookie < e
    <3>1. e \in Nat /\ cookie \in Nat /\ requested \subseteq Nat
      BY <1>5, ReaddirplusAssumption DEF ListEntry, OrderInv, Typed, Entry
    <3>2. cookie' = e /\ eof' = eof
      BY <2>1, <2>2 DEF Advance
    <3>3. eof \/ \A r \in requested : r <= cookie
      BY <2>1, <3>1
    <3>4. eof' \/ \A r \in requested' : r < cookie'
      BY <3>1, <3>2, <3>3, <2>1, <2>2
    <3> QED
      BY <3>4, <2>1
  <2>3. CASE ~(cookie < e)
    BY <2>1, <2>3 DEF Advance
  <2> QED
    BY <2>2, <2>3
<1>6. CASE NextPage
  BY <1>6 DEF NextPage, Scan
<1>7. CASE EndOfDirectory
  BY <1>7 DEF EndOfDirectory, Scan
<1>8. CASE Change
  BY <1>8 DEF Change
<1>9. CASE UNCHANGED vars
  BY <1>9 DEF vars
<1> QED
  BY <1>1, <1>2, <1>3, <1>4, <1>5, <1>6, <1>7, <1>8, <1>9 DEF Next, Nfsls, Done

\* With -a the position increases from each answer with entries to the next call,
\* whatever the server does, so a finite directory cannot be asked for for ever
\* by answers that bring something.
THEOREM IncreasesWithDots == Spec => []PositionIncreasesWithDots
<1>1. Init => PositionInv
  BY DEF Init, PositionInv
<1>2. PositionInv => PositionIncreasesWithDots
  BY DEF PositionInv, PositionIncreasesWithDots, PositionIncreases
<1> QED
  BY <1>1, <1>2, InitOrder, NextOrder, NextPosition, PTL DEF Spec

-----------------------------------------------------------------------------
\* What a listing keeps to whatever the server answers, be it nothing at all or
\* a type that was another one before.
THEOREM ListingInvariant == Spec => []ListingInv
<1>1. DepthIsBounded /\ ChangeIsReported /\ PositionIncreasesWithDots /\ TypeOK
        => ListingInv
  BY DEF ListingInv
<1> QED
  BY <1>1, InitType, NextType, NestsOnce, ReportsChanges, IncreasesWithDots, PTL DEF Spec
-----------------------------------------------------------------------------
\* What an entry that is to be listed can still wait for: its place in the
\* page, or a later page.
Waits(e) ==
    \/ e \in Range(page)
    \/ ~eof /\ \A i \in DOMAIN page : page[i] < e

\* A page of an honest server is in order, behind the position.
PageInOrder ==
    \A i \in DOMAIN page : page[i] > cookie /\ \A j \in DOMAIN page : i < j => page[i] < page[j]

\* An honest server's directory: every visible entry that stayed is listed if
\* it is not behind the position, and waits for its turn if it is.
MissInv ==
    /\ stayed \subseteq dir
    /\ \A k \in DOMAIN listed : ~Skipped(listed[k][1])
    /\ looped => ~honest
    /\ honest =>
         /\ kind # "any"
         /\ pc # "done" => \A e \in stayed :
               e <= cookie => Skipped(e) \/ e \in EntriesListed
         /\ pc = "entries" => /\ PageInOrder
                              /\ \A e \in stayed : e > cookie => Skipped(e) \/ Waits(e)
         /\ pc = "done" /\ ~cut /\ kind = "dir" /\ ~listdir =>
               \A e \in stayed : Skipped(e) \/ e \in EntriesListed

LEMMA HeadAndTail ==
    ASSUME NEW S, NEW q \in Seq(S), q # <<>>
    PROVE  /\ Head(q) \in S /\ 1 \in DOMAIN q /\ Head(q) = q[1]
           /\ \A n \in DOMAIN Tail(q) : n + 1 \in DOMAIN q /\ Tail(q)[n] = q[n + 1]
           /\ \A n \in DOMAIN q : n # 1 => n - 1 \in DOMAIN Tail(q) /\ Tail(q)[n - 1] = q[n]
  OBVIOUS

\* An entry that is appended is listed, and no other one is lost or gained.
LEMMA AppendLists ==
    ASSUME TypeOK, NEW e \in Entry \cup {0}, NEW symlink \in Symlink,
           listed' = Append(listed, <<e, symlink>>)
    PROVE  /\ EntriesListed' = EntriesListed \cup {e}
           /\ \A k \in DOMAIN listed' :
                 listed'[k][1] = e \/ (k \in DOMAIN listed /\ listed'[k] = listed[k])
<1>1. listed \in Seq((Entry \cup {0}) \X Symlink)
  BY DEF TypeOK
<1>2. /\ DOMAIN listed' = 1..(Len(listed) + 1) /\ DOMAIN listed = 1..Len(listed)
      /\ listed'[Len(listed) + 1] = <<e, symlink>> /\ Len(listed) \in Nat
      /\ \A k \in 1..Len(listed) : listed'[k] = listed[k]
  BY <1>1
<1>3. \A k \in DOMAIN listed' : k = Len(listed) + 1 \/ k \in DOMAIN listed
  BY <1>2
<1>4. EntriesListed' = EntriesListed \cup {e}
  <2>1. EntriesListed' = {listed'[k][1] : k \in DOMAIN listed \cup {Len(listed) + 1}}
    BY <1>2, <1>3 DEF EntriesListed
  <2>2. \A k \in DOMAIN listed : listed'[k][1] = listed[k][1]
    BY <1>2
  <2>3. listed'[Len(listed) + 1][1] = e
    BY <1>2
  <2> QED
    BY <2>1, <2>2, <2>3 DEF EntriesListed
<1> QED
  BY <1>2, <1>3, <1>4

\* Steps that leave the list alone, and go on or break off.
LEMMA KeepsMiss ==
    ASSUME TypeOK, MissInv,
           UNCHANGED <<stayed, dir, listed, looped, honest, hidden, listdot, kind>>,
           \/ /\ pc' # "done" /\ pc' # "entries" /\ pc # "done"
              /\ cookie' = cookie \/ cookie' = 0
           \/ pc' = "done" /\ cut'
    PROVE  MissInv'
<1>1. \A e \in stayed : cookie' = 0 => ~(e <= cookie')
  BY ReaddirplusAssumption DEF TypeOK, Entry
<1> QED
  BY <1>1 DEF MissInv, EntriesListed, Skipped

\* An honest server's page is where the listing goes on.
LEMMA PageMisses ==
    ASSUME TypeOK, MissInv, Page
    PROVE  MissInv'
<1>1. /\ pc = "readdirplus" /\ pc' = "entries"
      /\ UNCHANGED <<stayed, dir, listed, looped, honest, hidden, listdot, cookie, kind>>
  BY DEF Page, Call, server
<1>2. PICK n \in 0..PageSize : \E p \in [1..n -> dir] : \E last \in BOOLEAN :
         page' = p /\ eof' = last /\ (honest => HonestPage(p, last))
  BY DEF Page
<1>3. PICK p \in [1..n -> dir], last \in BOOLEAN :
         page' = p /\ eof' = last /\ (honest => HonestPage(p, last))
  BY <1>2
<1>4. ASSUME honest
      PROVE  PageInOrder' /\ \A e \in stayed : e > cookie => Waits(e)'
  <2>1. HonestPage(p, last)
    BY <1>3, <1>4
  <2>2. PageInOrder'
    BY <1>1, <1>3, <2>1 DEF HonestPage, PageInOrder
  <2>3. ASSUME NEW e \in stayed, e > cookie
        PROVE  Waits(e)'
    BY <1>3, <2>1, <2>3 DEF HonestPage, Waits, MissInv
  <2> QED
    BY <2>2, <2>3
<1> QED
  BY <1>1, <1>4 DEF MissInv, EntriesListed, Skipped

\* A hidden entry is nothing that the listing waits for, ...
LEMMA SkipMisses ==
    ASSUME TypeOK, MissInv, SkipEntry
    PROVE  MissInv'
<1>1. /\ pc = "entries" /\ pc' = "entries" /\ page # <<>> /\ page \in Seq(Entry)
      /\ Skipped(Head(page)) /\ page' = Tail(page)
      /\ UNCHANGED <<stayed, dir, listed, looped, honest, hidden, listdot, cookie, eof, kind>>
  BY DEF SkipEntry, Scan, server, TypeOK
<1>2. /\ Head(page) = page[1] /\ 1 \in DOMAIN page
      /\ \A n \in DOMAIN page' : n + 1 \in DOMAIN page /\ page'[n] = page[n + 1]
      /\ \A n \in DOMAIN page : n # 1 => n - 1 \in DOMAIN page' /\ page'[n - 1] = page[n]
      /\ DOMAIN page \subseteq Nat /\ DOMAIN page' \subseteq Nat
  BY <1>1, HeadAndTail
<1>3. ASSUME honest
      PROVE  PageInOrder' /\ \A e \in stayed : e > cookie => Skipped(e) \/ Waits(e)'
  <2>1. PageInOrder /\ \A e \in stayed : e > cookie => Skipped(e) \/ Waits(e)
    BY <1>1, <1>3 DEF MissInv
  <2>2. PageInOrder'
    <3> SUFFICES ASSUME NEW m \in DOMAIN page'
                 PROVE  /\ page'[m] > cookie
                        /\ \A j \in DOMAIN page' : m < j => page'[m] < page'[j]
      BY <1>1 DEF PageInOrder
    <3>1. m + 1 \in DOMAIN page /\ page'[m] = page[m + 1]
      BY <1>2
    <3>2. ASSUME NEW j \in DOMAIN page', m < j PROVE page'[m] < page'[j]
      <4>1. j + 1 \in DOMAIN page /\ page'[j] = page[j + 1] /\ m + 1 < j + 1
        BY <1>2, <3>2
      <4> QED
        BY <2>1, <3>1, <4>1 DEF PageInOrder
    <3> QED
      BY <2>1, <3>1, <3>2 DEF PageInOrder
  <2>3. ASSUME NEW e \in stayed, e > cookie, ~Skipped(e)
        PROVE  Waits(e)'
    <3>1. Waits(e)
      BY <2>1, <2>3
    <3>2. CASE e \in Range(page)
      <4>1. PICK n \in DOMAIN page : page[n] = e
        BY <3>2 DEF Range
      <4>2. n # 1
        BY <1>1, <1>2, <2>3, <4>1
      <4> QED
        BY <1>2, <4>1, <4>2 DEF Waits, Range
    <3>3. CASE ~eof /\ \A n \in DOMAIN page : page[n] < e
      BY <1>1, <1>2, <3>3 DEF Waits
    <3> QED
      BY <3>1, <3>2, <3>3 DEF Waits
  <2> QED
    BY <2>2, <2>3
<1> QED
  BY <1>1, <1>3 DEF MissInv, EntriesListed, Skipped

\* ... and an entry that is listed is the one that waited longest.
LEMMA ListMisses ==
    ASSUME TypeOK, MissInv, ListEntry
    PROVE  MissInv'
<1> DEFINE h == Head(page)
<1>1. /\ pc = "entries" /\ pc' = "entries" /\ page # <<>> /\ page \in Seq(Entry)
      /\ ~Skipped(h) /\ Advance(h)
      /\ UNCHANGED <<stayed, dir, honest, hidden, listdot, kind>>
  BY DEF ListEntry, Scan, server, TypeOK
<1>2. /\ h = page[1] /\ 1 \in DOMAIN page /\ h \in Entry /\ DOMAIN page \subseteq Nat
      /\ \A n \in DOMAIN Tail(page) : n + 1 \in DOMAIN page /\ Tail(page)[n] = page[n + 1]
      /\ \A n \in DOMAIN page :
            n # 1 => n - 1 \in DOMAIN Tail(page) /\ Tail(page)[n - 1] = page[n]
      /\ DOMAIN Tail(page) \subseteq Nat
      /\ \A n \in DOMAIN page : page[n] \in Nat
  BY <1>1, HeadAndTail, ReaddirplusAssumption DEF Entry
<1>3. PICK symlink \in ReadLink(h \in Links) : listed' = Append(listed, <<h, symlink>>)
  BY DEF ListEntry
<1>4. symlink \in Symlink
  BY <1>3 DEF ReadLink, Symlink
<1>5. /\ EntriesListed' = EntriesListed \cup {h}
      /\ \A k \in DOMAIN listed' :
            listed'[k][1] = h \/ (k \in DOMAIN listed /\ listed'[k] = listed[k])
  BY <1>2, <1>3, <1>4, AppendLists
<1>6. \A k \in DOMAIN listed' : ~Skipped(listed'[k][1])
  BY <1>1, <1>5 DEF MissInv
<1>7. cookie \in Nat /\ h \in Nat /\ stayed \subseteq Nat
  BY <1>2, ReaddirplusAssumption DEF TypeOK, Entry
<1> HIDE DEF h
<1>8. CASE ~honest
  BY <1>1, <1>6, <1>8 DEF MissInv, Skipped
<1>9. CASE honest
  <2>1. /\ PageInOrder /\ ~looped
        /\ \A e \in stayed : e > cookie => Skipped(e) \/ Waits(e)
        /\ \A e \in stayed : e <= cookie => Skipped(e) \/ e \in EntriesListed
    BY <1>1, <1>9 DEF MissInv
  <2>2. cookie < h
    BY <1>2, <2>1, <1>7 DEF PageInOrder
  <2>3. cookie' = h /\ page' = Tail(page) /\ UNCHANGED <<eof, looped>>
    BY <1>1, <2>2 DEF Advance
  <2>4. PageInOrder'
    <3> SUFFICES ASSUME NEW m \in DOMAIN page'
                 PROVE  /\ page'[m] > h
                        /\ \A j \in DOMAIN page' : m < j => page'[m] < page'[j]
      BY <2>3 DEF PageInOrder
    <3>1. /\ m + 1 \in DOMAIN page /\ page'[m] = page[m + 1] /\ 1 < m + 1
          /\ 1 \in DOMAIN page
      <4>1. m \in DOMAIN Tail(page) /\ m \in Nat /\ m # 0
        BY <1>1, <1>2, <2>3
      <4> QED
        BY <1>2, <2>3, <4>1
    <3>2. page'[m] > h
      BY <1>2, <2>1, <3>1 DEF PageInOrder
    <3>3. ASSUME NEW j \in DOMAIN page', m < j PROVE page'[m] < page'[j]
      <4>1. j + 1 \in DOMAIN page /\ page'[j] = page[j + 1] /\ m + 1 < j + 1
        BY <1>2, <2>3, <3>3
      <4> QED
        BY <2>1, <3>1, <4>1 DEF PageInOrder
    <3> QED
      BY <3>2, <3>3
  <2>5. ASSUME NEW e \in stayed, ~Skipped(e), e > h
        PROVE  Waits(e)'
    <3>1. Waits(e)
      BY <1>7, <2>1, <2>2, <2>5
    <3>2. CASE e \in Range(page)
      <4>1. PICK n \in DOMAIN page : page[n] = e
        BY <3>2 DEF Range
      <4>2. n # 1
        BY <1>2, <1>7, <2>5, <4>1
      <4> QED
        BY <1>2, <2>3, <4>1, <4>2 DEF Waits, Range
    <3>3. CASE ~eof /\ \A n \in DOMAIN page : page[n] < e
      BY <1>2, <2>3, <3>3 DEF Waits
    <3> QED
      BY <3>1, <3>2, <3>3 DEF Waits
  <2>6. ASSUME NEW e \in stayed, ~Skipped(e), e <= h
        PROVE  e \in EntriesListed'
    <3>1. CASE e <= cookie
      BY <1>5, <2>1, <2>6, <3>1
    <3>2. CASE e > cookie
      <4>1. Waits(e)
        BY <2>1, <2>6, <3>2
      <4>2. e \in Range(page)
        BY <1>2, <1>7, <2>6, <4>1 DEF Waits
      <4>3. PICK n \in DOMAIN page : page[n] = e
        BY <4>2 DEF Range
      <4>4. n = 1
        <5>1. n # 1 => 1 < n
          BY <1>1, <4>3
        <5> QED
          BY <1>2, <1>7, <2>1, <2>6, <4>3, <5>1 DEF PageInOrder
      <4> QED
        BY <1>2, <1>5, <4>3, <4>4
    <3> QED
      BY <1>7, <3>1, <3>2
  <2> QED
    BY <1>1, <1>6, <1>9, <2>1, <2>3, <2>4, <2>5, <2>6 DEF MissInv, Skipped
<1> QED
  BY <1>8, <1>9

LEMMA NextMiss == TypeOK /\ OrderInv /\ MissInv /\ [Next]_vars => MissInv'
<1> SUFFICES ASSUME TypeOK, OrderInv, MissInv, [Next]_vars
             PROVE  MissInv'
  OBVIOUS
<1> USE DEF server, client, history
<1>1. CASE GetattrDir \/ GetattrFails
  BY <1>1, KeepsMiss DEF GetattrDir, GetattrFails, Getattr, Enter
<1>2. CASE GetattrItself
  <2>1. PICK type \in TypeOf, symlink \in UNION {ReadLink(isLink) : isLink \in BOOLEAN} :
           listed' = Append(listed, <<0, symlink>>)
    BY <1>2 DEF GetattrItself, ReadLink
  <2>2. symlink \in Symlink
    BY <2>1 DEF ReadLink, Symlink
  <2>3. \A k \in DOMAIN listed' :
           listed'[k][1] = 0 \/ (k \in DOMAIN listed /\ listed'[k] = listed[k])
    BY <2>1, <2>2, AppendLists
  <2>4. 0 \notin hidden
    BY ReaddirplusAssumption DEF TypeOK, Entry
  <2>5. /\ pc' = "done" /\ (kind # "dir" \/ listdir)
        /\ UNCHANGED <<stayed, dir, looped, honest, hidden, listdot, kind, listdir>>
    BY <1>2 DEF GetattrItself, Getattr, TypeOf
  <2> QED
    BY <2>3, <2>4, <2>5 DEF MissInv, Skipped
<1>3. CASE NotDir \/ CallFails
  BY <1>3, KeepsMiss DEF NotDir, CallFails, Call, Enter
<1>4. CASE NextPage
  BY <1>4, KeepsMiss DEF NextPage, Scan
<1>5. CASE EndOfDirectory
  <2>1. /\ pc = "entries" /\ page = <<>> /\ eof
        /\ UNCHANGED <<stayed, dir, listed, looped, honest, hidden, listdot, kind>>
        /\ pc' = "done"
    BY <1>5 DEF EndOfDirectory, Scan
  <2>2. ASSUME honest, NEW e \in stayed
        PROVE  Skipped(e) \/ e \in EntriesListed
    <3>1. e \in Nat /\ cookie \in Nat
      BY ReaddirplusAssumption DEF TypeOK, Entry
    <3>2. CASE e <= cookie
      BY <2>1, <2>2, <3>2 DEF MissInv
    <3>3. CASE e > cookie
      <4>1. Skipped(e) \/ Waits(e)
        BY <2>1, <2>2, <3>3 DEF MissInv
      <4>2. ~Waits(e)
        BY <2>1 DEF Waits, Range
      <4> QED
        BY <4>1, <4>2
    <3> QED
      BY <3>1, <3>2, <3>3
  <2> QED
    BY <2>1, <2>2 DEF MissInv, EntriesListed, Skipped
<1>6. CASE Change
  <2>1. /\ UNCHANGED <<pc, listed, looped, honest, hidden, listdot, cookie, page, eof,
                       kind, listdir, cut>>
        /\ stayed' = stayed \cap dir' /\ pc # "done"
    BY <1>6 DEF Change
  <2> QED
    BY <2>1 DEF MissInv, EntriesListed, Skipped, Waits, PageInOrder
<1>7. CASE UNCHANGED vars
  BY <1>7 DEF vars, MissInv, EntriesListed, Skipped, Waits, PageInOrder
<1> QED
  BY <1>1, <1>2, <1>3, <1>4, <1>5, <1>6, <1>7, PageMisses, SkipMisses, ListMisses
  DEF Next, Nfsls, Done

\* A listing from an honest server that came to its end is complete and shows
\* nothing hidden, for directories, pages and changes of any number, and no
\* such server is blamed for a loop.
THEOREM MissesNothing == Spec => []NothingIsMissed
<1>1. Init => MissInv
  <2> SUFFICES ASSUME Init PROVE MissInv
    OBVIOUS
  <2>1. /\ stayed = dir /\ listed = <<>> /\ ~looped /\ cookie = 0
        /\ pc \in {"getattr", "readdirplus"}
    BY DEF Init
  <2>3. honest => kind # "any"
    BY DEF Init
  <2>2. dir \subseteq Nat \ {0}
    BY InitType, ReaddirplusAssumption DEF TypeOK, Entry
  <2> QED
    BY <2>1, <2>2, <2>3 DEF MissInv
<1>2. MissInv => NothingIsMissed
  <2> SUFFICES ASSUME MissInv PROVE NothingIsMissed
    OBVIOUS
  <2>1. listdot \/ EntriesListed \cap hidden = {}
    BY DEF MissInv, EntriesListed, Skipped
  <2>2. ASSUME pc = "done", ~cut, honest, kind = "dir", ~listdir
        PROVE  stayed \ (IF listdot THEN {} ELSE hidden) \subseteq EntriesListed
    BY <2>2 DEF MissInv, Skipped
  <2> QED
    BY <2>1, <2>2 DEF NothingIsMissed, MissInv
<1> QED
  BY <1>1, <1>2, InitType, NextType, InitOrder, NextOrder, NextMiss, PTL DEF Spec

=============================================================================
