---------------------------- MODULE Readdirplus -----------------------------
(***************************************************************************)
(* The calls that make up one listing of src/src/ls.c: do_readdirplus()    *)
(* asks for a directory page by page, do_getattr() for anything else, and  *)
(* each may call the other.  READLINK follows for every symbolic link.     *)
(*                                                                         *)
(* An entry of a directory is its cookie.  The server may lose an answer,  *)
(* change the directory between two calls, give cookies in any order, send *)
(* answers with nothing in them, or call the same filehandle a directory   *)
(* in one answer and something else in the next.  Attributes, names and    *)
(* the copy of an entry (XDR_COPY) are left out.                           *)
(***************************************************************************)
EXTENDS Naturals, Sequences, Functions

CONSTANTS
    MaxEntry,    \* the cookies are 1..MaxEntry
    Links,       \* the entries that are symbolic links
    PageSize,    \* entries that fit into maxcount bytes
    MaxDepth,    \* nested calls the stack has room for
    MaxChanges   \* bound on the changes of the directory

ASSUME ReaddirplusAssumption ==
    /\ MaxEntry \in Nat
    /\ Links \subseteq 1..MaxEntry
    /\ PageSize \in Nat \ {0}
    /\ MaxDepth \in Nat /\ MaxDepth >= 2
    /\ MaxChanges \in Nat

Entry == 1..MaxEntry

VARIABLES
    \* the server
    kind,      \* what the filehandle stands for; "any" if the answers disagree
    dir,       \* the entries of the directory
    hidden,    \* the entries whose name starts with a dot
    verf,      \* its cookieverf; 0 on servers that do not use it
    strict,    \* TRUE if it turns down an old cookieverf
    honest,    \* FALSE if it may give cookies in any order, or none
    changes,   \* changes so far
    \* nfsls
    listdot,   \* -a
    listdir,   \* -d
    pc,        \* where the listing is
    cookie,    \* args.cookie
    argVerf,   \* args.cookieverf
    page,      \* the entries of the answer that are still to be looked at
    eof,       \* reply.eof
    resVerf,   \* the cookieverf of the answer
    listed,    \* the list that is returned: <<entry, symlink>>
    \* history; of this do_readdirplus(): warned, requested, changed, firstVerf
    looped,    \* a cookie did not increase
    warned,    \* times the cookieverf was said to have changed
    cut,       \* an error or a lost answer ended the listing
    stayed,    \* the entries in the directory from the first call on
    requested, \* the cookie that the last answer was for, in a set; empty
               \* without an answer, or if that had no entries
    changed,   \* answers with another cookieverf than the answer before
    firstVerf, \* the cookieverf of the first answer, in a set
    depth      \* nested calls of the two functions

server == <<kind, dir, hidden, verf, strict, honest, changes>>
client == <<pc, cookie, argVerf, page, eof, resVerf, listed>>
history == <<looped, warned, cut, requested, changed, firstVerf, depth>>
vars == <<server, listdot, listdir, client, history, stayed>>

Symlink == {"none", "target", "NULL"}

Type == {"dir", "file", "link"}

\* What an answer may say of the filehandle: each is judged by itself.
TypeOf == IF kind = "any" THEN Type ELSE {kind}

TypeOK ==
    /\ kind \in Type \cup {"any"}
    /\ dir \subseteq Entry /\ hidden \subseteq Entry
    /\ verf \in Nat /\ argVerf \in Nat /\ resVerf \in Nat
    /\ changes \in Nat /\ changed \in Nat /\ warned \in Nat /\ depth \in Nat
    /\ cookie \in Entry \cup {0}
    /\ strict \in BOOLEAN /\ honest \in BOOLEAN
    /\ listdot \in BOOLEAN /\ listdir \in BOOLEAN
    /\ eof \in BOOLEAN /\ looped \in BOOLEAN /\ cut \in BOOLEAN
    /\ pc \in {"getattr", "readdirplus", "entries", "done", "crashed"}
    /\ page \in Seq(Entry)
    /\ listed \in Seq((Entry \cup {0}) \X Symlink)
    /\ stayed \subseteq Entry
    /\ requested \subseteq Entry \cup {0}
    /\ firstVerf \subseteq Nat

\* main() calls do_getattr() with -d or without a trailing slash.
Init ==
    /\ kind \in Type \cup {"any"}
    /\ dir \in IF "dir" \in TypeOf THEN SUBSET Entry ELSE {{}}
    /\ listdot \in BOOLEAN
    /\ hidden \in IF listdot THEN {{}} ELSE SUBSET Entry  \* with -a it is the same
    /\ verf \in {0, 1}
    /\ strict \in IF verf = 0 THEN {FALSE} ELSE BOOLEAN
    /\ honest \in IF kind = "any" THEN {FALSE} ELSE BOOLEAN
    /\ changes = 0
    /\ listdir \in BOOLEAN
    /\ pc \in IF listdir THEN {"getattr"} ELSE {"getattr", "readdirplus"}
    /\ cookie = 0
    /\ argVerf = 0
    /\ page = <<>>
    /\ eof = FALSE
    /\ resVerf = 0
    /\ listed = <<>>
    /\ looped = FALSE
    /\ warned = 0
    /\ cut = FALSE
    /\ stayed = dir
    /\ requested = {}
    /\ changed = 0
    /\ firstVerf = {}
    /\ depth = 1

\* One function calls the other; nothing keeps that from going on until the
\* stack is full.
Enter(function) ==
    IF depth < MaxDepth
    THEN pc' = function /\ depth' = depth + 1
    ELSE pc' = "crashed" /\ UNCHANGED depth

-----------------------------------------------------------------------------
\* do_getattr().

Getattr ==
    /\ pc = "getattr"
    /\ UNCHANGED <<server, listdot, listdir, page, eof, looped, stayed>>

\* A directory is to be listed after all, from its beginning.
GetattrDir ==
    /\ Getattr
    /\ "dir" \in TypeOf /\ ~listdir
    /\ Enter("readdirplus")
    /\ cookie' = 0 /\ argVerf' = 0 /\ resVerf' = 0
    /\ warned' = 0 /\ changed' = 0 /\ requested' = {} /\ firstVerf' = {}
    /\ UNCHANGED <<listed, cut>>

\* do_readlink(): the name it points to, or NULL.
ReadLink(isLink) == IF isLink THEN {"target", "NULL"} ELSE {"none"}

\* The object itself is the only entry (0).
GetattrItself ==
    /\ Getattr
    /\ \E type \in TypeOf :
         /\ type # "dir" \/ listdir
         /\ \E symlink \in ReadLink(type = "link") :
              listed' = Append(listed, <<0, symlink>>)
    /\ pc' = "done"
    /\ UNCHANGED <<cookie, argVerf, resVerf, warned, requested, changed, firstVerf,
                   depth, cut>>

GetattrFails ==
    /\ Getattr
    /\ pc' = "done"
    /\ cut' = TRUE
    /\ UNCHANGED <<cookie, argVerf, resVerf, warned, requested, changed, firstVerf,
                   depth, listed>>

-----------------------------------------------------------------------------
\* do_readdirplus(): the call.

Call ==
    /\ pc = "readdirplus"
    /\ UNCHANGED <<server, listdot, listdir, cookie, listed, looped, stayed>>

\* A server turns down a verifier that is not its own, but for the first call.
BadCookie == strict /\ cookie # 0 /\ argVerf # verf

\* What an honest server may answer: the entries behind the cookie, in order,
\* as many as fit but at least one, and eof only when there are none left.
HonestPage(p, last) ==
    /\ p = <<>> => last
    /\ \A i \in DOMAIN p : p[i] > cookie /\ \A j \in DOMAIN p : i < j => p[i] < p[j]
    /\ \A e \in dir \ Range(p) :
          e > cookie => ~last /\ \A i \in DOMAIN p : p[i] < e

\* The comparison with an empty verifier has no length, so every difference
\* to what was sent is taken for a change, the first answer's too.
Page ==
    /\ Call
    /\ "dir" \in TypeOf /\ ~BadCookie
    /\ \E n \in 0..PageSize : \E p \in [1..n -> dir] : \E last \in BOOLEAN :
         /\ honest => HonestPage(p, last)
         /\ page' = p
         /\ eof' = last
         /\ requested' = IF n = 0 THEN {} ELSE {cookie}
    /\ resVerf' = verf
    /\ warned' = IF argVerf # verf THEN warned + 1 ELSE warned
    /\ changed' = IF firstVerf # {} /\ resVerf # verf THEN changed + 1 ELSE changed
    /\ firstVerf' = IF firstVerf = {} THEN {verf} ELSE firstVerf
    /\ pc' = "entries"
    /\ UNCHANGED <<argVerf, cut, depth>>

\* Not a directory: do_getattr() instead, behind what there is.
NotDir ==
    /\ Call
    /\ \E type \in TypeOf : type # "dir"
    /\ Enter("getattr")
    /\ UNCHANGED <<argVerf, page, eof, resVerf, warned, cut, requested, changed,
                   firstVerf>>

\* Another error, or no answer: what was listed so far is returned.
CallFails ==
    /\ Call
    /\ pc' = "done"
    /\ cut' = TRUE
    /\ UNCHANGED <<argVerf, page, eof, resVerf, warned, requested, changed,
                   firstVerf, depth>>

-----------------------------------------------------------------------------
\* do_readdirplus(): the entries of the answer.

Scan ==
    /\ pc = "entries"
    /\ UNCHANGED <<server, listdot, listdir, resVerf, stayed, requested, changed,
                   firstVerf, warned, cut, depth>>

Skipped(e) == ~listdot /\ e \in hidden

\* A hidden entry is passed over, and its cookie with it.
SkipEntry ==
    /\ Scan
    /\ page # <<>>
    /\ Skipped(Head(page))
    /\ page' = Tail(page)
    /\ UNCHANGED <<pc, cookie, argVerf, eof, listed, looped>>

\* Mutant: the cookies are not looked at.
AdvanceAlways(e) ==
    /\ cookie' = e
    /\ page' = Tail(page)
    /\ UNCHANGED <<eof, looped>>

\* The position is where the entry was.  If that does not increase it this
\* entry is the last one.
Advance(e) ==
    IF cookie < e
    THEN /\ cookie' = e
         /\ page' = Tail(page)
         /\ UNCHANGED <<eof, looped>>
    ELSE /\ eof' = TRUE
         /\ looped' = TRUE
         /\ page' = <<>>
         /\ UNCHANGED cookie

\* An entry is listed.
ListEntry ==
    /\ Scan
    /\ page # <<>>
    /\ LET e == Head(page) IN
         /\ ~Skipped(e)
         /\ \E symlink \in ReadLink(e \in Links) :
              listed' = Append(listed, <<e, symlink>>)
         /\ Advance(e)
    /\ UNCHANGED <<pc, argVerf>>

\* Mutant: the verifier is not kept.
NextPageUnverified ==
    /\ Scan
    /\ page = <<>>
    /\ ~eof
    /\ pc' = "readdirplus"
    /\ UNCHANGED <<cookie, argVerf, page, eof, listed, looped>>

\* Mutant: the call is forgotten.
NextPageNoCall ==
    /\ Scan
    /\ page = <<>>
    /\ ~eof
    /\ argVerf' = resVerf
    /\ UNCHANGED <<pc, cookie, page, eof, listed, looped>>

\* The next call, with the verifier of this answer.
NextPage ==
    /\ Scan
    /\ page = <<>>
    /\ ~eof
    /\ pc' = "readdirplus"
    /\ argVerf' = resVerf
    /\ UNCHANGED <<cookie, page, eof, listed, looped>>

\* Mutant: one page is taken for the directory.
EndOfPage ==
    /\ Scan
    /\ page = <<>>
    /\ pc' = "done"
    /\ UNCHANGED <<cookie, argVerf, page, eof, listed, looped>>

EndOfDirectory ==
    /\ Scan
    /\ page = <<>>
    /\ eof
    /\ pc' = "done"
    /\ UNCHANGED <<cookie, argVerf, page, eof, listed, looped>>

-----------------------------------------------------------------------------
\* Somebody makes or removes an entry.
Change ==
    /\ pc \notin {"done", "crashed"}
    /\ changes < MaxChanges
    /\ changes' = changes + 1
    /\ "dir" \in TypeOf
    /\ \E e \in Entry : dir' \in {dir \cup {e}, dir \ {e}} \ {dir}
    /\ verf' = IF verf = 0 THEN 0 ELSE verf + 1
    /\ stayed' = stayed \cap dir'
    /\ UNCHANGED <<kind, hidden, strict, honest, listdot, listdir, client, history>>

Nfsls ==
    \/ GetattrDir \/ GetattrItself \/ GetattrFails
    \/ Page \/ NotDir \/ CallFails
    \/ SkipEntry \/ ListEntry \/ NextPage \/ EndOfDirectory

Done == pc \in {"done", "crashed"} /\ UNCHANGED vars

Next == Nfsls \/ Change \/ Done

Spec == Init /\ [][Next]_vars

\* Every call returns, with an answer or without.
FairSpec == Spec /\ WF_vars(Nfsls)

-----------------------------------------------------------------------------
EntriesListed == {listed[k][1] : k \in DOMAIN listed}

\* A listing that came to its end holds every visible entry that was there
\* all the time, and holds nothing that is hidden, however the server cut it
\* into pages and whatever else happened to the directory meanwhile; and no
\* honest server is said to have a "readdirplus loop".
NothingIsMissed ==
    /\ pc = "done" /\ ~cut /\ honest /\ kind = "dir" /\ ~listdir =>
         /\ stayed \ (IF listdot THEN {} ELSE hidden) \subseteq EntriesListed
         /\ listdot \/ EntriesListed \cap hidden = {}
    /\ looped => ~honest

\* The position never goes back, so the entries of a listing are in order and
\* none comes twice; only a server that gives cookies in another order gets
\* one more in, as the last, and only one that contradicts itself about the
\* type makes nfsls begin anew behind what is listed.
ListedInOrder ==
    kind # "any" =>
        \A j, k \in DOMAIN listed :
            j < k => listed[j][1] < listed[k][1] \/ (k = Len(listed) /\ looped)

\* "The cookieverf changed!" is said once for each answer with another verifier
\* than the answer before, and once too often: for the first answer, if it has
\* one at all.
ChangeIsReported ==
    warned = changed + (IF \E v \in firstVerf : v # 0 THEN 1 ELSE 0)

\* The comment on the test wants the first request left out: "our cookieverf is
\* empty, this happens on the first request".  The code does not do that.
NoFalseAlarm == warned = changed

\* "This shouldn't loop": neither function is called a second time, the stack
\* is not used up.
NoRecursion == depth <= 2 /\ pc # "crashed"

\* That is so as long as the answers agree about the type of the filehandle.
DepthIsBounded == kind # "any" => NoRecursion

\* "Our position in the directory listing should always increase": behind an
\* answer with entries a further call asks for what comes after them.
PositionIncreases == pc = "readdirplus" => \A r \in requested : r < cookie

\* It does so with -a, for every server.
PositionIncreasesWithDots == listdot => PositionIncreases

\* Whatever the answers, an empty one with more to come and one of another type
\* included: the calls nest further only if the types disagree, a change of the
\* directory is reported exactly once, and with -a the position increases.
ListingInv ==
    TypeOK /\ DepthIsBounded /\ ChangeIsReported /\ PositionIncreasesWithDots

\* An answer with neither an entry nor the end of the directory: the next call
\* is the same again.
BringsNothing == Page /\ page' = <<>> /\ ~eof'

\* With -a a listing ends, even if the server's cookies loop or its answers
\* disagree (then it may end in a crash), unless the server goes on for ever
\* to send answers that bring nothing.
DotListingEnds ==
    (listdot ~> pc \in {"done", "crashed"}) \/ []<><<BringsNothing>>_vars
=============================================================================
