------------------------------- MODULE NfsLs --------------------------------
(***************************************************************************)
(* src/src/ls.c without the calls that make up a listing, which are module *)
(* Readdirplus: here a listing gives entries or it does not, unless it does *)
(* not come to an end.  The text of the listings is left out but for the   *)
(* name of a single file, which is cut off the path of its filehandle.     *)
(***************************************************************************)
EXTENDS FhTool

LsOption == Flag({"b", "d", "h", "l", "L"}) \cup WithNumber({"c", "C"})

\* One turn of the getopt() loop.
LsParseOption(c, o) ==
    LET l == o.letter
        format(f) == IF c.format = "unset" THEN f ELSE c.format
    IN CASE l = "b" -> ParseUnit(c, "BYTE")
         [] l = "h" -> ParseUnit(c, "HUMAN")
         [] l \in {"c", "C"} ->
              IF c.loop \/ o.arg = 0 THEN Fatal(c)
              ELSE [c EXCEPT !.count = o.arg,
                             !.format = format(IF l = "c" THEN "ping" ELSE "fping")]
         [] l = "d" -> [c EXCEPT !.listdir = TRUE]
         [] l = "l" -> [c EXCEPT !.format = "longform"]
         [] l = "L" -> IF c.count # 0 THEN Fatal(c)
                       ELSE [c EXCEPT !.loop = TRUE, !.format = format("ping")]

\* The defaults, and how many results parse_fh() makes room for.
LsDefaults(c) ==
    LET f == IF c.format = "unset" THEN "json" ELSE c.format
    IN [c EXCEPT !.format = f,
                 !.prefix = IF @ = "NONE" THEN "HUMAN" ELSE @,
                 !.results = IF f \in {"fping", "longform"} THEN c.count ELSE 0]

LsGetopt ==
    \/ GetOption("nfsls", {LsParseOption(cfg, o) : o \in LsOption})
    \/ EndOfOptions("nfsls", LsDefaults(cfg))

\* do_getattr() on what is not a directory, or with -d: the entry is the
\* object itself, its name is cut off the path, and the path that is left
\* stays with the filehandle.
ListsItself == cfg.listdir \/ fh.kind # "dir"

ListedPath(f, answered) ==
    IF answered /\ ListsItself
    THEN [f EXCEPT !.path = dirname(@), !.name = basename(f.path)]
    ELSE [f EXCEPT !.name = NULL]

\* The mean in floating point: infinite once a listing failed before the
\* first one that did not, and not a number from then on.
NewAverage(avg, received) ==
    CASE avg = "nan" -> "nan"
      [] avg # "nan" /\ received = 0 -> "inf"
      [] avg = "inf" /\ received = 1 -> "nan"
      [] OTHER -> IF avg = "inf" THEN "inf" ELSE "real"

\* A listing.  answered: there are entries; an empty directory has none.
LsCall ==
    /\ Calling("nfsls")
    /\ \E answered \in BOOLEAN :
         LET got == IF answered THEN 1 ELSE 0
             listed == ListedPath(fh, answered)
             counted == [listed EXCEPT !.sent = @ + 1, !.received = @ + got]
         IN /\ targets' = [targets EXCEPT ![at[1]].filehandles[at[2]] =
                  [counted EXCEPT !.avg = NewAverage(@, counted.received)]]
            /\ ok' = ok + got
    /\ sent' = sent + 1
    /\ NextFilehandle
    /\ UNCHANGED <<again, pc, exit>>

\* Part of a listing that brings no entry and is not the end of it: a page
\* without entries, or of hidden ones.  It is asked for again, on and on if
\* the answer stays the same, and quitting is not looked at.
LsAgain ==
    /\ Calling("nfsls")
    /\ ~cfg.listdir
    /\ again' = ~again
    /\ UNCHANGED <<targets, at, sent, ok, pc, exit>>

\* A server that says "directory" to do_getattr() and "not a directory" to
\* do_readdirplus(): they call each other until the stack is used up.
LsRecurses ==
    /\ Calling("nfsls")
    /\ ~cfg.listdir
    /\ End("crashed")
    /\ UNCHANGED <<targets, at, sent, ok, again>>

LsNext ==
    \/ LsGetopt
    \/ Connect("nfsls") \/ NoClientCrash("nfsls")
    \/ LsCall \/ LsAgain \/ LsRecurses
    \/ EndOfRound("nfsls")
=============================================================================
