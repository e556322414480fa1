------------------------------- MODULE NfsDf --------------------------------
(***************************************************************************)
(* src/src/df.c: ask for the size of each filesystem.  The text of a line  *)
(* is left out; its numbers are in module Sizes.                           *)
(***************************************************************************)
EXTENDS FhTool

CONSTANT Rows   \* what ws_row may be: 0, or anything if stdout is no terminal

ASSUME NfsDfAssumption == Rows \subseteq Nat /\ Rows # {}

DfOption == Flag({"b", "G", "h", "i", "l", "n"}) \cup WithNumber({"c"})

\* One turn of the getopt() loop.  -i only chooses other columns.
DfParseOption(c, o) ==
    LET l == o.letter
        format == IF c.format = "unset" THEN "ping" ELSE c.format
    IN CASE l = "i" -> c
         [] l = "b" -> ParseUnit(c, "BYTE")
         [] l = "h" -> ParseUnit(c, "HUMAN")
         [] l = "c" -> IF c.loop \/ o.arg = 0 THEN Fatal(c)
                       ELSE [c EXCEPT !.count = o.arg, !.format = format]
         [] l = "G" -> IF c.prefix # "NONE" THEN Fatal(c)
                       ELSE [c EXCEPT !.format = "graphite"]
         [] l = "l" -> IF c.count # 0 THEN Fatal(c)
                       ELSE [c EXCEPT !.loop = TRUE, !.format = format]
         [] l = "n" -> [c EXCEPT !.header = TRUE]

DfDefaults(c) ==
    [c EXCEPT !.format = IF @ = "unset" THEN "ping" ELSE @,
              !.prefix = IF @ = "NONE" THEN "HUMAN" ELSE @]

DfGetopt ==
    \/ GetOption("nfsdf", {DfParseOption(cfg, o) : o \in DfOption})
    \/ EndOfOptions("nfsdf", DfDefaults(cfg))

DfCounts ==
    /\ sent' = sent + 1
    /\ targets' = [targets EXCEPT ![at[1]].filehandles[at[2]].sent = @ + 1]

\* FSSTAT gave the numbers.  Unless -n is given the header is repeated once
\* per screen, which divides by the number of rows.
DfAnswered ==
    /\ Calling("nfsdf")
    /\ DfCounts
    /\ ok' = ok + 1
    /\ UNCHANGED again
    /\ \E rows \in Rows :
         IF ~cfg.header /\ rows = 0
         THEN End("crashed") /\ UNCHANGED at
         ELSE NextFilehandle /\ UNCHANGED <<pc, exit>>

\* The server answered with an error.
DfRefused ==
    /\ Calling("nfsdf")
    /\ DfCounts
    /\ NextFilehandle
    /\ UNCHANGED <<ok, again, pc, exit>>

\* No answer: xdr_free() is called for a result that is not there.
DfLost ==
    /\ Calling("nfsdf")
    /\ DfCounts
    /\ End("crashed")
    /\ UNCHANGED <<at, ok, again>>

DfNext ==
    \/ DfGetopt
    \/ Connect("nfsdf") \/ NoClientCrash("nfsdf")
    \/ DfAnswered \/ DfRefused \/ DfLost
    \/ EndOfRound("nfsdf")
=============================================================================
