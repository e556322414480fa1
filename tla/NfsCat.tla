------------------------------- MODULE NfsCat -------------------------------
(***************************************************************************)
(* src/src/cat.c: read files and write them to stdout, or with -c only     *)
(* time a number of reads.  A file is a number of blocks.                  *)
(***************************************************************************)
EXTENDS FhTool

CONSTANTS
    Size,       \* blocks of every file
    Blocksize   \* the arguments of -b, in blocks

ASSUME NfsCatAssumption == Size \in Nat /\ Blocksize \subseteq Nat

VARIABLES
    offset,    \* where the next read starts
    output,    \* stdout: <<target, filehandle, block>>
    failed     \* history: the files a read of which failed, or that the server
               \* said to end where they do not

catVars == <<offset, output, failed>>

CatOption == [letter : {"b"}, arg : Blocksize] \cup WithNumber({"c"}) \cup WithHertz

\* One turn of the getopt() loop; -E and -G only choose another output.
CatParseOption(c, o) ==
    CASE o.letter = "b" -> [c EXCEPT !.blocksize = o.arg]
      [] o.letter = "c" -> IF o.arg = 0 THEN Fatal(c) ELSE [c EXCEPT !.count = o.arg]
      [] o.letter = "H" -> [c EXCEPT !.hertz = o.arg]

CatGetopt ==
    \/ GetOption("nfscat", {CatParseOption(cfg, o) : o \in CatOption})
    \/ EndOfOptions("nfscat", cfg)

\* Mutant: a new target goes on where the one before ended.
CatConnectOnly ==
    /\ Connecting("nfscat")
    /\ targets' = [targets EXCEPT ![at[1]].client = TRUE]
    /\ sent' = 0
    /\ UNCHANGED <<at, pc, exit>>
    /\ UNCHANGED catVars

\* Only a new target starts at the beginning, and counts from 0.
CatConnect ==
    /\ Connecting("nfscat")
    /\ targets' = [targets EXCEPT ![at[1]].client = TRUE]
    /\ offset' = 0
    /\ sent' = 0
    /\ UNCHANGED <<at, pc, exit>>
    /\ UNCHANGED <<output, failed>>

\* sent is only looked at with a count.
CatCounts ==
    /\ sent' = IF cfg.count # 0 THEN sent + 1 ELSE sent
    /\ UNCHANGED targets

CountReached == cfg.count # 0 /\ sent' >= cfg.count

Blocks(end) == [k \in 1..(end - offset) |-> <<at[1], at[2], offset + k>>]

\* READ gave up to a block, or nothing at all, and the server says whether
\* this was the end.  If it was not the next read starts behind what came; if
\* nothing did, it is the same one again.
CatAnswered ==
    /\ Calling("nfscat")
    /\ CatCounts
    /\ \E end \in offset..Size, eof \in BOOLEAN :
         /\ end <= offset + cfg.blocksize
         /\ offset' = end
         /\ output' = IF cfg.count # 0 THEN output ELSE output \o Blocks(end)
         /\ failed' = IF eof /\ end < Size THEN failed \cup {at} ELSE failed
         /\ IF eof \/ CountReached
            THEN NextFilehandle /\ UNCHANGED again
            ELSE again' = (again # (end = offset)) /\ UNCHANGED at
    /\ UNCHANGED <<ok, pc, exit>>

\* Mutant: a read that failed is sent again.
CatReadsAgain ==
    /\ Calling("nfscat")
    /\ CatCounts
    /\ failed' = failed \cup {at}
    /\ IF CountReached THEN NextFilehandle ELSE UNCHANGED at
    /\ UNCHANGED <<ok, again, pc, exit, offset, output>>

\* An error, or no answer: on to the next file.
CatFailed ==
    /\ Calling("nfscat")
    /\ CatCounts
    /\ failed' = failed \cup {at}
    /\ NextFilehandle
    /\ UNCHANGED <<ok, again, pc, exit, offset, output>>

\* Whatever happened.
CatEnd ==
    /\ tool = "nfscat"
    /\ pc = "walk"
    /\ at[1] > Len(targets)
    /\ End("success")
    /\ UNCHANGED <<targets, tool, cfg, lines, at, quitting, sent, ok, round, again>>
    /\ UNCHANGED catVars

CatNext ==
    \/ (CatGetopt \/ NoClientCrash("nfscat")) /\ UNCHANGED catVars
    \/ CatConnect
    \/ CatAnswered \/ CatFailed
    \/ CatEnd
=============================================================================
