------------------------------ MODULE NfsLock -------------------------------
(***************************************************************************)
(* src/src/lock.c: test for a lock on each filehandle (NLM_TEST).          *)
(***************************************************************************)
EXTENDS FhTool

CONSTANT Stat   \* what the lock manager may answer; 0 is "granted"

ASSUME NfsLockAssumption == Stat \subseteq 0..9

VARIABLES
    status,    \* what main() will return
    nodename,  \* the target whose name goes into the next request, 0 = none
    sentAs     \* history: targets a request went to under another one's name

lockVars == <<status, nodename, sentAs>>

NoAnswer == 10

LockOption == Flag({"l"}) \cup WithNumber({"c"}) \cup WithHertz

\* One turn of the getopt() loop.  The count is 1 from the start, so -l is
\* refused whatever comes with it.
LockParseOption(c, o) ==
    CASE o.letter = "c" -> IF c.loop \/ o.arg = 0 THEN Fatal(c)
                           ELSE [c EXCEPT !.count = o.arg]
      [] o.letter = "H" -> [c EXCEPT !.hertz = o.arg]
      [] o.letter = "l" -> IF c.count # 0 THEN Fatal(c) ELSE [c EXCEPT !.loop = TRUE]

LockGetopt ==
    \/ GetOption("nfslock", {LockParseOption(cfg, o) : o \in LockOption})
    \/ EndOfOptions("nfslock", cfg)

\* A connection that was just made names the node for all requests that
\* follow, to whichever target.  (getnameinfo() falls back on the address.)
LockConnect ==
    /\ Connect("nfslock")
    /\ nodename' = at[1]
    /\ UNCHANGED <<status, sentAs>>

\* No connection: its filehandles are passed over, until the next round.
LockNoClient ==
    /\ Connecting("nfslock")
    /\ at' = <<at[1] + 1, 1>>
    /\ UNCHANGED <<targets, sent, pc, exit>>
    /\ UNCHANGED lockVars

\* do_nlm_test(): its result replaces the one before.
LockCall ==
    /\ Calling("nfslock")
    /\ status' \in Stat \cup {NoAnswer}
    /\ sentAs' = IF nodename = at[1] THEN sentAs ELSE sentAs \cup {at[1]}
    /\ targets' = [targets EXCEPT ![at[1]].filehandles[at[2]] =
                      [fh EXCEPT !.sent = @ + 1,
                          !.received = IF status' = NoAnswer THEN @ ELSE @ + 1]]
    /\ NextFilehandle
    /\ UNCHANGED <<sent, ok, again, pc, exit, nodename>>

\* A round is over: sent counts rounds.
LockEndOfRound ==
    /\ tool = "nfslock"
    /\ pc = "walk"
    /\ at[1] > Len(targets)
    /\ sent' = sent + 1
    /\ IF sent' < cfg.count
       THEN at' = <<1, 1>> /\ round' = round + 1 /\ UNCHANGED <<pc, exit>>
       ELSE End("returned") /\ UNCHANGED <<at, round>>
    /\ UNCHANGED <<targets, tool, cfg, lines, quitting, ok, again>>
    /\ UNCHANGED lockVars

LockNext ==
    \/ LockGetopt /\ UNCHANGED lockVars
    \/ LockConnect \/ LockNoClient
    \/ LockCall
    \/ LockEndOfRound
=============================================================================
