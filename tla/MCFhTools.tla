----------------------------- MODULE MCFhTools ------------------------------
(***************************************************************************)
(* An instance of FhTools for TLC: lines of two servers, complete ones and *)
(* ones that parse_fh() turns down.                                        *)
(***************************************************************************)
EXTENDS FhTools

CONSTANTS a1, a2, host

Line(ip, name, path, slash, kind, complete) ==
    [ip |-> ip, host |-> name, path |-> [names |-> path, slash |-> slash],
     kind |-> kind, fh |-> complete]

MCLines ==
    {Line(a1, host, <<"etc">>, TRUE, "dir", TRUE),
     Line(a1, host, <<"etc", "motd">>, FALSE, "file", TRUE),
     Line(a2, host, <<"home">>, FALSE, "dir", TRUE),
     Line(a2, NULL, <<"home">>, TRUE, "dir", TRUE),
     Line(a1, host, <<"etc">>, TRUE, "dir", FALSE),
     Line(NULL, host, <<"etc">>, TRUE, "dir", TRUE)}
=============================================================================
