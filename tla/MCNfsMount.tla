---------------------------- MODULE MCNfsMount -----------------------------
(***************************************************************************)
(* An instance of NfsMount for TLC: two addresses, one given as such, both *)
(* behind a name, with a path and without.                                 *)
(***************************************************************************)
EXTENDS NfsMount

CONSTANTS a1, a2, filer, home, var

MCArgument ==
    {[ip |-> TRUE, name |-> a1, addrs |-> <<a1>>, path |-> NULL],
     [ip |-> FALSE, name |-> filer, addrs |-> <<a2, a1>>, path |-> home],
     [ip |-> FALSE, name |-> filer, addrs |-> <<>>, path |-> NULL]}

MCExportList == {<<>>, <<home, var>>}
=============================================================================
