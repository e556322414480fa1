---------------------------- MODULE TargetList -----------------------------
(***************************************************************************)
(* The list of targets of src/src/util.c that every tool builds before its *)
(* main loop: by name, from the command line (make_target), or by address, *)
(* from the JSON lines another tool printed (parse_fh).                    *)
(*                                                                         *)
(* A target is found again by its address only.  The names are kept as far *)
(* as tools print them; times, histograms and the JSON text are left out.  *)
(***************************************************************************)
EXTENDS Naturals, SequencesExt

CONSTANTS
    Addr,     \* IPv4 addresses
    HasName,  \* the addresses a reverse lookup finds a name for
    NULL

ASSUME TargetListAssumption ==
    /\ HasName \subseteq Addr
    /\ NULL \notin Addr

VARIABLE targets   \* the list behind the dummy head

\* struct mount_exports, and targets_t with one of the two lists of its union;
\* the other one stays empty.
ExportOf(Path) ==
    [path : Path, results : Nat, json : BOOLEAN, sent : Nat, received : Nat]

TargetOf(Name, Export, Filehandle) ==
    [ip : Addr, name : Name, display : Name, results : Nat,
     exports : Seq(Export), filehandles : Seq(Filehandle),
     client : BOOLEAN, freed : BOOLEAN]

\* A path: its components, and whether a slash ends it.  "/" is Root.
PathOf(Name) == [names : Seq(Name), slash : BOOLEAN]

\* struct nfs_fh_list.
FilehandleOf(Name) ==
    [path : PathOf(Name), given : PathOf(Name), kind : {"dir", "file"},
     results : Nat, sent : Nat, received : Nat,
     avg : {"zero", "real", "inf", "nan"}, name : Name \cup {NULL, "/"}]

Root == [names |-> <<>>, slash |-> TRUE]

\* POSIX dirname(3) and basename(3).
dirname(p) ==
    IF Len(p.names) <= 1 THEN Root
    ELSE [names |-> Front(p.names), slash |-> FALSE]

basename(p) == IF p.names = <<>> THEN "/" ELSE Last(p.names)

\* An empty target.  results is the size of the array of response times; with
\* none (0) there are histograms instead.
init_target(a, count) ==
    [ip |-> a, name |-> NULL, display |-> NULL, results |-> count,
     exports |-> <<>>, filehandles |-> <<>>, client |-> FALSE, freed |-> FALSE]

\* An export; json tells whether it has the object that print_output() prints.
init_export(path, count) ==
    [path |-> path, results |-> count, json |-> count = 0,
     sent |-> 0, received |-> 0]

\* The first target with this address, 0 if there is none.
find_target_by_ip(list, a) ==
    IF \E i \in DOMAIN list : list[i].ip = a
    THEN CHOOSE i \in DOMAIN list :
            /\ list[i].ip = a
            /\ \A k \in 1..(i - 1) : list[k].ip # a
    ELSE 0

\* Mutant: the address is not looked for.
MakeTargetAlways(list, a, count) == Append(list, init_target(a, count))

find_or_make_target(list, a, count) ==
    IF find_target_by_ip(list, a) # 0 THEN list
    ELSE Append(list, init_target(a, count))

\* The search and append_target() read every target up to the one found.
ReadsFreed(list, a) ==
    LET found == find_target_by_ip(list, a) IN
    \E i \in DOMAIN list : list[i].freed /\ (found = 0 \/ i <= found)

-----------------------------------------------------------------------------
(* By name: arg.ip tells whether the argument is itself an address,        *)
(* arg.addrs are the addresses it stands for, in the order of the resolver.*)

\* What make_target() writes into the target of one address.  The name found
\* for an address that was given is written over the argument, not into the
\* target.
Named(t, arg, a, dns, display_ips) ==
    IF arg.ip
    THEN IF dns THEN t ELSE [t EXCEPT !.name = a, !.display = a]
    ELSE LET name == IF ~dns THEN arg.name
                     ELSE IF a \in HasName THEN <<"name of", a>> ELSE a
         IN [t EXCEPT !.name = name,
                      !.display = IF display_ips THEN a ELSE name]

\* One turn of make_target(), for one address of the argument.  The export of
\* the command line replaces what the target had.
WithAddress(list, arg, a, opt, path, count) ==
    LET made == find_or_make_target(list, a, count)
        i == find_target_by_ip(made, a)
        exported == IF path = NULL THEN made
                    ELSE [made EXCEPT ![i].exports = <<init_export(path, count)>>]
    IN [exported EXCEPT ![i] = Named(@, arg, a, opt.dns, opt.ip)]

\* fatalx(2): a name that does not resolve, an address without a name.
LookupFails(arg, opt) ==
    \/ arg.addrs = <<>>
    \/ arg.ip /\ opt.dns /\ arg.addrs[1] \notin HasName

-----------------------------------------------------------------------------
(* By address, from a line of JSON: line.ip is NULL when it is missing or  *)
(* no address, line.host and line.path are NULL when missing, and line.fh  *)
(* tells whether the filehandle is there, of even length and not too long. *)
(* line.kind is what the filehandle stands for on the server.              *)

\* A filehandle.  given is a history: the path as it was read.
nfs_fh_list_new(path, kind, count) ==
    [path |-> path, given |-> path, kind |-> kind, results |-> count,
     sent |-> 0, received |-> 0, avg |-> "zero", name |-> NULL]

\* Mutant: a filehandle replaces the one before, as an export does.
ReplaceFilehandles(list, f) == <<f>>

AddFilehandle(list, f) == Append(list, f)

\* The list after parse_fh(); line.ip is an address.  A line that turns out
\* to be incomplete frees the target, which stays in the list.
Parsed(list, line, count) ==
    LET made == find_or_make_target(list, line.ip, count)
        i == find_target_by_ip(made, line.ip)
        named == IF line.host = NULL THEN made[i]
                 ELSE [made[i] EXCEPT !.name = line.host, !.display = line.host]
        filled == IF line.host = NULL \/ line.path = NULL THEN named
                  ELSE [named EXCEPT !.filehandles =
                      AddFilehandle(@, nfs_fh_list_new(line.path, line.kind, count))]
        complete == line.host # NULL /\ line.path # NULL /\ line.fh
    IN [made EXCEPT ![i] = [filled EXCEPT !.freed = ~complete]]

parse_fh(list, line, count) ==
    IF line.ip = NULL THEN list ELSE Parsed(list, line, count)

-----------------------------------------------------------------------------
\* The list never holds two targets with one address, however often and by
\* whatever name the address is given: there is one connection per server.
OneTargetPerAddress ==
    \A i, k \in DOMAIN targets : targets[i].ip = targets[k].ip => i = k

\* Tuples of numbers that say how far a tool is, the first one first.
Further(u, v) ==
    \E k \in DOMAIN v : u[k] > v[k] /\ \A j \in 1..(k - 1) : u[j] = v[j]
=============================================================================
