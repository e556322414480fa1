------------------------------- MODULE Sizes --------------------------------
(***************************************************************************)
(* How sizes are printed: prefix_print() of src/src/human.c and the rows   *)
(* of print_df() and print_inodes() of src/src/df.c.  A prefix is its      *)
(* place in the list of prefixes, 0 for bytes; a printed size is its       *)
(* number, the letter behind it and whether a '>' stands before it.        *)
(***************************************************************************)
EXTENDS Integers

CONSTANTS
    Largest,   \* the last prefix, EXA
    Unit,      \* Unit[p] bytes are one of prefix p: 1, 1024, 1024 * 1024...
    Kilo,      \* 1024
    MaxSize    \* the largest size3

ASSUME SizesAssumption ==
    /\ Largest \in Nat
    /\ Kilo \in Nat /\ Kilo >= 2
    /\ Unit \in [0..Largest -> Nat \ {0}]
    /\ Unit[0] = 1
    /\ \A p \in 1..Largest : Unit[p] = Kilo * Unit[p - 1]
    /\ MaxSize \in Nat
    /\ MaxSize < 16 * Unit[Largest]   \* "so the largest value is 15 exabytes"

HUMAN == -1

Prefix == 0..Largest \cup {HUMAN}

Size == 0..MaxSize

\* The largest prefix that leaves at least two digits; bytes if there is none.
BestPrefix(input) ==
    LET fits == {p \in 0..Largest : input \div Unit[p] >= 10}
    IN IF fits = {} THEN 0
       ELSE CHOOSE p \in fits : \A q \in fits : q <= p

ShiftedPrefix(input, prefix) ==
    IF prefix = HUMAN THEN BestPrefix(input) ELSE prefix

\* Mutant: sizes are rounded up.
PrintRoundedUp(input, prefix) ==
    LET p == ShiftedPrefix(input, prefix)
        shifted == (input + Unit[p] - 1) \div Unit[p]
    IN [shifted |-> shifted, greater |-> FALSE,
        label |-> IF prefix = HUMAN /\ input > 0 THEN p ELSE 0]

prefix_print(input, prefix) ==
    LET p == ShiftedPrefix(input, prefix)
        shifted == input \div Unit[p]
    IN [shifted |-> shifted,
        greater |-> prefix # HUMAN /\ input > 0 /\ shifted = 0,
        label   |-> IF prefix = HUMAN /\ input > 0 THEN p ELSE 0]

\* The unsigned difference.
Minus(a, b) == (a - b) % (MaxSize + 1)

\* The share in use in percent; there is none (nan) of an empty total.
Percent(free, total) == {((total - free) * 100) \div n : n \in {total} \ {0}}

print_df(fsstat, prefix) ==
    [total    |-> prefix_print(fsstat.tbytes, prefix),
     used     |-> prefix_print(Minus(fsstat.tbytes, fsstat.fbytes), prefix),
     avail    |-> prefix_print(fsstat.fbytes, prefix),
     capacity |-> Percent(fsstat.fbytes, fsstat.tbytes)]

print_inodes(fsstat) ==
    [inodes   |-> fsstat.tfiles,
     iused    |-> Minus(fsstat.tfiles, fsstat.ffiles),
     ifree    |-> fsstat.ffiles,
     capacity |-> Percent(fsstat.ffiles, fsstat.tfiles)]

\* What a printed size stands for, in bytes.
Shown(printed, prefix) ==
    printed.shifted * Unit[IF prefix = HUMAN THEN printed.label ELSE prefix]
=============================================================================
