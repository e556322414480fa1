---------------------------- MODULE MCNfsDfLoop -----------------------------
\* Bounds for TLC: two milliseconds in a second and so on, and units of 2.
EXTENDS NfsDfLoop

MCUnit == [p \in 0..Largest |-> Kilo ^ p]

\* The last nanosecond of a second, and one in its middle.
MCEpoch == [sec : {0}, nsec : {3, 7}]

\* Sizes on both sides of where the unit changes.
MCSize == {0, 1, 9, 10, 20, 39, 63}

MCAnswer ==
    {[tbytes |-> s[1], fbytes |-> s[2], tfiles |-> s[1], ffiles |-> s[2]] :
        s \in {<<t, f>> \in MCSize \X MCSize : f <= t}}
=============================================================================
