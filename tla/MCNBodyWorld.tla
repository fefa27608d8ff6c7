---------------------------- MODULE MCNBodyWorld ----------------------------
(* Command lines for the runs of NBodyWorld: two of the usual kind, an      *)
(* unreadable argument and one without its number, a time limit out of     *)
(* reach, negative numbers, a time that runs backwards, -help.             *)
EXTENDS NBodyWorld

Int1(name, n) == [name |-> name, val |-> n, fval |-> n]
Unreadable == [name |-> NoMatch, val |-> NoMatch, fval |-> NoMatch]
Word(name) == [name |-> name, val |-> NoMatch, fval |-> NoMatch]

MCArgLists == {
    <<Int1("np", 33), Int1("nd", 3), Int1("dt", 3), Int1("tl", 32)>>,
    <<Word("us"), Int1("nd", 2), Int1("np", 64), Int1("nd", 1)>>,
    <<Unreadable, Int1("dt", 2), Int1("tl", 7), Word("nd")>>,
    <<Int1("tl", 9)>>,
    <<Int1("nd", -1)>>,
    <<Int1("np", -100)>>,
    <<Int1("np", -40), Int1("dt", 0)>>,
    <<Int1("dt", -1)>>,
    <<Word("help")>> }

(* The default time step, and a limit beyond the time that it leads to *)
MCLongRun == {<<Int1("tl", 9)>>}

MCGarbage == {[name |-> "xx", val |-> 0, fval |-> 0], [name |-> "nd", val |-> 2, fval |-> 1]}
MCDefaults == [numBodies |-> 4096, nDoms |-> 1, dt |-> 1, tlim |-> 4]
=============================================================================
