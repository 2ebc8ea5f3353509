-------------------------------- MODULE MCComm --------------------------------
(***************************************************************************)
(* Instances of CommDisplay for TLC: which messages a controller sends,    *)
(* what the lamp shows and how the dial is set.                            *)
(***************************************************************************)
EXTENDS CommDisplay

Post(p, c, n, a) ==
    [protocol |-> p, colour |-> c, total |-> n, auto |-> a, blink |-> FALSE,
     cmd |-> "none", refresh |-> TRUE]

With(m, cmd) == [m EXCEPT !.cmd = cmd]

\* The two national protocols share a setting of the dial: totals by the one,
\* blinking numbers every second and the dark colour by the other.
NationalPosts ==
    {Post("GAT2004", "R", 3, TRUE),
     [Post("GAT2014", "G", 2, FALSE) EXCEPT !.blink = TRUE],
     Post("GAT2014", "dark", 0, FALSE)}

\* A total for red, one for green, and the commands of GeLinWei.
WithCommands ==
    {Post("GeLinWei", "R", 2, TRUE), With(Post("GeLinWei", "G", 2, TRUE), "off")}

\* For liveness: a total for red, and one for green with the letter H, which
\* a sign for red only shows while the lamp is not red.
FewPosts ==
    {Post("GeLinWei", "R", 2, TRUE), With(Post("GeLinWei", "G", 1, TRUE), "H")}

\* A total for red alone.
RedTotal == {Post("GeLinWei", "R", 2, TRUE)}

\* Two totals for red, one after the other.
TwoTotals == {Post("GeLinWei", "R", 1, TRUE), Post("GeLinWei", "R", 2, TRUE)}

MotorSign  == {[motor |-> TRUE, rled |-> TRUE]}
RedOnly    == {[motor |-> TRUE, rled |-> FALSE]}
EverySign  == MotorSign \cup RedOnly \cup {[motor |-> FALSE, rled |-> TRUE]}

RedGreen     == {{"R"}, {"G"}}
OnlyRedLamp  == {{"R"}}
RedGreenDark == RedGreen \cup {{}}
=============================================================================
