------------------------------- MODULE MCHost -------------------------------
(* CuuidHost with 4-tick windows: a platform that gives three ticks, two of  *)
(* them around the end of a window, each of these with two clock sequences.  *)
EXTENDS CuuidHost, Bitwise, TLC

CONSTANTS p1, p2

MCXor(a, b) == a ^^ b
MCSeed(t, k, s) == (t + 3 * k + 5 * s) % 7
MCExpand(c, s) == (IF c = "v1" THEN s ELSE 2 * s + 1) % 3
MCLocalSalt(n) == (n.body + n.salt) % 2
MCBodies == 0 .. 2
MCSeeds == 0 .. 6

MCProcesses == {p1, p2}
Symmetry == Permutations(Processes)

MCNode == [mc |-> FALSE, body |-> 1, salt |-> 1]

MCRequests ==
    {[codec |-> "v6", compact |-> TRUE]} \cup [codec : {"v1"}, compact : BOOLEAN]

\* UUID_TIME_INITIAL is 10: rebased, 17 is tick 7, the last of window 1, and 18
\* is the first of window 2; 31 is the last tick of the field.
MCMints == [time : {17, 18}, clock : {1, 2}] \cup [time : {31}, clock : {1}]
=============================================================================
