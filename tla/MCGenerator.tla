---------------------------- MODULE MCGenerator ----------------------------
(* CuuidGenerator with 4-tick windows.  The platform's clock may read the   *)
(* last tick of a window, the first of the next, or step back, with either  *)
(* of two clock sequences.                                                  *)
EXTENDS CuuidGenerator, Bitwise, TLC

CONSTANTS t1, t2, t3

MCXor(a, b) == a ^^ b
MCSeed(t, k, s) == (t + 3 * k + 5 * s) % 7
MCExpand(c, s) == (IF c = "v1" THEN s ELSE 2 * s + 1) % 3
MCLocalSalt(n) == (n.body + n.salt) % 2
MCBodies == 0 .. 2
MCSeeds == 0 .. 6

Threads2 == {t1, t2}
Threads3 == {t1, t2, t3}
Symmetry == Permutations(Threads)

\* A real (globally administered) address, as a host's network card has.
MCNode == [mc |-> FALSE, body |-> 1, salt |-> 1]

Requested(cs) == { [codec |-> c, compact |-> TRUE] : c \in cs }
OnlyV6 == Requested({"v6"})
OnlyV1 == [codec : {"v1"}, compact : BOOLEAN]
Mixed == OnlyV6 \cup OnlyV1
V6AndV1 == Requested({"v6", "v1"})

V1Mints(times, clocks) == [v1 : {TRUE}, time : times, clock : clocks]

\* UUID_TIME_INITIAL is 10: rebased, 17 and 18 are ticks 7 and 8, the last of window
\* 1 and the first of window 2.
OneClock == V1Mints({17, 18}, {1})

\* Tick 31 is the last the field holds: a claim past it wraps in the id.
WideClock == V1Mints({17, 31}, {1, 2})

\* A stepping clock, or a mint of another version, which nothing orders.
AnyMint == WideClock \cup {[v1 |-> FALSE, time |-> 18, clock |-> 0]}
=============================================================================
