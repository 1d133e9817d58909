----------------------------- MODULE MCObject ------------------------------
(* CuuidObject with two-bit digits: 30-bit times, 7-bit clocks of which one  *)
(* bit shares a digit with a one-bit variant, and 24-bit nodes.              *)
EXTENDS CuuidObject, Bitwise

MCXor(a, b) == a ^^ b
MCSeed(t, k, s) == (t + 3 * k + 5 * s) % 7
MCExpand(c, s) == (IF c = "v1" THEN s ELSE 2 * s + 1) * 8
MCLocalSalt(n) == ((n.body % 7) + 3 * n.salt) % 8
MCSeeds == 0 .. 6

\* The initial tick, a time in a window far from it, one before it and too wide.
MCTimes == {UUID_TIME_INITIAL, UUID_TIME_INITIAL + 7654321 * 128 + 37, TIME_SIZE + 123457}
MCClocks == {91, CLOCK_SIZE + 38}

\* A multicast node, and a real one that is too wide.
MCNodes == {11184813 + MULTICAST_BIT, 4543825 + NODE_SIZE}
MCVariants == {0, BASE - 1}
MCVersions == {V1, V6, BASE + 3}
MCBytes == { [i \in 1 .. 32 |-> (i + i \div 4) % 4] \o <<>> }
MCChars == {DASH, OTHER_CHAR, 1, Upper(2)}
=============================================================================
