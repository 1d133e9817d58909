------------------------------ MODULE MCCodec ------------------------------
(* CuuidCodec with 4-tick windows, 8 windows, 1-bit salts, and hashes small *)
(* enough for two contents to share a seed and two seeds a node.            *)
EXTENDS CuuidCodec, Bitwise

MCXor(a, b) == a ^^ b
MCSeed(t, k, s) == (t + 3 * k + 5 * s) % 7
MCExpand(c, s) == (IF c = "v1" THEN s ELSE 2 * s + 1) % 3
MCLocalSalt(n) == (n.body + n.salt) % 2
MCBodies == 0 .. 2
MCSeeds == 0 .. 6
=============================================================================
