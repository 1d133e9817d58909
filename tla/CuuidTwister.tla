---------------------------- MODULE CuuidTwister ----------------------------
(***************************************************************************)
(* v1's expand_mt_compute: the first two outputs of a Mersenne Twister     *)
(* from the few state words they depend on, and the engine they have to be *)
(* the outputs of, std::mt19937 as the standard defines it.  The widths    *)
(* and parameters of the engine are constants, so that TLC can run over    *)
(* every seed of a small word, and so are the bitwise operators.  A module *)
(* without variables.                                                      *)
(***************************************************************************)
EXTENDS Integers

CONSTANTS
    WORD_BITS,              \* 32
    STATE_SIZE,             \* words of the state, 624
    SHIFT_SIZE,             \* how far ahead the twist looks, 397
    F, INIT_SHIFT,          \* of the init recurrence, 1812433253 and 30
    TWIST,                  \* 0x9908b0df
    U, S, B, T, C, L,       \* of the tempering
    BitXor(_, _), BitAnd(_, _)    \* bit by bit

Bits[k \in 0 .. WORD_BITS] == IF k = 0 THEN 1 ELSE Bits[k - 1] * 2

WORD == Bits[WORD_BITS]

Words == 0 .. WORD - 1

ASSUME TwisterAssumption ==
    /\ WORD_BITS \in Nat \ {0}
    /\ {INIT_SHIFT, U, S, T, L} \subseteq 0 .. WORD_BITS
    /\ {F, TWIST, B, C} \subseteq Words
    /\ {STATE_SIZE, SHIFT_SIZE} \subseteq Nat
    /\ 2 <= SHIFT_SIZE /\ SHIFT_SIZE + 1 < STATE_SIZE
    /\ \A v, w \in Words : BitXor(v, w) \in Words /\ BitAnd(v, w) \in Words

InitStep(x, i) == (F * BitXor(x, x \div Bits[INIT_SHIFT]) + i) % WORD

\* The upper bit of one word over the lower bits of the next, twisted.
Mix(cur, next, far) ==
    LET y == (cur - (cur % (WORD \div 2))) + (next % (WORD \div 2))
    IN  BitXor(BitXor(far, y \div 2), IF y % 2 = 1 THEN TWIST ELSE 0)

Temper(v) ==
    LET v1 == BitXor(v, v \div Bits[U])
        v2 == BitXor(v1, BitAnd((v1 * Bits[S]) % WORD, B))
        v3 == BitXor(v2, BitAnd((v2 * Bits[T]) % WORD, C))
    IN  BitXor(v3, v3 \div Bits[L])

gen(cur, next, far) == Temper(Mix(cur, next, far))

-----------------------------------------------------------------------------
\* Mutant: the loop ends one word early.
LastWordEarly == SHIFT_SIZE - 1

\* The loop runs to word 397, which is in x at its end.
LastWord == SHIFT_SIZE

\* A turn of the loop, with the words it remembers.
Turn(s, i) ==
    LET x == InitStep(s.x, i)
    IN  [x |-> x, m1 |-> IF i = 1 THEN x ELSE s.m1, m2 |-> IF i = 2 THEN x ELSE s.m2]

InitLoop(seed) ==
    LET after[i \in 0 .. LastWord] ==
            IF i = 0 THEN [x |-> seed, m1 |-> 0, m2 |-> 0] ELSE Turn(after[i - 1], i)
    IN  after[LastWord]

expand_mt_compute(seed) ==
    LET s == InitLoop(seed)
    IN  << gen(seed, s.m1, s.x), gen(s.m1, s.m2, InitStep(s.x, SHIFT_SIZE + 1)) >>

-----------------------------------------------------------------------------
(***************************************************************************)
(* The engine: all words of the state, then all of them twisted in place,  *)
(* each from itself, the next and a far one, around the end.               *)
(***************************************************************************)
Seeded(seed) ==
    LET mt[i \in 0 .. STATE_SIZE - 1] == IF i = 0 THEN seed ELSE InitStep(mt[i - 1], i)
    IN  mt

TwistWord(mt, k) ==
    [mt EXCEPT ![k] = Mix(mt[k], mt[(k + 1) % STATE_SIZE], mt[(k + SHIFT_SIZE) % STATE_SIZE])]

Twisted(mt) ==
    LET after[n \in 0 .. STATE_SIZE] == IF n = 0 THEN mt ELSE TwistWord(after[n - 1], n - 1)
    IN  after[STATE_SIZE]

FirstOutputs(seed) ==
    LET mt == Twisted(Seeded(seed)) IN << Temper(mt[0]), Temper(mt[1]) >>
=============================================================================
