----------------------------- MODULE MCExpander -----------------------------
(* CuuidNodes with 8-bit words and a state of 7 of them: two threads, two    *)
(* slots, and four seeds, two to a slot, one of them the seed of a zeroed    *)
(* entry.                                                                    *)
EXTENDS CuuidNodes, Bitwise

MCThreads == 1 .. 2
MCAsked == {0, 77, 200, 251}
MCSlots == 0 .. 1
MCNodes == Words \X Words
MCZero == <<0, 0>>

MCXor(v, w) == v ^^ w
MCAnd(v, w) == v & w

\* The multiplicative hash: the top of the product's low word.
MCSlotOf(s) == ((s * 161) % WORD) \div (WORD \div 2)
=============================================================================
