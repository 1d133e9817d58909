----------------------------- MODULE CuuidNodes -----------------------------
(***************************************************************************)
(* v1's node expander as a whole: the cache of CuuidExpander over the      *)
(* computation of CuuidTwister.                                            *)
(***************************************************************************)
EXTENDS CuuidExpander, CuuidTwister

\* A seed is a word, and a miss computes its node (cuuid_v1.cc:108).
ASSUME NodesAssumption ==
    \A s \in Asked : s \in Words /\ Compute(s) = expand_mt_compute(s)

\* The test's claim (test/test_mt.cc) about the composition: what any call returns,
\* from the cache or not, is what std::mt19937 of its seed gives first; the words
\* of the state that are not computed, and the rest of the twist, do not show.
ReturnsDraw ==
    \A t \in Threads :
        pc[t] = "returned" /\ Called(t) => node[t] = FirstOutputs(seed[t])
=============================================================================
