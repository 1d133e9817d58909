--------------------------- MODULE CuuidExpander ---------------------------
(***************************************************************************)
(* v1's node expander: expand_mt, whose direct-mapped cache of computed    *)
(* nodes is thread-local.  A lookup is the reads and writes of one entry,  *)
(* a step each, for a thread may be anywhere in a call while another       *)
(* makes its own.  What is computed on a miss is a constant operator here; *)
(* CuuidTwister has it.                                                    *)
(***************************************************************************)
EXTENDS Integers

CONSTANTS
    Threads,
    Asked,          \* the seeds the callers derive from their ids
    NoSeed,         \* not a seed: before the first call of a thread
    Slots,          \* 0 .. 7
    SlotOf(_),      \* (seed * 2654435761u) >> 29
    Compute(_),     \* expand_mt_compute
    Nodes,          \* its results
    ZeroNode        \* the result 0

ASSUME ExpanderAssumption ==
    /\ NoSeed \notin Asked
    /\ \A s \in Asked : SlotOf(s) \in Slots /\ Compute(s) \in Nodes
    /\ ZeroNode \in Nodes

VARIABLES
    cache,          \* per thread: its cache
    pc,             \* per thread: where in the call it is
    seed,           \* per thread: the argument of its call
    node,           \* per thread: what its last call returned
    before          \* history, per thread: the argument of the call before

vars == <<cache, pc, seed, node, before>>

\* The entries are zeroed before the thread runs.
ZeroEntry == [node |-> ZeroNode, seed |-> 0, valid |-> FALSE]

Init ==
    /\ cache = [t \in Threads |-> [k \in Slots |-> ZeroEntry]]
    /\ pc = [t \in Threads |-> "returned"]
    /\ seed = [t \in Threads |-> NoSeed]
    /\ node = [t \in Threads |-> ZeroNode]
    /\ before = [t \in Threads |-> NoSeed]

\* Mutant: the cache is static without being thread_local.
OwnerShared(t) == CHOOSE u \in Threads : TRUE

\* thread_local: whose cache a thread uses.
Owner(t) == t

Entry(t) == cache[Owner(t)][SlotOf(seed[t])]

Goto(t, label) == pc' = [pc EXCEPT ![t] = label]

Call(t) ==
    /\ pc[t] = "returned"
    /\ \E s \in Asked : seed' = [seed EXCEPT ![t] = s]
    /\ before' = [before EXCEPT ![t] = seed[t]]
    /\ Goto(t, "probe")
    /\ UNCHANGED <<cache, node>>

\* Mutant: the flag is not tested.
IsHitByValue(t) == Entry(t).seed = seed[t]

IsHit(t) == Entry(t).valid /\ Entry(t).seed = seed[t]

Probe(t) ==
    /\ pc[t] = "probe"
    /\ Goto(t, IF IsHit(t) THEN "found" ELSE "node")
    /\ UNCHANGED <<cache, seed, node, before>>

WriteNode(t) ==
    /\ pc[t] = "node"
    /\ cache' = [cache EXCEPT ![Owner(t)][SlotOf(seed[t])].node = Compute(seed[t])]
    /\ Goto(t, "seed")
    /\ UNCHANGED <<seed, node, before>>

WriteSeed(t) ==
    /\ pc[t] = "seed"
    /\ cache' = [cache EXCEPT ![Owner(t)][SlotOf(seed[t])].seed = seed[t]]
    /\ Goto(t, "valid")
    /\ UNCHANGED <<seed, node, before>>

\* Mutant: the entry never becomes valid.
WriteValidNothing(t) ==
    /\ pc[t] = "valid"
    /\ Goto(t, "found")
    /\ UNCHANGED <<cache, seed, node, before>>

WriteValid(t) ==
    /\ pc[t] = "valid"
    /\ cache' = [cache EXCEPT ![Owner(t)][SlotOf(seed[t])].valid = TRUE]
    /\ Goto(t, "found")
    /\ UNCHANGED <<seed, node, before>>

Return(t) ==
    /\ pc[t] = "found"
    /\ node' = [node EXCEPT ![t] = Entry(t).node]
    /\ Goto(t, "returned")
    /\ UNCHANGED <<cache, seed, before>>

Next ==
    \E t \in Threads :
        \/ Call(t)
        \/ Probe(t)
        \/ WriteNode(t)
        \/ WriteSeed(t)
        \/ WriteValid(t)
        \/ Return(t)

Spec == Init /\ [][Next]_vars

-----------------------------------------------------------------------------
Called(t) == seed[t] # NoSeed

\* "The function is pure, so a hit is always exact" (cuuid_v1.cc:102): what a call
\* returns is what it would have computed, whatever was asked before it, whichever
\* seed had the slot, and whatever other threads are doing to theirs.
HitIsExact ==
    \A t \in Threads :
        pc[t] = "returned" /\ Called(t) => node[t] = Compute(seed[t])

\* What the cache is for (cuuid_v1.cc:100-102): a call that repeats the seed of the
\* thread's last call does not compute.
RepeatIsFree == \A t \in Threads : pc[t] = "node" => seed[t] # before[t]

(***************************************************************************)
(* Why they hold: a valid entry is exact, but for the one a thread is      *)
(* writing, and the seed of the last call stays in its slot.               *)
(***************************************************************************)
Labels == {"returned", "probe", "node", "seed", "valid", "found"}

Entries == [node : Nodes, seed : Asked \cup {0}, valid : BOOLEAN]

TypeOK ==
    /\ cache \in [Threads -> [Slots -> Entries]]
    /\ pc \in [Threads -> Labels]
    /\ seed \in [Threads -> Asked \cup {NoSeed}]
    /\ node \in [Threads -> Nodes]
    /\ before \in [Threads -> Asked \cup {NoSeed}]

\* An entry that says it is valid holds its seed's node and is in its seed's slot.
Exact(t, k) ==
    cache[t][k].valid => /\ cache[t][k].node = Compute(cache[t][k].seed)
                         /\ SlotOf(cache[t][k].seed) = k

EntriesExact ==
    \A t \in Threads, k \in Slots :
        ~(pc[t] \in {"seed", "valid"} /\ k = SlotOf(seed[t])) => Exact(t, k)

\* What a thread has written of the entry it is in.
Written(t) ==
    /\ pc[t] # "returned" => Called(t)
    /\ pc[t] \in {"seed", "valid", "found"} => Entry(t).node = Compute(seed[t])
    /\ pc[t] \in {"valid", "found"} => Entry(t).seed = seed[t]
    /\ pc[t] = "found" => Entry(t).valid
    /\ pc[t] = "returned" /\ Called(t) =>
            Entry(t).valid /\ Entry(t).seed = seed[t] /\ node[t] = Compute(seed[t])
    /\ pc[t] = "probe" /\ before[t] = seed[t] => IsHit(t)
    /\ pc[t] = "node" => before[t] # seed[t]

CacheInv ==
    /\ TypeOK
    /\ EntriesExact
    /\ \A t \in Threads : Written(t)
=============================================================================
