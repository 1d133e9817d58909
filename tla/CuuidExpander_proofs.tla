------------------------ MODULE CuuidExpander_proofs ------------------------
(***************************************************************************)
(* The cache of expand_mt is exact, for any threads, seeds, slots, slot    *)
(* function and computation; and the computation gives the first two       *)
(* outputs of the engine, for any width and parameters.                    *)
(***************************************************************************)
EXTENDS CuuidNodes, NumberLemmas, TLAPS

\* A step of one thread leaves the other threads' state, and so what is known of
\* their caches, as it was.
LEMMA OthersUntouched ==
    ASSUME TypeOK, NEW t \in Threads, NEW u \in Threads, u # t,
           Call(t) \/ Probe(t) \/ WriteNode(t) \/ WriteSeed(t) \/ WriteValid(t) \/ Return(t)
    PROVE  /\ cache'[u] = cache[u] /\ pc'[u] = pc[u] /\ seed'[u] = seed[u]
           /\ node'[u] = node[u] /\ before'[u] = before[u]
BY DEF TypeOK, Call, Probe, WriteNode, WriteSeed, WriteValid, Return, Goto, Owner

\* The initial state: no thread has called, no entry is valid.
LEMMA InitCacheInv == Init => CacheInv
BY ExpanderAssumption
   DEF Init, CacheInv, TypeOK, Entries, Labels, ZeroEntry, EntriesExact, Exact,
       Written, Called

\* Types are kept by every step.
LEMMA TypeStep ==
    ASSUME TypeOK, NEW t \in Threads,
           \A u \in Threads : Written(u),
           Call(t) \/ Probe(t) \/ WriteNode(t) \/ WriteSeed(t) \/ WriteValid(t) \/ Return(t)
    PROVE  TypeOK'
<1> USE ExpanderAssumption DEF TypeOK, Labels, Goto, Owner, Written, Called
<1>1. CASE Call(t)
    BY <1>1 DEF Call
<1>2. CASE Probe(t)
    BY <1>2 DEF Probe
<1>3. ASSUME pc[t] # "returned"
      PROVE  /\ seed[t] \in Asked /\ SlotOf(seed[t]) \in Slots
             /\ Compute(seed[t]) \in Nodes /\ Entry(t) \in Entries
             /\ Entry(t) = cache[t][SlotOf(seed[t])]
    BY <1>3 DEF Entry
<1> DEFINE k == SlotOf(seed[t])
<1>8. ASSUME NEW e \in Entries, k \in Slots,
             cache' = [cache EXCEPT ![t] = [cache[t] EXCEPT ![k] = e]]
      PROVE  cache' \in [Threads -> [Slots -> Entries]]
    <2>1. [cache[t] EXCEPT ![k] = e] \in [Slots -> Entries]
        BY <1>8
    <2> QED
        BY <2>1, <1>8
<1>4. CASE WriteNode(t)
    <2>1. [cache[t][k] EXCEPT !.node = Compute(seed[t])] \in Entries
        BY <1>3, <1>4 DEF WriteNode, Entries
    <2> QED
        BY <2>1, <1>8, <1>3, <1>4 DEF WriteNode
<1>5. CASE WriteSeed(t)
    <2>1. [cache[t][k] EXCEPT !.seed = seed[t]] \in Entries
        BY <1>3, <1>5 DEF WriteSeed, Entries
    <2> QED
        BY <2>1, <1>8, <1>3, <1>5 DEF WriteSeed
<1>6. CASE WriteValid(t)
    <2>1. [cache[t][k] EXCEPT !.valid = TRUE] \in Entries
        BY <1>3, <1>6 DEF WriteValid, Entries
    <2> QED
        BY <2>1, <1>8, <1>3, <1>6 DEF WriteValid
<1>7. CASE Return(t)
    BY <1>3, <1>7 DEF Return, Entries
<1> QED
    BY <1>1, <1>2, <1>4, <1>5, <1>6, <1>7

\* A thread's own step keeps its entries exact, but for the one it writes, and
\* what it has written of that one.
LEMMA OwnStep ==
    ASSUME TypeOK, TypeOK', NEW t \in Threads, Written(t),
           \A k \in Slots : ~(pc[t] \in {"seed", "valid"} /\ k = SlotOf(seed[t])) => Exact(t, k),
           Call(t) \/ Probe(t) \/ WriteNode(t) \/ WriteSeed(t) \/ WriteValid(t) \/ Return(t)
    PROVE  /\ Written(t)'
           /\ \A k \in Slots :
                ~(pc'[t] \in {"seed", "valid"} /\ k = SlotOf(seed'[t])) => Exact(t, k)'
<1> USE ExpanderAssumption DEF TypeOK, Goto, Owner, Entry, Called, Written, Exact
<1>1. CASE Call(t)
    <2>1. PICK s \in Asked : seed' = [seed EXCEPT ![t] = s]
        BY <1>1 DEF Call
    <2>2. /\ cache' = cache /\ node' = node /\ pc[t] = "returned" /\ pc'[t] = "probe"
          /\ seed'[t] = s /\ before'[t] = seed[t]
        BY <1>1, <2>1 DEF Call
    <2> QED
        BY <2>2 DEF IsHit
<1>2. CASE Probe(t)
    <2>1. /\ cache' = cache /\ node' = node /\ seed' = seed /\ before' = before
          /\ pc[t] = "probe" /\ pc'[t] = IF IsHit(t) THEN "found" ELSE "node"
        BY <1>2 DEF Probe
    <2>2. seed[t] \in Asked /\ SlotOf(seed[t]) \in Slots
        BY <2>1
    <2> QED
        BY <2>1, <2>2 DEF IsHit
<1>3. ASSUME pc[t] # "returned"
      PROVE  seed[t] \in Asked /\ SlotOf(seed[t]) \in Slots
    BY <1>3
<1>4. CASE WriteNode(t)
    <2>1. /\ node' = node /\ seed' = seed /\ before' = before
          /\ pc[t] = "node" /\ pc'[t] = "seed"
          /\ cache'[t] = [cache[t] EXCEPT ![SlotOf(seed[t])].node = Compute(seed[t])]
        BY <1>4 DEF WriteNode
    <2>2. cache'[t][SlotOf(seed[t])].node = Compute(seed[t])
        BY <2>1, <1>3 DEF Entries
    <2>3. \A k \in Slots : k # SlotOf(seed[t]) => cache'[t][k] = cache[t][k]
        BY <2>1
    <2> QED
        BY <2>1, <2>2, <2>3
<1>5. CASE WriteSeed(t)
    <2>1. /\ node' = node /\ seed' = seed /\ before' = before
          /\ pc[t] = "seed" /\ pc'[t] = "valid"
          /\ cache'[t] = [cache[t] EXCEPT ![SlotOf(seed[t])].seed = seed[t]]
        BY <1>5 DEF WriteSeed
    <2>2. /\ cache'[t][SlotOf(seed[t])].node = cache[t][SlotOf(seed[t])].node
          /\ cache'[t][SlotOf(seed[t])].seed = seed[t]
        BY <2>1, <1>3 DEF Entries
    <2>3. \A k \in Slots : k # SlotOf(seed[t]) => cache'[t][k] = cache[t][k]
        BY <2>1
    <2> QED
        BY <2>1, <2>2, <2>3
<1>6. CASE WriteValid(t)
    <2>1. /\ node' = node /\ seed' = seed /\ before' = before
          /\ pc[t] = "valid" /\ pc'[t] = "found"
          /\ cache'[t] = [cache[t] EXCEPT ![SlotOf(seed[t])].valid = TRUE]
        BY <1>6 DEF WriteValid
    <2>2. /\ cache'[t][SlotOf(seed[t])].node = cache[t][SlotOf(seed[t])].node
          /\ cache'[t][SlotOf(seed[t])].seed = cache[t][SlotOf(seed[t])].seed
          /\ cache'[t][SlotOf(seed[t])].valid = TRUE
        BY <2>1, <1>3 DEF Entries
    <2>3. \A k \in Slots : k # SlotOf(seed[t]) => cache'[t][k] = cache[t][k]
        BY <2>1
    <2> QED
        BY <2>1, <2>2, <2>3
<1>7. CASE Return(t)
    <2>1. /\ cache' = cache /\ seed' = seed /\ before' = before
          /\ pc[t] = "found" /\ pc'[t] = "returned"
          /\ node'[t] = cache[t][SlotOf(seed[t])].node
        BY <1>7 DEF Return
    <2> QED
        BY <2>1
<1> QED
    BY <1>1, <1>2, <1>4, <1>5, <1>6, <1>7

\* Entries stay exact and written as they should be, thread by thread, because
\* no thread touches the cache of another.
THEOREM CacheInvariant == Spec => []CacheInv
<1>1. ASSUME CacheInv, [Next]_vars
      PROVE  CacheInv'
    <2>1. CASE UNCHANGED vars
        BY <1>1, <2>1 DEF vars, CacheInv, TypeOK, EntriesExact, Exact, Written, Called,
                          Entry, IsHit
    <2>2. ASSUME NEW t \in Threads,
                 Call(t) \/ Probe(t) \/ WriteNode(t) \/ WriteSeed(t) \/ WriteValid(t)
                    \/ Return(t)
          PROVE  CacheInv'
        <3>1. TypeOK'
            BY <1>1, <2>2, TypeStep DEF CacheInv
        <3>2. /\ Written(t)'
              /\ \A k \in Slots :
                    ~(pc'[t] \in {"seed", "valid"} /\ k = SlotOf(seed'[t])) => Exact(t, k)'
            BY <1>1, <2>2, <3>1, OwnStep DEF CacheInv, EntriesExact
        <3>3. ASSUME NEW u \in Threads, u # t
              PROVE  /\ Written(u)'
                     /\ \A k \in Slots :
                            ~(pc'[u] \in {"seed", "valid"} /\ k = SlotOf(seed'[u]))
                                => Exact(u, k)'
            BY <1>1, <2>2, <3>3, OthersUntouched
               DEF CacheInv, EntriesExact, Written, Exact, Called, Entry, IsHit, Owner
        <3> QED
            BY <3>1, <3>2, <3>3 DEF CacheInv, EntriesExact
    <2> QED
        BY <1>1, <2>1, <2>2 DEF Next
<1> QED
    BY <1>1, InitCacheInv, PTL DEF Spec

\* A call returns what it would have computed, from the cache or not.
THEOREM HitIsExactHolds == Spec => []HitIsExact
<1>1. CacheInv => HitIsExact
    BY DEF CacheInv, Written, HitIsExact
<1> QED
    BY <1>1, CacheInvariant, PTL

\* A call that repeats the seed of the thread's last one finds it in the cache.
THEOREM RepeatIsFreeHolds == Spec => []RepeatIsFree
<1>1. CacheInv => RepeatIsFree
    BY DEF CacheInv, Written, RepeatIsFree
<1> QED
    BY <1>1, CacheInvariant, PTL
-----------------------------------------------------------------------------
(***************************************************************************)
(* The two outputs: expand_mt_compute against the engine.  Every recursion *)
(* is first shown to have a function (Recursion), over words, to know that *)
(* the one the definition chooses obeys it.                                *)
(***************************************************************************)

\* The powers of two are positive.
LEMMA BitsPositive ==
    /\ Bits \in [0 .. WORD_BITS -> Nat \ {0}]
    /\ \A k \in 1 .. WORD_BITS : Bits[k] = Bits[k - 1] * 2
<1> DEFINE n == WORD_BITS
           Body(f) == [k \in 0 .. n |-> IF k = 0 THEN 1 ELSE f[k - 1] * 2]
           P == Nat \ {0}
           step == [k \in 1 .. n |-> [x \in P |-> x * 2]]
<1>0. n \in Nat
    BY TwisterAssumption
<1>1. PICK f : Runs(f, n, P, 1, step)
    <2>1. step \in [1 .. n -> [P -> P]] /\ 1 \in P
        OBVIOUS
    <2> HIDE DEF step, P, n
    <2> QED
        BY <1>0, <2>1, Recursion
<1>2. f = Body(f)
    <2>1. f \in [0 .. n -> P] /\ f[0] = 1
        BY <1>1 DEF Runs
    <2>2. \A k \in 1 .. n : f[k - 1] \in P /\ f[k] = step[k][f[k - 1]]
        <3> HIDE DEF n, P, step
        <3> QED
            BY <1>0, <1>1 DEF Runs
    <2>3. \A k \in 1 .. n : f[k] = f[k - 1] * 2
        BY <2>2
    <2> QED
        BY <1>0, <2>1, <2>3
<1>3. Bits = CHOOSE g : g = Body(g)
    BY DEF Bits
<1>4. Bits = Body(Bits)
    BY <1>2, <1>3
<1>5. /\ Bits = [k \in 0 .. n |-> Bits[k]]
      /\ Bits[0] = 1
      /\ \A k \in 1 .. n : Bits[k] = Bits[k - 1] * 2
    <2>1. \A k \in 0 .. n : Bits[k] = IF k = 0 THEN 1 ELSE Bits[k - 1] * 2
        BY <1>4, Zenon
    <2>2. Bits = [k \in 0 .. n |-> Bits[k]]
        BY <1>4, Zenon
    <2>3. 0 \in 0 .. n /\ \A k \in 1 .. n : k \in 0 .. n /\ k # 0
        BY <1>0
    <2> QED
        BY <2>1, <2>2, <2>3, Zenon
<1>6. \A k \in 0 .. n : Bits[k] \in P
    <2> DEFINE Q == { k \in 0 .. n : Bits[k] \in P }
    <2>1. 0 \in Q
        BY <1>0, <1>5
    <2>2. ASSUME NEW k \in 0 .. n - 1, k \in Q
          PROVE  k + 1 \in Q
        <3>1. k + 1 \in 1 .. n /\ k + 1 - 1 = k /\ k + 1 \in 0 .. n
            BY <1>0
        <3>2. \A i \in 1 .. n : Bits[i] = Bits[i - 1] * 2
            BY <1>5
        <3>3. Bits[k + 1] = Bits[k] * 2 /\ Bits[k] \in P
            BY <2>2, <3>1, <3>2
        <3> QED
            BY <3>1, <3>3
    <2>3. 0 .. n \subseteq Q
        <3> HIDE DEF Q
        <3> QED
            BY <1>0, <2>1, <2>2, Upwards
    <2> QED
        BY <2>3
<1> QED
    BY <1>5, <1>6

\* A word is not empty, and has two halves.
LEMMA WordHalves ==
    /\ WORD \in Nat \ {0}
    /\ WORD \div 2 \in Nat \ {0}
    /\ WORD = 2 * (WORD \div 2)
<1> DEFINE h == Bits[WORD_BITS - 1]
<1>1. WORD = h * 2 /\ h \in Nat \ {0}
    BY BitsPositive, TwisterAssumption DEF WORD
<1> HIDE DEF h
<1>2. (2 * h + 0) \div 2 = h
    BY <1>1, DivModUnique
<1> QED
    BY <1>1, <1>2

\* A word shifted down is a word.
LEMMA ShiftDown ==
    ASSUME NEW w \in Words, NEW d \in Nat \ {0}
    PROVE  w \div d \in Words
<1>1. w \in Nat /\ w < WORD /\ WORD \in Nat
    BY WordHalves DEF Words
<1>2. w \div d \in Nat
    BY <1>1, DivNat
<1>3. w = d * (w \div d) + (w % d) /\ w % d \in 0 .. d - 1
    BY <1>1, DivMod
<1> DEFINE q == w \div d
           r == w % d
<1>4. q \in Nat /\ r \in Nat /\ w = d * q + r
    BY <1>2, <1>3
<1> HIDE DEF q, r
<1>5. d * q >= q /\ d * q \in Int
    BY <1>4
<1>6. q <= w
    BY <1>4, <1>5, <1>1
<1> QED
    BY <1>1, <1>4, <1>6 DEF q, Words

\* The init recurrence gives words.
LEMMA InitStepType ==
    ASSUME NEW w \in Words, NEW i \in Nat
    PROVE  InitStep(w, i) \in Words
<1>1. INIT_SHIFT \in 0 .. WORD_BITS /\ F \in Nat
    BY TwisterAssumption, WordHalves DEF Words
<1>2. Bits[INIT_SHIFT] \in Nat \ {0}
    BY <1>1, BitsPositive
<1>3. w \div Bits[INIT_SHIFT] \in Words
    BY <1>2, ShiftDown
<1> DEFINE v == BitXor(w, w \div Bits[INIT_SHIFT])
<1>4. v \in Words
    BY <1>3, TwisterAssumption
<1>5. v \in Nat
    BY <1>4, WordHalves DEF Words
<1> HIDE DEF v
<1>6. F * v + i \in Int
    BY <1>1, <1>5
<1>7. (F * v + i) % WORD \in 0 .. WORD - 1
    BY <1>6, WordHalves, DivMod
<1> QED
    BY <1>7 DEF v, InitStep, Words

\* The twist gives words.
LEMMA MixType ==
    ASSUME NEW cur \in Words, NEW next \in Words, NEW far \in Words
    PROVE  Mix(cur, next, far) \in Words
<1> DEFINE h == WORD \div 2
           a == cur % h
           b == next % h
           y == (cur - a) + b
<1>1. h \in Nat \ {0} /\ WORD = 2 * h /\ cur \in 0 .. WORD - 1 /\ next \in 0 .. WORD - 1
    BY WordHalves DEF Words
<1>2. b \in 0 .. h - 1
    <2>1. next \in Int /\ h \in Nat \ {0}
        BY <1>1
    <2> HIDE DEF h
    <2> QED
        BY <2>1, DivMod
<1>3. cur - a \in {0, h}
    <2>1. CASE cur < h
        <3>1. (h * 0 + cur) % h = cur
            BY <1>1, <2>1, DivModUnique
        <3> QED
            BY <3>1, <1>1
    <2>2. CASE cur >= h
        <3> DEFINE c == cur - h
        <3>1. c \in 0 .. h - 1 /\ h * 1 + c = cur /\ 1 \in Int
            BY <1>1, <2>2
        <3> HIDE DEF c, h
        <3>2. (h * 1 + c) % h = c
            BY <1>1, <3>1, DivModUnique
        <3>3. cur - a = cur - c
            BY <3>1, <3>2
        <3> QED
            BY <3>1, <3>3, <1>1 DEF c
    <2> QED
        BY <2>1, <2>2, <1>1
<1> HIDE DEF h, a, b
<1>4. y \in Words
    BY <1>1, <1>2, <1>3 DEF Words
<1>5. y \div 2 \in Words
    BY <1>4, ShiftDown
<1>6. 0 \in Words /\ TWIST \in Words
    BY TwisterAssumption, WordHalves DEF Words
<1>7. Mix(cur, next, far) = BitXor(BitXor(far, y \div 2), IF y % 2 = 1 THEN TWIST ELSE 0)
    BY DEF Mix, h, a, b
<1> HIDE DEF y
<1>8. BitXor(far, y \div 2) \in Words
    BY <1>5, TwisterAssumption
<1>9. (IF y % 2 = 1 THEN TWIST ELSE 0) \in Words
    BY <1>6
<1> QED
    BY <1>7, <1>8, <1>9, TwisterAssumption

\* What the loop carries from turn to turn, all of it words.
Remembered == [x : Words, m1 : Words, m2 : Words]

\* The loop's words are those of the seeded state: the last one it computed and
\* the two it remembers.
LEMMA LoopIsSeeded ==
    ASSUME NEW w \in Words
    PROVE  LET s == InitLoop(w)
               mt == Seeded(w)
           IN  /\ mt \in [0 .. STATE_SIZE - 1 -> Words]
               /\ mt[0] = w
               /\ s.x = mt[SHIFT_SIZE] /\ s.m1 = mt[1] /\ s.m2 = mt[2]
               /\ mt[SHIFT_SIZE + 1] = InitStep(mt[SHIFT_SIZE], SHIFT_SIZE + 1)
<1> DEFINE m == STATE_SIZE - 1
           Body(f) == [i \in 0 .. m |-> IF i = 0 THEN w ELSE InitStep(f[i - 1], i)]
           step == [i \in 1 .. m |-> [x \in Words |-> InitStep(x, i)]]
           mt == Seeded(w)
<1>0. m \in Nat /\ SHIFT_SIZE \in 2 .. m - 1 /\ LastWord = SHIFT_SIZE
    BY TwisterAssumption DEF LastWord
<1>1. PICK f : Runs(f, m, Words, w, step)
    <2>1. step \in [1 .. m -> [Words -> Words]]
        BY InitStepType
    <2> HIDE DEF step, m
    <2> QED
        BY <1>0, <2>1, Recursion
<1>2. f = Body(f)
    <2>1. f \in [0 .. m -> Words] /\ f[0] = w
        BY <1>1 DEF Runs
    <2>2. \A i \in 1 .. m : f[i - 1] \in Words /\ f[i] = step[i][f[i - 1]]
        BY <1>0, <1>1 DEF Runs
    <2>3. \A i \in 1 .. m : f[i] = InitStep(f[i - 1], i)
        BY <2>2
    <2> HIDE DEF m
    <2> QED
        BY <1>0, <2>1, <2>3
<1>3. mt = CHOOSE g : g = Body(g)
    BY DEF Seeded
<1>4. mt = Body(mt)
    <2> HIDE DEF mt, m
    <2> QED
        BY <1>2, <1>3
<1>5. /\ mt = [i \in 0 .. m |-> mt[i]]
      /\ mt[0] = w
      /\ \A i \in 1 .. m : mt[i] = InitStep(mt[i - 1], i)
    <2> HIDE DEF mt, m
    <2>1. \A i \in 0 .. m : mt[i] = IF i = 0 THEN w ELSE InitStep(mt[i - 1], i)
        BY <1>4, Zenon
    <2>2. mt = [i \in 0 .. m |-> mt[i]]
        BY <1>4, Zenon
    <2>3. 0 \in 0 .. m /\ \A i \in 1 .. m : i \in 0 .. m /\ i # 0
        BY <1>0
    <2> QED
        BY <2>1, <2>2, <2>3, Zenon
<1> HIDE DEF mt, m
<1>6. ASSUME NEW i \in 0 .. m - 1
       PROVE  mt[i + 1] = InitStep(mt[i], i + 1)
    <2> DEFINE j == i + 1
    <2>1. j \in 1 .. m /\ j - 1 = i
        BY <1>0
    <2> HIDE DEF j
    <2>2. mt[j] = InitStep(mt[j - 1], j)
        BY <1>5, <2>1, Zenon
    <2>3. mt[j] = InitStep(mt[i], j)
        BY <2>1, <2>2, Zenon
    <2> QED
        BY <2>3, Zenon DEF j
<1>7. \A i \in 0 .. m : mt[i] \in Words
    <2> DEFINE Q == { i \in 0 .. m : mt[i] \in Words }
    <2>1. 0 \in Q
        BY <1>0, <1>5
    <2>2. ASSUME NEW i \in 0 .. m - 1, i \in Q
          PROVE  i + 1 \in Q
        <3>1. i + 1 \in 1 .. m /\ i + 1 - 1 = i /\ i + 1 \in 0 .. m /\ i + 1 \in Nat
            BY <1>0
        <3>2. mt[i + 1] = InitStep(mt[i], i + 1)
            BY <1>6
        <3>3. mt[i] \in Words
            BY <2>2
        <3> QED
            BY <3>1, <3>2, <3>3, InitStepType
    <2>3. 0 .. m \subseteq Q
        <3> HIDE DEF Q
        <3> QED
            BY <1>0, <2>1, <2>2, Upwards
    <2> QED
        BY <2>3
<1>8. mt \in [0 .. m -> Words]
    BY <1>5, <1>7
<1> DEFINE n == SHIFT_SIZE
           Start == [x |-> w, m1 |-> 0, m2 |-> 0]
           Loop(g) == [i \in 0 .. n |-> IF i = 0 THEN Start ELSE Turn(g[i - 1], i)]
           turn == [i \in 1 .. n |-> [s \in Remembered |-> Turn(s, i)]]
           after == CHOOSE g : g = Loop(g)
<1>9. n \in Nat /\ Start \in Remembered
    BY <1>0, WordHalves DEF Remembered, Words
<1>10. PICK g : Runs(g, n, Remembered, Start, turn)
    <2>1. ASSUME NEW i \in 1 .. n, NEW s \in Remembered
          PROVE  Turn(s, i) \in Remembered
        <3>1. InitStep(s.x, i) \in Words
            BY InitStepType DEF Remembered
        <3> QED
            BY <3>1 DEF Turn, Remembered
    <2>2. turn \in [1 .. n -> [Remembered -> Remembered]]
        BY <2>1
    <2> HIDE DEF turn, n, Start
    <2> QED
        BY <1>9, <2>2, Recursion
<1>11. g = Loop(g)
    <2>1. g \in [0 .. n -> Remembered] /\ g[0] = Start
        BY <1>10 DEF Runs
    <2>2. \A i \in 1 .. n : g[i - 1] \in Remembered /\ g[i] = turn[i][g[i - 1]]
        BY <1>9, <1>10 DEF Runs
    <2>3. \A i \in 1 .. n : g[i] = Turn(g[i - 1], i)
        BY <2>2
    <2> HIDE DEF n, Start
    <2> QED
        BY <1>9, <2>1, <2>3
<1>12. after = Loop(after)
    <2> HIDE DEF n, Start
    <2> QED
        BY <1>11
<1>13. InitLoop(w) = after[n]
    BY <1>0 DEF InitLoop
<1>14. after[0] = Start /\ \A i \in 1 .. n : after[i] = Turn(after[i - 1], i)
    <2> HIDE DEF after, n, Start
    <2>1. \A i \in 0 .. n : after[i] = IF i = 0 THEN Start ELSE Turn(after[i - 1], i)
        BY <1>12, Zenon
    <2>2. 0 \in 0 .. n /\ \A i \in 1 .. n : i \in 0 .. n /\ i # 0
        BY <1>9
    <2> QED
        BY <2>1, <2>2, Zenon
<1>15. \A i \in 1 .. n : InitStep(mt[i - 1], i) = mt[i]
    <2>1. \A i \in 1 .. n : i \in 1 .. m
        BY <1>0
    <2> QED
        BY <1>5, <2>1, Zenon
<1> HIDE DEF after
<1>16. \A i \in 0 .. n :
            /\ after[i].x = mt[i]
            /\ i >= 1 => after[i].m1 = mt[1]
            /\ i >= 2 => after[i].m2 = mt[2]
    <2> DEFINE Q == { i \in 0 .. n : /\ after[i].x = mt[i]
                                     /\ i >= 1 => after[i].m1 = mt[1]
                                     /\ i >= 2 => after[i].m2 = mt[2] }
    <2>1. 0 \in Q
        BY <1>9, <1>14, <1>5
    <2>2. ASSUME NEW i \in 0 .. n - 1, i \in Q
          PROVE  i + 1 \in Q
        <3>1. i + 1 \in 1 .. n /\ i + 1 - 1 = i /\ i + 1 \in 0 .. n
            BY <1>9
        <3>2. after[i + 1] = Turn(after[i], i + 1)
            BY <1>14, <3>1
        <3>3. InitStep(after[i].x, i + 1) = mt[i + 1]
            BY <1>15, <2>2, <3>1
        <3>4. /\ after[i + 1].x = mt[i + 1]
              /\ after[i + 1].m1 = IF i + 1 = 1 THEN mt[i + 1] ELSE after[i].m1
              /\ after[i + 1].m2 = IF i + 1 = 2 THEN mt[i + 1] ELSE after[i].m2
            BY <3>2, <3>3 DEF Turn
        <3> QED
            BY <1>9, <2>2, <3>1, <3>4
    <2>3. 0 .. n \subseteq Q
        <3> HIDE DEF Q
        <3> QED
            BY <1>9, <2>1, <2>2, Upwards
    <2> QED
        BY <2>3
<1>17. after[n].x = mt[n] /\ after[n].m1 = mt[1] /\ after[n].m2 = mt[2]
    BY <1>0, <1>9, <1>16
<1>18. mt[n + 1] = InitStep(mt[n], n + 1)
    <2>1. n \in 0 .. m - 1
        BY <1>0
    <2> QED
        BY <1>6, <2>1, Zenon
<1> QED
    BY <1>5, <1>8, <1>13, <1>17, <1>18 DEF mt, m

\* The first two words of the twisted state are made of four words of the seeded
\* one: no word they look at is twisted before them, and none after them changes
\* them.
LEMMA TwistedWords ==
    ASSUME NEW mt \in [0 .. STATE_SIZE - 1 -> Words]
    PROVE  /\ Twisted(mt)[0] = Mix(mt[0], mt[1], mt[SHIFT_SIZE])
           /\ Twisted(mt)[1] = Mix(mt[1], mt[2], mt[SHIFT_SIZE + 1])
<1> DEFINE n == STATE_SIZE
           States == [0 .. n - 1 -> Words]
           Body(f) == [k \in 0 .. n |-> IF k = 0 THEN mt ELSE TwistWord(f[k - 1], k - 1)]
           step == [k \in 1 .. n |-> [s \in States |-> TwistWord(s, k - 1)]]
           after == CHOOSE g : g = Body(g)
<1>1. n \in Nat /\ n >= 4 /\ SHIFT_SIZE \in 2 .. n - 2
    BY TwisterAssumption
<1>2. ASSUME NEW k \in 0 .. n - 1, NEW s \in States
      PROVE  /\ TwistWord(s, k) \in States
             /\ TwistWord(s, k)[k] = Mix(s[k], s[(k + 1) % n], s[(k + SHIFT_SIZE) % n])
             /\ \A j \in 0 .. n - 1 : j # k => TwistWord(s, k)[j] = s[j]
    <2> DEFINE i == (k + 1) % n
               j == (k + SHIFT_SIZE) % n
               w == Mix(s[k], s[i], s[j])
    <2>1. k + 1 \in Int /\ k + SHIFT_SIZE \in Int /\ n \in Nat \ {0}
        BY <1>1
    <2>2. i \in 0 .. n - 1 /\ j \in 0 .. n - 1
        <3> HIDE DEF n
        <3> QED
            BY <2>1, DivMod
    <2>3. w \in Words
        <3> HIDE DEF i, j
        <3> QED
            BY <2>2, MixType
    <2>4. TwistWord(s, k) = [s EXCEPT ![k] = w]
        BY DEF TwistWord
    <2> HIDE DEF w
    <2>5. TwistWord(s, k) \in States /\ TwistWord(s, k)[k] = w
          /\ \A l \in 0 .. n - 1 : l # k => TwistWord(s, k)[l] = s[l]
        BY <2>3, <2>4
    <2> QED
        BY <2>5 DEF w
<1>3. PICK f : Runs(f, n, States, mt, step)
    <2>1. step \in [1 .. n -> [States -> States]]
        <3>1. ASSUME NEW k \in 1 .. n, NEW s \in States
              PROVE  TwistWord(s, k - 1) \in States
            <4>1. k - 1 \in 0 .. n - 1
                BY <1>1
            <4> HIDE DEF n, States
            <4> QED
                BY <1>2, <4>1
        <3> HIDE DEF n, States
        <3> QED
            BY <3>1
    <2>2. mt \in States
        OBVIOUS
    <2> HIDE DEF step, n, States
    <2> QED
        BY <1>1, <2>1, <2>2, Recursion
<1> HIDE DEF States
<1>4. f = Body(f)
    <2>1. f \in [0 .. n -> States] /\ f[0] = mt
        BY <1>3 DEF Runs
    <2>2. \A k \in 1 .. n : f[k - 1] \in States /\ f[k] = step[k][f[k - 1]]
        BY <1>1, <1>3 DEF Runs
    <2>3. \A k \in 1 .. n : f[k] = TwistWord(f[k - 1], k - 1)
        BY <2>2
    <2> HIDE DEF n
    <2> QED
        BY <1>1, <2>1, <2>3
<1>5. after = Body(after)
    <2> HIDE DEF n
    <2> QED
        BY <1>4
<1>6. Twisted(mt) = after[n]
    BY DEF Twisted
<1> HIDE DEF after, n
<1>7. after[0] = mt
    <2>1. \A k \in 0 .. n : after[k] = IF k = 0 THEN mt ELSE TwistWord(after[k - 1], k - 1)
        BY <1>5, Zenon
    <2>2. 0 \in 0 .. n
        BY <1>1
    <2> QED
        BY <2>1, <2>2, Zenon
<1>8. ASSUME NEW i \in 0 .. n - 1
      PROVE  after[i + 1] = TwistWord(after[i], i)
    <2> DEFINE k == i + 1
    <2>1. k \in 0 .. n /\ k # 0 /\ k - 1 = i
        BY <1>1
    <2> HIDE DEF k
    <2>2. \A l \in 0 .. n : after[l] = IF l = 0 THEN mt ELSE TwistWord(after[l - 1], l - 1)
        BY <1>5, Zenon
    <2>3. after[k] = TwistWord(after[k - 1], k - 1)
        BY <2>1, <2>2, Zenon
    <2>4. after[k] = TwistWord(after[i], i)
        BY <2>1, <2>3, Zenon
    <2> QED
        BY <2>4, Zenon DEF k
<1>9. \A i \in 0 .. n : after[i] \in States
    <2> DEFINE Q == { i \in 0 .. n : after[i] \in States }
    <2>1. 0 \in Q
        BY <1>1, <1>7 DEF States, n
    <2>2. ASSUME NEW i \in 0 .. n - 1, i \in Q
          PROVE  i + 1 \in Q
        <3>1. after[i + 1] \in States
            BY <1>2, <1>8, <2>2
        <3> QED
            BY <1>1, <3>1
    <2>3. 0 .. n \subseteq Q
        <3> HIDE DEF Q
        <3> QED
            BY <1>1, <2>1, <2>2, Upwards
    <2> QED
        BY <2>3
<1> DEFINE a == after[0 + 1]
           b == after[1 + 1]
<1>10. /\ 0 \in 0 .. n - 1 /\ 1 \in 0 .. n - 1 /\ 2 \in 0 .. n - 1
       /\ SHIFT_SIZE \in 2 .. n - 1 /\ SHIFT_SIZE + 1 \in 2 .. n - 1
    BY <1>1
<1>11. /\ (0 + 1) % n = 1 /\ (1 + 1) % n = 2
       /\ (0 + SHIFT_SIZE) % n = SHIFT_SIZE /\ (1 + SHIFT_SIZE) % n = SHIFT_SIZE + 1
    <2>1. ASSUME NEW r \in 0 .. n - 1
          PROVE  r % n = r
        <3>1. n \in Nat \ {0} /\ 0 \in Int
            BY <1>1
        <3>2. (n * 0 + r) % n = r
            BY <3>1, DivModUnique
        <3>3. n * 0 + r = r
            BY <3>1
        <3> QED
            BY <3>2, <3>3
    <2>2. 0 + 1 = 1 /\ 1 + 1 = 2 /\ 0 + SHIFT_SIZE = SHIFT_SIZE
          /\ 1 + SHIFT_SIZE = SHIFT_SIZE + 1
          /\ SHIFT_SIZE \in 0 .. n - 1 /\ SHIFT_SIZE + 1 \in 0 .. n - 1
        BY <1>1
    <2> QED
        BY <1>10, <2>1, <2>2
<1>12. a[0] = Mix(mt[0], mt[1], mt[SHIFT_SIZE]) /\ \A j \in 1 .. n - 1 : a[j] = mt[j]
    <2>1. a = TwistWord(mt, 0) /\ mt \in States
        <3>1. a = TwistWord(after[0], 0)
            BY <1>8, <1>10
        <3>2. 0 \in 0 .. n
            BY <1>1
        <3>3. after[0] \in States
            BY <1>9, <3>2
        <3> HIDE DEF a
        <3> QED
            BY <1>7, <3>1, <3>3
    <2> HIDE DEF a
    <2>2. a[0] = Mix(mt[0], mt[(0 + 1) % n], mt[(0 + SHIFT_SIZE) % n])
        BY <1>2, <1>10, <2>1
    <2>3. \A j \in 0 .. n - 1 : j # 0 => a[j] = mt[j]
        <3>1. \A j \in 0 .. n - 1 : j # 0 => TwistWord(mt, 0)[j] = mt[j]
            BY <1>2, <1>10, <2>1
        <3> QED
            BY <2>1, <3>1
    <2> QED
        BY <1>1, <1>11, <2>2, <2>3
<1>13. b[0] = a[0] /\ b[1] = Mix(mt[1], mt[2], mt[SHIFT_SIZE + 1])
    <2>1. b = TwistWord(a, 1) /\ a \in States
        BY <1>1, <1>8, <1>9, <1>10
    <2>2. b[1] = Mix(a[1], a[(1 + 1) % n], a[(1 + SHIFT_SIZE) % n]) /\ b[0] = a[0]
        BY <1>2, <1>10, <2>1
    <2>3. a[1] = mt[1] /\ a[2] = mt[2] /\ a[SHIFT_SIZE + 1] = mt[SHIFT_SIZE + 1]
        BY <1>1, <1>12
    <2> QED
        BY <1>11, <2>2, <2>3
<1>14. after[n][0] = b[0] /\ after[n][1] = b[1]
    <2> DEFINE m == n - 2
               Q == { i \in 0 .. m : after[i + 2][0] = b[0] /\ after[i + 2][1] = b[1] }
    <2>1. m \in Nat /\ m + 2 = n
        BY <1>1
    <2>2. 0 \in Q
        BY <2>1
    <2>3. ASSUME NEW i \in 0 .. m - 1, i \in Q
          PROVE  i + 1 \in Q
        <3> DEFINE k == i + 2
        <3>1. k \in 2 .. n - 1 /\ k \in 0 .. n - 1 /\ k \in 0 .. n /\ k + 1 = (i + 1) + 2
              /\ i + 1 \in 0 .. m
            BY <1>1
        <3> HIDE DEF k
        <3>2. after[k + 1] = TwistWord(after[k], k) /\ after[k] \in States
            BY <1>8, <1>9, <3>1
        <3>3. \A j \in 0 .. n - 1 : j # k => after[k + 1][j] = after[k][j]
            BY <1>2, <3>1, <3>2
        <3>4. after[k + 1][0] = after[k][0] /\ after[k + 1][1] = after[k][1]
            BY <1>10, <3>1, <3>3
        <3>5. after[k][0] = b[0] /\ after[k][1] = b[1]
            BY <2>3 DEF k
        <3> QED
            BY <3>1, <3>4, <3>5
    <2>4. 0 .. m \subseteq Q
        <3> HIDE DEF Q, m
        <3> QED
            BY <2>1, <2>2, <2>3, Upwards
    <2>5. m \in Q
        BY <2>1, <2>4
    <2> HIDE DEF m
    <2> QED
        BY <2>1, <2>5
<1> QED
    BY <1>6, <1>12, <1>13, <1>14

\* "Bit-identical to the engine" (cuuid_v1.cc:69): for every seed, and every width
\* and parameter of the engine.
THEOREM DrawIsExact ==
    ASSUME NEW w \in Words
    PROVE  expand_mt_compute(w) = FirstOutputs(w)
<1> DEFINE s == InitLoop(w)
           mt == Seeded(w)
<1>1. /\ mt \in [0 .. STATE_SIZE - 1 -> Words]
      /\ mt[0] = w
      /\ s.x = mt[SHIFT_SIZE] /\ s.m1 = mt[1] /\ s.m2 = mt[2]
      /\ mt[SHIFT_SIZE + 1] = InitStep(mt[SHIFT_SIZE], SHIFT_SIZE + 1)
    BY LoopIsSeeded
<1>2. expand_mt_compute(w) =
        << gen(w, s.m1, s.x), gen(s.m1, s.m2, InitStep(s.x, SHIFT_SIZE + 1)) >>
    BY DEF expand_mt_compute
<1>3. FirstOutputs(w) = << Temper(Twisted(mt)[0]), Temper(Twisted(mt)[1]) >>
    BY DEF FirstOutputs
<1> HIDE DEF s, mt
<1>4. /\ Twisted(mt)[0] = Mix(mt[0], mt[1], mt[SHIFT_SIZE])
      /\ Twisted(mt)[1] = Mix(mt[1], mt[2], mt[SHIFT_SIZE + 1])
    BY <1>1, TwistedWords
<1> QED
    BY <1>1, <1>2, <1>3, <1>4 DEF gen

\* What a call returns, from the cache or not, is what the engine draws first.
THEOREM ReturnsDrawHolds == Spec => []ReturnsDraw
<1>1. HitIsExact /\ TypeOK => ReturnsDraw
    <2> SUFFICES ASSUME HitIsExact, TypeOK, NEW t \in Threads, pc[t] = "returned", Called(t)
                 PROVE  node[t] = FirstOutputs(seed[t])
        BY DEF ReturnsDraw
    <2>1. node[t] = Compute(seed[t])
        BY DEF HitIsExact
    <2>2. seed[t] \in Asked
        BY DEF TypeOK, Called
    <2> QED
        BY <2>1, <2>2, DrawIsExact, NodesAssumption
<1>2. CacheInv => ReturnsDraw
    BY <1>1 DEF CacheInv, Written, HitIsExact
<1> QED
    BY <1>2, CacheInvariant, PTL
=============================================================================
