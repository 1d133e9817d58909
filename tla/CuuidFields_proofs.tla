------------------------- MODULE CuuidFields_proofs -------------------------
(***************************************************************************)
(* Facts about the shared arithmetic of cuuid_common.cc, for every width,  *)
(* every initial tick that does not start a window, every hash and every   *)
(* expander.                                                               *)
(***************************************************************************)
EXTENDS CuuidFields, NumberLemmas, TLAPS

-----------------------------------------------------------------------------
\* Shifting up by any offset and down again, both modulo d, changes nothing.
LEMMA ModShift ==
    ASSUME NEW d \in Nat \ {0}, NEW x \in 0 .. d - 1, NEW s \in Int
    PROVE  /\ (((x + s) % d) - s) % d = x
           /\ (((x - s) % d) + s) % d = x
<1> DEFINE up == (x + s) % d
           down == (x - s) % d
           q == (x + s) \div d
           p == (x - s) \div d
<1>0. x + s \in Int /\ x - s \in Int
    OBVIOUS
<1>1. q \in Int /\ up \in 0 .. d - 1 /\ x + s = d * q + up
    BY <1>0, DivMod
<1>2. p \in Int /\ down \in 0 .. d - 1 /\ x - s = d * p + down
    BY <1>0, DivMod
<1> HIDE DEF up, down, q, p
<1>4. up - s = d * (-q) + x /\ -q \in Int
    BY <1>1
<1>5. down + s = d * (-p) + x /\ -p \in Int
    BY <1>2
<1>6. (up - s) % d = x
    BY <1>4, DivModUnique
<1>7. (down + s) % d = x
    BY <1>5, DivModUnique
<1> QED
    BY <1>6, <1>7 DEF up, down

-----------------------------------------------------------------------------
(* Types.                                                                  *)

\* The time range is not empty and a whole number of windows.
LEMMA TimeSize ==
    /\ TIME_SIZE \in Nat \ {0}
    /\ 0 \in Times /\ 0 \in Clocks /\ 0 \in Salts /\ 0 \in CompactTimes
    /\ UUID_TIME_INITIAL \in Times
BY WidthAssumption, ProductPositive
   DEF TIME_SIZE, Times, Clocks, Salts, CompactTimes

\* Masking to 60 bits gives a time, whatever was subtracted or added.
LEMMA MaskType ==
    ASSUME NEW n \in Int
    PROVE  n % TIME_SIZE \in Times
BY TimeSize, DivMod DEF Times

\* Rebase and its inverse stay in the 60 bits, from a 64-bit time too.
LEMMA RebaseType ==
    ASSUME NEW t \in Nat
    PROVE  Rebase(t) \in Times /\ Unbase(t) \in Times
<1>1. t - UUID_TIME_INITIAL \in Int /\ t + UUID_TIME_INITIAL \in Int
    BY TimeSize DEF Times
<1> QED
    BY <1>1, MaskType, TimeSize DEF Rebase, Unbase

\* A time splits into a window that fits the 46 bits and a 14-bit tick.
LEMMA SplitType ==
    ASSUME NEW r \in Times
    PROVE  /\ r \div CLOCK_SIZE \in CompactTimes
           /\ r % CLOCK_SIZE \in Clocks
<1> DEFINE q == r \div CLOCK_SIZE
           k == r % CLOCK_SIZE
<1>1. CLOCK_SIZE \in Nat \ {0} /\ WINDOWS \in Nat \ {0}
    BY WidthAssumption
<1>2. r \in Int /\ 0 <= r /\ r < CLOCK_SIZE * WINDOWS
    BY TimeSize DEF Times, TIME_SIZE
<1>3. /\ q \in Int
      /\ k \in 0 .. CLOCK_SIZE - 1
      /\ r = CLOCK_SIZE * q + k
    BY <1>1, <1>2, DivMod
<1> HIDE DEF q, k
<1>4. q < WINDOWS
    <2>1. SUFFICES ASSUME q >= WINDOWS
                   PROVE  FALSE
        BY <1>1, <1>3
    <2>2. CLOCK_SIZE * q >= CLOCK_SIZE * WINDOWS
        BY <2>1, <1>1, <1>3
    <2> QED
        BY <2>2, <1>1, <1>2, <1>3
<1>5. q >= 0
    <2>1. SUFFICES ASSUME q <= -1
                   PROVE  FALSE
        BY <1>3
    <2>2. CLOCK_SIZE * q <= -CLOCK_SIZE
        BY <2>1, <1>1, <1>3
    <2> QED
        BY <2>2, <1>1, <1>2, <1>3
<1> QED
    BY <1>1, <1>3, <1>4, <1>5 DEF q, k, CompactTimes, Clocks

\* The same of the parts the code takes a time into.
LEMMA WindowType ==
    ASSUME NEW t \in Nat
    PROVE  WindowOf(t) \in CompactTimes /\ TickOf(t) \in Clocks
BY RebaseType, SplitType DEF WindowOf, TickOf

\* The start of a window of the 46 bits, counted from 0 again, is a time.
LEMMA WindowStartType ==
    ASSUME NEW w \in CompactTimes
    PROVE  WindowStart(w) \in Times
<1>1. w * CLOCK_SIZE + UUID_TIME_INITIAL \in Int
    BY WidthAssumption, TimeSize DEF CompactTimes, Times
<1> QED
    BY <1>1, MaskType, TimeSize DEF WindowStart

\* The compact content crush_fields and condense fill fits its widths.
LEMMA CompactOfType ==
    ASSUME NEW f, f.time \in Nat, f.clock \in Clocks, NEW s \in Salts
    PROVE  /\ CompactOf(f, s) \in Contents
           /\ CompactOf(f, s).time = WindowOf(f.time)
           /\ CompactOf(f, s).time \in CompactTimes
           /\ CompactOf(f, s).clock = ClockXor(f.clock, TickOf(f.time))
           /\ CompactOf(f, s).clock \in Clocks
           /\ CompactOf(f, s).salt = s
           /\ CompactOf(f, s).compacted = TRUE
BY WindowType, XorAssumption DEF CompactOf, Compact, Contents

\* calculate_node gives a multicast node that keeps the salt it was given.
LEMMA CalculateNodeType ==
    ASSUME NEW codec \in Codecs, NEW c,
           c.time \in CompactTimes, c.clock \in Clocks, c.salt \in Salts
    PROVE  /\ CalculateNode(codec, c) \in Nodes
           /\ CalculateNode(codec, c).mc = TRUE
           /\ CalculateNode(codec, c).salt = c.salt
<1>1. Seed(c.time, c.clock, c.salt) \in Seeds
    BY HashAssumption
<1>2. Expand(codec, Seed(c.time, c.clock, c.salt)) \in Bodies /\ ZeroBody \in Bodies
    BY <1>1, HashAssumption
<1> QED
    BY <1>2, TimeSize DEF CalculateNode, MulticastOnly, Nodes

\* The salt of a node, carried or hashed, has SALT_BITS bits.
LEMMA SaltOfType ==
    ASSUME NEW n \in Nodes
    PROVE  SaltOf(n) \in Salts
BY HashAssumption DEF SaltOf, Nodes

\* The fields crush_fields leaves fit their widths, also when the time or the
\* node that went in did not: of the node it takes the salt alone.
LEMMA CrushFits ==
    ASSUME NEW codec \in Codecs,
           NEW f, f.time \in Nat, f.clock \in Clocks, SaltOf(f.node) \in Salts
    PROVE  Crush(codec, f) \in Fields
<1> DEFINE c == CompactOf(f, SaltOf(f.node))
<1>1. c.time \in CompactTimes /\ c.clock \in Clocks /\ c.salt \in Salts
    BY CompactOfType
<1>2. CalculateNode(codec, c) \in Nodes
    BY <1>1, CalculateNodeType
<1>3. WindowStart(c.time) \in Times
    BY <1>1, WindowStartType
<1> QED
    BY <1>1, <1>2, <1>3 DEF Crush, Fields

\* The salt of a node that fits does: crush_fields leaves fields of their widths,
\* also when the time that went in was wider.
THEOREM CrushType ==
    ASSUME NEW codec \in Codecs,
           NEW f, f.time \in Nat, f.clock \in Clocks, f.node \in Nodes
    PROVE  Crush(codec, f) \in Fields
BY SaltOfType, CrushFits

-----------------------------------------------------------------------------
(* What a crushed id is.                                                   *)

\* The start of a window, rebased, is that many windows after 2016; and only
\* window 0 starts at time 0, since the initial tick does not start a window.
LEMMA RebaseWindowStart ==
    ASSUME NEW w \in CompactTimes
    PROVE  /\ Rebase(WindowStart(w)) = CLOCK_SIZE * w
           /\ WindowStart(w) = 0 <=> w = 0
<1> DEFINE sum == w * CLOCK_SIZE + UUID_TIME_INITIAL
           x == CLOCK_SIZE * w
<1>1. /\ CLOCK_SIZE \in Nat \ {0} /\ WINDOWS \in Nat \ {0}
      /\ TIME_SIZE \in Nat \ {0} /\ TIME_SIZE = CLOCK_SIZE * WINDOWS
      /\ UUID_TIME_INITIAL \in Int
      /\ UUID_TIME_INITIAL % CLOCK_SIZE # 0
      /\ w \in Int /\ 0 <= w /\ w < WINDOWS
    BY WidthAssumption, TimeSize DEF Times, CompactTimes, TIME_SIZE
<1>2. CASE w = 0
    BY <1>1, <1>2 DEF WindowStart, Rebase
<1>3. CASE w # 0
    <2>1. x \in 0 .. TIME_SIZE - 1
        <3>1. CLOCK_SIZE * w >= 0
            BY <1>1
        <3>2. CLOCK_SIZE * w < CLOCK_SIZE * WINDOWS
            BY <1>1
        <3> QED
            BY <3>1, <3>2, <1>1
    <2>2. sum = x + UUID_TIME_INITIAL /\ sum \in Int
        BY <1>1
    <2>3. sum % TIME_SIZE # 0
        <3>1. SUFFICES ASSUME sum % TIME_SIZE = 0
                       PROVE  FALSE
            OBVIOUS
        <3> DEFINE m == sum \div TIME_SIZE
                   k == WINDOWS * m - w
        <3> HIDE DEF sum
        <3>a. m \in Int /\ sum = TIME_SIZE * m + (sum % TIME_SIZE)
            BY <2>2, <1>1, DivMod
        <3>2. m \in Int /\ sum = TIME_SIZE * m
            BY <3>1, <3>a, <1>1
        <3> HIDE DEF m
        <3>3. k \in Int
            BY <3>2, <1>1
        <3>4. TIME_SIZE * m = CLOCK_SIZE * (WINDOWS * m)
            BY <3>2, <1>1
        <3>5. UUID_TIME_INITIAL = CLOCK_SIZE * k + 0
            BY <3>2, <3>4, <2>2, <1>1
        <3> HIDE DEF k
        <3>6. UUID_TIME_INITIAL % CLOCK_SIZE = 0
            BY <3>3, <3>5, <1>1, DivModUnique
        <3> QED
            BY <3>6, <1>1
    <2>4. (((x + UUID_TIME_INITIAL) % TIME_SIZE) - UUID_TIME_INITIAL) % TIME_SIZE = x
        BY <2>1, <1>1, ModShift
    <2>5. WindowStart(w) = (x + UUID_TIME_INITIAL) % TIME_SIZE
        BY <1>3, <2>2 DEF WindowStart
    <2> QED
        BY <1>3, <2>2, <2>3, <2>4, <2>5 DEF Rebase
<1> QED
    BY <1>2, <1>3

\* So a crushed time keeps its window and stands at its start.
LEMMA WindowOfStart ==
    ASSUME NEW w \in CompactTimes
    PROVE  WindowOf(WindowStart(w)) = w /\ TickOf(WindowStart(w)) = 0
<1>1. Rebase(WindowStart(w)) = CLOCK_SIZE * w + 0
    BY RebaseWindowStart, WidthAssumption DEF CompactTimes
<1>2. w \in Int /\ CLOCK_SIZE \in Nat \ {0} /\ 0 \in 0 .. CLOCK_SIZE - 1
    BY WidthAssumption DEF CompactTimes
<1>3. /\ (CLOCK_SIZE * w + 0) \div CLOCK_SIZE = w
      /\ (CLOCK_SIZE * w + 0) % CLOCK_SIZE = 0
    BY <1>2, DivModUnique
<1> QED
    BY <1>1, <1>3 DEF WindowOf, TickOf

\* What any compact content rebuilds to is condensed to that very content.
LEMMA CompactFixpoint ==
    ASSUME NEW codec \in Codecs, NEW w \in CompactTimes,
           NEW k \in Clocks, NEW s \in Salts
    PROVE  Condense(codec, Uncondense(codec, Compact(w, k, s))) = Compact(w, k, s)
<1> DEFINE c == Compact(w, k, s)
           g == Uncondense(codec, c)
<1>1. /\ c.time = w /\ c.clock = k /\ c.salt = s /\ c.compacted = TRUE
    BY DEF Compact
<1>2. /\ CalculateNode(codec, c) \in Nodes
      /\ CalculateNode(codec, c).salt = s
    BY <1>1, CalculateNodeType
<1>3. /\ g.time = WindowStart(w)
      /\ g.clock = k
      /\ g.node = CalculateNode(codec, c)
    BY <1>1 DEF Uncondense, RebuiltNode, RebuiltTime
<1> HIDE DEF c, g
<1>4. WindowOf(g.time) = w /\ TickOf(g.time) = 0
    BY <1>3, WindowOfStart
<1>5. ClockXor(k, 0) = k
    BY XorAssumption, TimeSize
<1>6. CompactOf(g, g.node.salt) = c
    BY <1>2, <1>3, <1>4, <1>5 DEF CompactOf, c
<1> QED
    BY <1>3, <1>6 DEF Condense, c, g

\* crush_fields gives what a reader rebuilds from the compact content it fills.
LEMMA CrushIsUncondense ==
    ASSUME NEW codec \in Codecs, NEW f
    PROVE  Crush(codec, f) = Uncondense(codec, CompactOf(f, SaltOf(f.node)))
BY DEF Crush, Uncondense, RebuiltNode, RebuiltTime, CompactOf, Compact

\* A crushed id takes the compact wire and is read back exactly from it.
THEOREM CrushedRoundTrips ==
    ASSUME NEW codec \in Codecs,
           NEW f, f.time \in Nat, f.clock \in Clocks, f.node \in Nodes
    PROVE  LET g == Crush(codec, f) IN
           /\ Condense(codec, g) = CompactOf(f, SaltOf(f.node))
           /\ Condense(codec, g).compacted
           /\ Uncondense(codec, Condense(codec, g)) = g
<1> DEFINE s == SaltOf(f.node)
           c == CompactOf(f, s)
<1>1. s \in Salts
    BY SaltOfType
<1>2. /\ c = Compact(c.time, c.clock, c.salt)
      /\ c.time \in CompactTimes /\ c.clock \in Clocks /\ c.salt \in Salts
      /\ c.compacted
    BY <1>1, CompactOfType DEF CompactOf, Compact
<1>3. Crush(codec, f) = Uncondense(codec, c)
    BY CrushIsUncondense
<1> HIDE DEF c, s
<1>4. Condense(codec, Uncondense(codec, c)) = c
    BY <1>2, CompactFixpoint
<1> QED
    BY <1>2, <1>3, <1>4 DEF c, s

\* Crushing a crushed id changes nothing.
THEOREM CrushIdempotent ==
    ASSUME NEW codec \in Codecs,
           NEW f, f.time \in Nat, f.clock \in Clocks, f.node \in Nodes
    PROVE  Crush(codec, Crush(codec, f)) = Crush(codec, f)
<1> DEFINE c == CompactOf(f, SaltOf(f.node))
           g == Crush(codec, f)
<1>1. c.time \in CompactTimes /\ c.clock \in Clocks /\ c.salt \in Salts
    BY SaltOfType, CompactOfType
<1>2. /\ CalculateNode(codec, c) \in Nodes
      /\ CalculateNode(codec, c).mc
      /\ CalculateNode(codec, c).salt = c.salt
    BY <1>1, CalculateNodeType
<1>3. g.time = WindowStart(c.time) /\ g.clock = c.clock /\ g.node = CalculateNode(codec, c)
    BY DEF Crush
<1>4. c = Compact(c.time, c.clock, c.salt)
    BY DEF CompactOf, Compact
<1>5. g = Uncondense(codec, c)
    BY CrushIsUncondense
<1> HIDE DEF c, g
<1>6. SaltOf(g.node) = c.salt
    BY <1>2, <1>3 DEF SaltOf
<1>7. WindowOf(g.time) = c.time /\ TickOf(g.time) = 0
    BY <1>1, <1>3, WindowOfStart
<1>8. ClockXor(c.clock, 0) = c.clock
    BY <1>1, XorAssumption, TimeSize
<1>9. CompactOf(g, SaltOf(g.node)) = c
    BY <1>3, <1>4, <1>6, <1>7, <1>8 DEF CompactOf
<1>10. Crush(codec, g) = Uncondense(codec, CompactOf(g, SaltOf(g.node)))
    BY CrushIsUncondense
<1> QED
    BY <1>5, <1>9, <1>10 DEF g

-----------------------------------------------------------------------------
(* What the wire tells apart, and what it loses.                           *)

\* Rebasing loses nothing of a time but 0, and only the initial tick goes to 0.
LEMMA RebaseInverse ==
    ASSUME NEW t \in Times, t # 0
    PROVE  /\ (Rebase(t) + UUID_TIME_INITIAL) % TIME_SIZE = t
           /\ Rebase(t) = 0 <=> t = UUID_TIME_INITIAL
<1>1. /\ TIME_SIZE \in Nat \ {0}
      /\ t \in 0 .. TIME_SIZE - 1
      /\ UUID_TIME_INITIAL \in 0 .. TIME_SIZE - 1
      /\ UUID_TIME_INITIAL \in Int /\ 0 \in Int /\ 0 \in 0 .. TIME_SIZE - 1
    BY TimeSize DEF Times
<1>2. (((t - UUID_TIME_INITIAL) % TIME_SIZE) + UUID_TIME_INITIAL) % TIME_SIZE = t
    BY <1>1, ModShift
<1>3. Rebase(t) = (t - UUID_TIME_INITIAL) % TIME_SIZE
    BY DEF Rebase
<1>4. (TIME_SIZE * 0 + UUID_TIME_INITIAL) % TIME_SIZE = UUID_TIME_INITIAL
    BY <1>1, DivModUnique
<1>5. (TIME_SIZE * 0 + 0) % TIME_SIZE = 0
    BY <1>1, DivModUnique
<1>6. TIME_SIZE * 0 + UUID_TIME_INITIAL = 0 + UUID_TIME_INITIAL /\ TIME_SIZE * 0 + 0 = 0
    BY <1>1
<1>7. Rebase(t) = 0 => t = UUID_TIME_INITIAL
    BY <1>2, <1>3, <1>4, <1>6
<1>8. t = UUID_TIME_INITIAL => Rebase(t) = 0
    <2>1. UUID_TIME_INITIAL - UUID_TIME_INITIAL = 0
        BY <1>1
    <2> QED
        BY <2>1, <1>3, <1>5, <1>6
<1> QED
    BY <1>2, <1>3, <1>7, <1>8

\* Two numbers less than d apart have different remainders, unless they are one.
LEMMA ModApart ==
    ASSUME NEW d \in Nat \ {0}, NEW x \in Int, NEW y \in Int,
           x < y + d, y < x + d, x % d = y % d
    PROVE  x = y
<1> DEFINE p == x \div d
           q == y \div d
           r == x % d
<1>1. p \in Int /\ q \in Int /\ r \in Int /\ x = d * p + r /\ y = d * q + r
    BY DivMod
<1> HIDE DEF p, q, r
<1>2. d * (p - q) < d /\ d * (q - p) < d
    BY <1>1
<1>3. ASSUME NEW k \in Int, d * k < d
      PROVE  k <= 0
    <2>1. SUFFICES ASSUME k >= 1
                   PROVE  FALSE
        OBVIOUS
    <2>2. d * k >= d
        BY <2>1
    <2> QED
        BY <2>2, <1>3
<1>4. p - q <= 0 /\ q - p <= 0
    <2>1. p - q \in Int /\ q - p \in Int
        BY <1>1
    <2> QED
        BY <2>1, <1>2, <1>3
<1> QED
    BY <1>1, <1>4

\* Two times within the range of the 60-bit field, 0 left out, have different
\* rebased times, also when the field wraps between them.
LEMMA RebaseInjective ==
    ASSUME NEW x \in Nat \ {0}, NEW y \in Nat \ {0},
           x < y + TIME_SIZE, y < x + TIME_SIZE, Rebase(x) = Rebase(y)
    PROVE  x = y
<1> DEFINE a == x - UUID_TIME_INITIAL
           b == y - UUID_TIME_INITIAL
<1>1. /\ UUID_TIME_INITIAL \in Int /\ TIME_SIZE \in Nat \ {0}
      /\ a \in Int /\ b \in Int
      /\ a < b + TIME_SIZE /\ b < a + TIME_SIZE
    BY TimeSize DEF Times
<1>2. a % TIME_SIZE = b % TIME_SIZE
    BY DEF Rebase
<1> HIDE DEF a, b
<1>3. a = b
    BY <1>1, <1>2, ModApart
<1> QED
    BY <1>3, <1>1 DEF a, b

\* Under one clock sequence, two different nonzero times within the range of the
\* 60-bit field never fill the same compact content, whatever the salts: the ids
\* of a process stay apart.
THEOREM CompactOfInjective ==
    ASSUME NEW f, NEW g, f.time \in Nat \ {0}, g.time \in Nat \ {0},
           f.time < g.time + TIME_SIZE, g.time < f.time + TIME_SIZE,
           f.clock \in Clocks, g.clock = f.clock,
           NEW s, NEW r, CompactOf(f, s) = CompactOf(g, r)
    PROVE  f.time = g.time
<1> DEFINE a == TickOf(f.time)
           b == TickOf(g.time)
           k == f.clock
<1>1. a \in Clocks /\ b \in Clocks
    BY WindowType
<1>2. WindowOf(f.time) = WindowOf(g.time) /\ ClockXor(k, a) = ClockXor(k, b)
    BY DEF CompactOf, Compact
<1>3. a = b
    <2>1. ClockXor(ClockXor(a, k), k) = a /\ ClockXor(ClockXor(b, k), k) = b
        BY <1>1, XorAssumption
    <2>2. ClockXor(a, k) = ClockXor(b, k)
        BY <1>1, <1>2, XorAssumption
    <2> QED
        BY <2>1, <2>2
<1>4. Rebase(f.time) \in Int /\ Rebase(g.time) \in Int
    BY RebaseType DEF Times
<1>5. Rebase(f.time) = Rebase(g.time)
    <2>1. /\ Rebase(f.time) = CLOCK_SIZE * WindowOf(f.time) + TickOf(f.time)
          /\ Rebase(g.time) = CLOCK_SIZE * WindowOf(g.time) + TickOf(g.time)
        BY <1>4, DivMod, WidthAssumption DEF WindowOf, TickOf
    <2> QED
        BY <2>1, <1>2, <1>3
<1> QED
    BY <1>5, RebaseInjective

\* The initial tick is not 0, as it does not start a window.
LEMMA InitialPositive == UUID_TIME_INITIAL # 0
<1>1. (CLOCK_SIZE * 0 + 0) % CLOCK_SIZE = 0 /\ CLOCK_SIZE * 0 + 0 = 0
    BY DivModUnique, WidthAssumption
<1> QED
    BY <1>1, WidthAssumption

\* A time since 2016 is crushed to the start of its window, without a wrap, or
\* to 0 in the first window of all.
LEMMA CrushedTime ==
    ASSUME NEW t \in UUID_TIME_INITIAL .. TIME_SIZE - 1
    PROVE  /\ WindowOf(t) \in Nat
           /\ CLOCK_SIZE * WindowOf(t) + UUID_TIME_INITIAL <= t
           /\ t < CLOCK_SIZE * (WindowOf(t) + 1) + UUID_TIME_INITIAL
           /\ WindowOf(t) # 0 =>
                WindowStart(WindowOf(t)) = CLOCK_SIZE * WindowOf(t) + UUID_TIME_INITIAL
<1> DEFINE w == WindowOf(t)
           r == TickOf(t)
<1>1. /\ t \in Nat /\ t # 0 /\ UUID_TIME_INITIAL \in Nat /\ t >= UUID_TIME_INITIAL
      /\ CLOCK_SIZE \in Nat \ {0} /\ TIME_SIZE \in Nat \ {0}
    BY TimeSize, WidthAssumption, InitialPositive DEF Times
<1>2. w \in Nat /\ r \in 0 .. CLOCK_SIZE - 1
    BY <1>1, WindowType DEF CompactTimes, Clocks
<1>3. Rebase(t) = t - UUID_TIME_INITIAL
    <2>1. TIME_SIZE * 0 + (t - UUID_TIME_INITIAL) = t - UUID_TIME_INITIAL
        BY <1>1
    <2>2. t - UUID_TIME_INITIAL \in 0 .. TIME_SIZE - 1
        BY <1>1
    <2>3. (t - UUID_TIME_INITIAL) % TIME_SIZE = t - UUID_TIME_INITIAL
        BY <1>1, <2>1, <2>2, DivModUnique
    <2> QED
        BY <1>1, <2>3 DEF Rebase
<1>4. t - UUID_TIME_INITIAL = CLOCK_SIZE * w + r
    BY <1>1, <1>3, DivMod DEF WindowOf, TickOf
<1>5. CLOCK_SIZE * w \in Nat
    BY <1>1, <1>2
<1>6. CLOCK_SIZE * w + UUID_TIME_INITIAL <= t
    <2> HIDE DEF w, r
    <2> QED
        BY <1>1, <1>2, <1>4, <1>5
<1>7. t < CLOCK_SIZE * (w + 1) + UUID_TIME_INITIAL
    <2> HIDE DEF w, r
    <2>1. CLOCK_SIZE * (w + 1) = CLOCK_SIZE * w + CLOCK_SIZE
        BY <1>1, <1>2
    <2> QED
        BY <1>1, <1>2, <1>4, <1>5, <2>1
<1>8. ASSUME w # 0
      PROVE  WindowStart(w) = CLOCK_SIZE * w + UUID_TIME_INITIAL
    <2>1. WindowStart(w) = (w * CLOCK_SIZE + UUID_TIME_INITIAL) % TIME_SIZE
        BY <1>8 DEF WindowStart
    <2> HIDE DEF w, r
    <2> DEFINE x == CLOCK_SIZE * w + UUID_TIME_INITIAL
    <2>2. x = w * CLOCK_SIZE + UUID_TIME_INITIAL
        BY <1>1, <1>2
    <2>3. x \in 0 .. TIME_SIZE - 1
        BY <1>1, <1>5, <1>6
    <2> HIDE DEF x
    <2>4. TIME_SIZE * 0 + x = x
        BY <1>1, <2>3
    <2>5. x % TIME_SIZE = x
        BY <1>1, <2>3, <2>4, DivModUnique
    <2> QED
        BY <2>1, <2>2, <2>5 DEF x
<1> QED
    BY <1>2, <1>6, <1>7, <1>8

\* So crushing keeps the order of times since 2016.
LEMMA CrushedTimeGrows ==
    ASSUME NEW t \in UUID_TIME_INITIAL .. TIME_SIZE - 1,
           NEW u \in UUID_TIME_INITIAL .. TIME_SIZE - 1, t <= u
    PROVE  WindowStart(WindowOf(t)) <= WindowStart(WindowOf(u))
<1> DEFINE v == WindowOf(t)
           w == WindowOf(u)
<1>1. /\ t \in Nat /\ u \in Nat /\ UUID_TIME_INITIAL \in Nat
      /\ CLOCK_SIZE \in Nat \ {0}
    BY TimeSize, WidthAssumption DEF Times
<1>2. /\ v \in Nat /\ CLOCK_SIZE * v + UUID_TIME_INITIAL <= t
      /\ w \in Nat /\ u < CLOCK_SIZE * (w + 1) + UUID_TIME_INITIAL
      /\ v # 0 => WindowStart(v) = CLOCK_SIZE * v + UUID_TIME_INITIAL
      /\ w # 0 => WindowStart(w) = CLOCK_SIZE * w + UUID_TIME_INITIAL
    BY CrushedTime
<1>3. WindowStart(0) = 0
    BY DEF WindowStart
<1> SUFFICES WindowStart(v) <= WindowStart(w)
    OBVIOUS
<1> HIDE DEF v, w
<1>4. CLOCK_SIZE * v \in Nat /\ CLOCK_SIZE * w \in Nat
      /\ CLOCK_SIZE * (w + 1) = CLOCK_SIZE * w + CLOCK_SIZE
    BY <1>1, <1>2
<1>5. v <= w
    <2> SUFFICES ASSUME v > w
                 PROVE  FALSE
        BY <1>2
    <2>1. v - (w + 1) \in Nat
        BY <1>2
    <2>2. CLOCK_SIZE * (v - (w + 1)) \in Nat
        BY <2>1, <1>1
    <2>3. CLOCK_SIZE * v = CLOCK_SIZE * (w + 1) + CLOCK_SIZE * (v - (w + 1))
        BY <1>1, <1>2, <2>1
    <2> QED
        BY <1>1, <1>2, <1>4, <2>2, <2>3
<1>6. CLOCK_SIZE * v <= CLOCK_SIZE * w
    <2>1. w - v \in Nat
        BY <1>2, <1>5
    <2>2. CLOCK_SIZE * (w - v) \in Nat
        BY <2>1, <1>1
    <2>3. CLOCK_SIZE * w = CLOCK_SIZE * v + CLOCK_SIZE * (w - v)
        BY <1>1, <1>2, <2>1
    <2> QED
        BY <1>4, <2>2, <2>3
<1>7. CASE v = 0
    BY <1>1, <1>2, <1>3, <1>4, <1>7
<1>8. CASE v # 0
    <2>1. w # 0
        BY <1>2, <1>5, <1>8
    <2> QED
        BY <1>1, <1>2, <1>4, <1>6, <1>8, <2>1
<1> QED
    BY <1>7, <1>8

\* A real node's time comes back from the wire unless it is the initial tick.
LEMMA UnbaseRebase ==
    ASSUME NEW t \in Times
    PROVE  /\ t # UUID_TIME_INITIAL => Unbase(Rebase(t)) = t
           /\ t = UUID_TIME_INITIAL => Unbase(Rebase(t)) = 0
           /\ Rebase(Unbase(Rebase(t))) = Rebase(t)
<1>0. UUID_TIME_INITIAL # 0
    BY InitialPositive
<1>1. CASE t = 0
    BY <1>0, <1>1 DEF Rebase, Unbase
<1>2. CASE t # 0
    <2>1. CASE t = UUID_TIME_INITIAL
        <3>1. Rebase(t) = 0
            BY <1>2, <2>1, RebaseInverse
        <3>2. Unbase(0) = 0 /\ Rebase(0) = 0
            BY DEF Unbase, Rebase
        <3> QED
            BY <3>1, <3>2, <2>1
    <2>2. CASE t # UUID_TIME_INITIAL
        <3>1. Rebase(t) # 0
            BY <1>2, <2>2, RebaseInverse
        <3>2. Unbase(Rebase(t)) = t
            BY <1>2, <3>1, RebaseInverse DEF Unbase
        <3> QED
            BY <3>2, <2>2
    <2> QED
        BY <2>1, <2>2
<1> QED
    BY <1>1, <1>2

-----------------------------------------------------------------------------
(* What condense and uncondense do to any fields.                          *)

\* The two shapes a wire can take.
LEMMA CondenseCases ==
    ASSUME NEW c \in Codecs, NEW f \in Fields
    PROVE  /\ Condense(c, f) \in Contents
           /\ \/ /\ f.node = CalculateNode(c, CompactOf(f, f.node.salt))
                 /\ f.node.mc
                 /\ Condense(c, f) = CompactOf(f, f.node.salt)
              \/ /\ f.node # CalculateNode(c, CompactOf(f, f.node.salt))
                 /\ Condense(c, f) =
                     Expanded(IF f.node.mc THEN f.time ELSE Rebase(f.time), f.clock, f.node)
<1>1. /\ f.time \in Nat /\ f.time \in Times /\ f.clock \in Clocks
      /\ f.node \in Nodes /\ f.node.salt \in Salts
    BY DEF Fields, Times, Nodes
<1>2. Rebase(f.time) \in Times
    BY <1>1, RebaseType
<1> DEFINE w == CompactOf(f, f.node.salt)
<1>3. w \in Contents /\ w.time \in CompactTimes /\ w.clock \in Clocks /\ w.salt \in Salts
    BY <1>1, CompactOfType
<1> HIDE DEF w
<1>4. CalculateNode(c, w).mc = TRUE
    BY <1>3, CalculateNodeType
<1>5. Expanded(IF f.node.mc THEN f.time ELSE Rebase(f.time), f.clock, f.node) \in Contents
    BY <1>1, <1>2 DEF Expanded, Contents
<1> QED
    BY <1>3, <1>4, <1>5 DEF Condense, w

\* A reader's fields fit their widths.
LEMMA UncondenseType ==
    ASSUME NEW c \in Codecs, NEW w \in Contents
    PROVE  Uncondense(c, w) \in Fields
<1>1. CASE w.compacted
    <2>1. w.time \in CompactTimes /\ w.clock \in Clocks /\ w.salt \in Salts
        BY <1>1 DEF Contents
    <2>2. CalculateNode(c, w) \in Nodes /\ WindowStart(w.time) \in Times
        BY <2>1, CalculateNodeType, WindowStartType
    <2> QED
        BY <1>1, <2>1, <2>2 DEF Uncondense, RebuiltNode, RebuiltTime, Fields
<1>2. CASE ~w.compacted
    <2>1. w.time \in Times /\ w.clock \in Clocks /\ w.node \in Nodes
        BY <1>2 DEF Contents
    <2>2. Unbase(w.time) \in Times
        BY <2>1, RebaseType DEF Times
    <2> QED
        BY <1>2, <2>1, <2>2 DEF Uncondense, RebuiltNode, RebuiltTime, Fields
<1> QED
    BY <1>1, <1>2

\* The exact condition under which a wire gives its fields back: a real node's
\* time is not the initial tick, and a node that the reader would derive stands
\* on the start of a window.
LEMMA WireRoundTrip ==
    ASSUME NEW c \in Codecs, NEW f \in Fields
    PROVE  Uncondense(c, Condense(c, f)) = f
            <=> /\ f.node.mc \/ f.time # UUID_TIME_INITIAL
                /\ f.node = CalculateNode(c, CompactOf(f, f.node.salt))
                        => WindowStart(WindowOf(f.time)) = f.time
<1> DEFINE w == Condense(c, f)
           g == Uncondense(c, w)
<1>1. /\ f.time \in Times /\ f.clock \in Clocks /\ f.node \in Nodes /\ f.time \in Nat
      /\ f.node.salt \in Salts /\ f.node.mc \in BOOLEAN
    BY DEF Fields, Nodes, Times
<1>2. CASE /\ f.node = CalculateNode(c, CompactOf(f, f.node.salt))
           /\ f.node.mc
           /\ w = CompactOf(f, f.node.salt)
    <2>1. /\ g.time = WindowStart(WindowOf(f.time))
          /\ g.clock = ClockXor(f.clock, TickOf(f.time))
          /\ g.node = f.node
        BY <1>2 DEF Uncondense, RebuiltNode, RebuiltTime, CompactOf, Compact
    <2>2. g = [time |-> g.time, clock |-> g.clock, node |-> g.node]
        BY DEF Uncondense
    <2>3. f = [time |-> f.time, clock |-> f.clock, node |-> f.node]
        BY DEF Fields
    <2>4. WindowOf(f.time) \in CompactTimes
        BY <1>1, WindowType
    <2>5. ASSUME WindowStart(WindowOf(f.time)) = f.time
          PROVE  ClockXor(f.clock, TickOf(f.time)) = f.clock
        <3>1. TickOf(f.time) = 0
            BY <2>4, <2>5, WindowOfStart
        <3> QED
            BY <3>1, <1>1, XorAssumption, TimeSize
    <2> HIDE DEF g, w
    <2>6. g = f <=> WindowStart(WindowOf(f.time)) = f.time
        BY <2>1, <2>2, <2>3, <2>5
    <2> QED
        BY <1>2, <2>6 DEF g, w
<1>3. CASE /\ f.node # CalculateNode(c, CompactOf(f, f.node.salt))
           /\ w = Expanded(IF f.node.mc THEN f.time ELSE Rebase(f.time), f.clock, f.node)
    <2>1. CASE f.node.mc
        <3>1. g = f
            BY <1>3, <2>1 DEF Uncondense, RebuiltNode, RebuiltTime, Expanded, Fields
        <3> QED
            BY <1>3, <2>1, <3>1
    <2>2. CASE ~f.node.mc
        <3>1. g = [time |-> Unbase(Rebase(f.time)), clock |-> f.clock, node |-> f.node]
            BY <1>3, <2>2 DEF Uncondense, RebuiltNode, RebuiltTime, Expanded
        <3>2. f = [time |-> f.time, clock |-> f.clock, node |-> f.node]
            BY DEF Fields
        <3>3. UUID_TIME_INITIAL # 0
            <4>1. (CLOCK_SIZE * 0 + 0) % CLOCK_SIZE = 0 /\ CLOCK_SIZE * 0 + 0 = 0
                BY DivModUnique, WidthAssumption
            <4> QED
                BY <4>1, WidthAssumption
        <3>4. Unbase(Rebase(f.time)) = f.time <=> f.time # UUID_TIME_INITIAL
            BY <1>1, <3>3, UnbaseRebase
        <3> HIDE DEF g, w
        <3>5. g = f <=> f.time # UUID_TIME_INITIAL
            BY <3>1, <3>2, <3>4
        <3> QED
            BY <1>3, <2>2, <3>5 DEF g, w
    <2> QED
        BY <1>1, <2>1, <2>2
<1> QED
    BY <1>2, <1>3, CondenseCases
=============================================================================
