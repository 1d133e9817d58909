------------------------- MODULE CuuidObject_proofs -------------------------
(***************************************************************************)
(* The UUID class, for every width of a digit and of the variant in it:    *)
(* numbers and their digits, the fields in the 32 digits of an object, the *)
(* text, and the invariants of CuuidObject.                                *)
(***************************************************************************)
EXTENDS CuuidObject, NumberLemmas, SequenceTheorems, FiniteSetTheorems, TLAPS

-----------------------------------------------------------------------------
(* Powers of the base.                                                     *)

\* A digit has at least two values, which the variant and the clock divide.
LEMMA Bases ==
    /\ BASE \in Nat \ {0} /\ BASE >= 2
    /\ VARIANTS \in Nat \ {0} /\ VARIANTS >= 2
    /\ CLOCK_TOP \in Nat \ {0} /\ BASE = VARIANTS * CLOCK_TOP
    /\ RFC \in 1 .. VARIANTS - 1
    /\ V1 \in 1 .. BASE - 1 /\ V6 \in 1 .. BASE - 1 /\ V1 # V6
<1>1. BASE \in Nat \ {0} /\ VARIANTS \in Nat \ {0} /\ BASE % 2 = 0 /\ VARIANTS % 2 = 0
    BY LayoutAssumption
<1>2. BASE >= 2 /\ VARIANTS >= 2 /\ RFC \in 1 .. VARIANTS - 1
    BY <1>1 DEF RFC
<1>3. CLOCK_TOP \in Int /\ BASE = VARIANTS * CLOCK_TOP
    <2>1. BASE % VARIANTS = 0 /\ BASE \in Int
        BY LayoutAssumption
    <2> QED
        BY <1>1, <2>1, DivMod DEF CLOCK_TOP
<1>4. CLOCK_TOP > 0
    <2>1. SUFFICES ASSUME CLOCK_TOP <= 0
                   PROVE  FALSE
        BY <1>3
    <2>2. VARIANTS * CLOCK_TOP <= 0
        BY <2>1, <1>1, <1>3
    <2> QED
        BY <2>2, <1>1, <1>3
<1> QED
    BY <1>1, <1>2, <1>3, <1>4, LayoutAssumption

\* The powers of the base, one from the other.
LEMMA Powers ==
    /\ Power \in [0 .. 16 -> Nat \ {0}]
    /\ Power[0] = 1
    /\ \A k \in 1 .. 16 : Power[k] = Power[k - 1] * BASE
<1> DEFINE Body(f) == [k \in 0 .. 16 |-> IF k = 0 THEN 1 ELSE f[k - 1] * BASE]
           S == Nat \ {0}
           step == [k \in 1 .. 16 |-> [x \in S |-> x * BASE]]
<1>1. \E f : Runs(f, 16, S, 1, step)
    <2>1. BASE \in Nat \ {0}
        BY Bases
    <2>2. step \in [1 .. 16 -> [S -> S]]
        BY <2>1, ProductPositive
    <2>3. 16 \in Nat /\ 1 \in S
        OBVIOUS
    <2> HIDE DEF step, S
    <2> QED
        BY <2>2, <2>3, Recursion
<1>2. PICK f : Runs(f, 16, S, 1, step)
    BY <1>1
<1>3. f = Body(f)
    <2>1. f \in [0 .. 16 -> S] /\ f[0] = 1
        BY <1>2 DEF Runs
    <2>2. \A k \in 1 .. 16 : f[k - 1] \in S /\ f[k] = step[k][f[k - 1]]
        BY <1>2 DEF Runs
    <2>3. \A k \in 1 .. 16 : f[k] = f[k - 1] * BASE
        BY <2>2
    <2> QED
        BY <2>1, <2>3
<1>4. Power = CHOOSE g : g = Body(g)
    BY DEF Power
<1>5. Power = Body(Power)
    BY <1>3, <1>4
<1>6. /\ Power = [k \in 0 .. 16 |-> Power[k]]
      /\ Power[0] = 1
      /\ \A k \in 1 .. 16 : Power[k] = Power[k - 1] * BASE
    <2>1. \A k \in 0 .. 16 : Power[k] = IF k = 0 THEN 1 ELSE Power[k - 1] * BASE
        BY <1>5, Zenon
    <2>2. Power = [k \in 0 .. 16 |-> Power[k]]
        BY <1>5, Zenon
    <2>3. 0 \in 0 .. 16 /\ \A k \in 1 .. 16 : k \in 0 .. 16 /\ k # 0
        OBVIOUS
    <2> QED
        BY <2>1, <2>2, <2>3, Zenon
<1>7. \A k \in 0 .. 16 : Power[k] \in Nat \ {0}
    <2> DEFINE T == { k \in 0 .. 16 : Power[k] \in Nat \ {0} }
    <2>1. 16 \in Nat /\ 0 \in T
        BY <1>6
    <2>2. ASSUME NEW k \in 0 .. 16 - 1, k \in T
          PROVE  k + 1 \in T
        <3>1. k + 1 \in 1 .. 16 /\ k + 1 - 1 = k /\ k + 1 \in 0 .. 16
            OBVIOUS
        <3>2. Power[k + 1] = Power[k] * BASE /\ Power[k] \in Nat \ {0} /\ BASE \in Nat \ {0}
            BY <1>6, <2>2, <3>1, Bases
        <3>3. Power[k + 1] \in Nat \ {0}
            BY <3>2, ProductPositive
        <3> QED
            BY <3>1, <3>3
    <2>3. 0 .. 16 \subseteq T
        <3> HIDE DEF T
        <3> QED
            BY <2>1, <2>2, Upwards
    <2> QED
        BY <2>3
<1> QED
    BY <1>6, <1>7

\* Powers of one base add up.
LEMMA PowersMultiply ==
    ASSUME NEW i \in 0 .. 16, NEW j \in 0 .. 16 - i
    PROVE  Power[i + j] = Power[i] * Power[j]
<1> DEFINE n == 16 - i
           T == { k \in 0 .. n : Power[i + k] = Power[i] * Power[k] }
<1>1. n \in Nat /\ 0 \in T
    BY Powers
<1>2. ASSUME NEW k \in 0 .. n - 1, k \in T
      PROVE  k + 1 \in T
    <2>1. k + 1 \in 1 .. 16 /\ i + k + 1 \in 1 .. 16 /\ k \in 0 .. 16 /\ k + 1 - 1 = k
          /\ i + k + 1 - 1 = i + k /\ i + (k + 1) = i + k + 1 /\ k + 1 \in 0 .. n
        OBVIOUS
    <2>2. /\ Power[k + 1] = Power[k] * BASE
          /\ Power[i + k + 1] = (Power[i] * Power[k]) * BASE
        BY <1>2, <2>1, Powers
    <2>3. Power[i] \in Nat /\ Power[k] \in Nat /\ BASE \in Nat
        BY <2>1, Powers, Bases
    <2>4. (Power[i] * Power[k]) * BASE = Power[i] * (Power[k] * BASE)
        BY <2>3
    <2> QED
        BY <2>1, <2>2, <2>4
<1>3. 0 .. n \subseteq T
    <2> HIDE DEF T, n
    <2> QED
        BY <1>1, <1>2, Upwards
<1> QED
    BY <1>3

-----------------------------------------------------------------------------
(* Numbers and their digits.                                               *)

\* n digits.
Word(n) == [1 .. n -> Digit]

\* The numbers the first digits of a word make, one from the other.
ValuesTo(f, d, n) ==
    /\ f \in [0 .. n -> Nat]
    /\ f[0] = 0
    /\ \A i \in 1 .. n : f[i] = f[i - 1] * BASE + d[i]

\* A word is a sequence of its digits.
LEMMA WordIsSeq ==
    ASSUME NEW n \in Nat, NEW S, NEW d \in [1 .. n -> S]
    PROVE  d \in Seq(S) /\ Len(d) = n
OBVIOUS

\* Value goes over the digits from the first one on.
LEMMA ValueIs ==
    ASSUME NEW n \in Nat, NEW d \in Word(n)
    PROVE  \E f : ValuesTo(f, d, n) /\ Value(d) = f[n]
<1> DEFINE Body(f) == [k \in 0 .. n |-> IF k = 0 THEN 0 ELSE f[k - 1] * BASE + d[k]]
           step == [k \in 1 .. n |-> [x \in Nat |-> x * BASE + d[k]]]
<1>1. BASE \in Nat /\ \A k \in 1 .. n : d[k] \in Nat
    BY Bases DEF Word, Digit
<1>2. \E f : Runs(f, n, Nat, 0, step)
    <2>1. \A k \in 1 .. n, x \in Nat : x * BASE + d[k] \in Nat
        BY <1>1
    <2>2. step \in [1 .. n -> [Nat -> Nat]]
        BY <2>1
    <2>3. 0 \in Nat
        OBVIOUS
    <2> HIDE DEF step
    <2> QED
        BY <2>2, <2>3, Recursion
<1>3. PICK f : Runs(f, n, Nat, 0, step)
    BY <1>2
<1>4. ValuesTo(f, d, n)
    <2>1. f \in [0 .. n -> Nat] /\ f[0] = 0
        BY <1>3 DEF Runs
    <2>2. \A k \in 1 .. n : f[k - 1] \in Nat /\ f[k] = step[k][f[k - 1]]
        BY <1>3 DEF Runs
    <2>3. \A k \in 1 .. n : f[k] = f[k - 1] * BASE + d[k]
        BY <2>2
    <2> QED
        BY <2>1, <2>3 DEF ValuesTo
<1>5. f = Body(f)
    BY <1>4 DEF ValuesTo
<1> DEFINE g == CHOOSE h : h = Body(h)
<1>6. g = Body(g)
    BY <1>5
<1>7. Value(d) = g[n]
    <2>1. Len(d) = n
        BY WordIsSeq DEF Word
    <2> QED
        BY <2>1 DEF Value
<1> HIDE DEF g
<1>8. \A k \in 0 .. n : g[k] = IF k = 0 THEN 0 ELSE g[k - 1] * BASE + d[k]
    BY <1>6, Zenon
<1>9. \A k \in 0 .. n : g[k] = f[k]
    <2> DEFINE T == { k \in 0 .. n : g[k] = f[k] }
    <2>1. 0 \in T
        BY <1>4, <1>8 DEF ValuesTo
    <2>2. ASSUME NEW k \in 0 .. n - 1, k \in T
          PROVE  k + 1 \in T
        <3>1. k + 1 \in 1 .. n /\ k + 1 - 1 = k /\ k + 1 \in 0 .. n /\ k + 1 # 0
            OBVIOUS
        <3>2. g[k + 1] = g[k] * BASE + d[k + 1] /\ f[k + 1] = f[k] * BASE + d[k + 1]
            BY <1>4, <1>8, <3>1 DEF ValuesTo
        <3> QED
            BY <2>2, <3>1, <3>2
    <2>3. 0 .. n \subseteq T
        <3> HIDE DEF T
        <3> QED
            BY <2>1, <2>2, Upwards
    <2> QED
        BY <2>3
<1> QED
    BY <1>4, <1>7, <1>9

\* A step of a word's value.
LEMMA PrefixStep ==
    ASSUME NEW n \in Nat, NEW d \in Word(n), NEW f, ValuesTo(f, d, n), NEW k \in 0 .. n - 1
    PROVE  /\ f[k] \in Nat /\ f[k + 1] \in Nat
           /\ d[k + 1] \in Digit
           /\ f[k + 1] = f[k] * BASE + d[k + 1]
           /\ f[k + 1] \div BASE = f[k] /\ f[k + 1] % BASE = d[k + 1]
<1>1. k + 1 \in 1 .. n /\ k + 1 - 1 = k /\ k \in 0 .. n /\ k + 1 \in 0 .. n
    OBVIOUS
<1>2. /\ f[k] \in Nat /\ f[k + 1] \in Nat
      /\ f[k + 1] = f[k] * BASE + d[k + 1] /\ d[k + 1] \in 0 .. BASE - 1
      /\ BASE \in Nat \ {0}
    BY <1>1, Bases DEF ValuesTo, Word, Digit
<1>3. f[k + 1] = BASE * f[k] + d[k + 1]
    BY <1>2
<1>4. \A q \in Int, r \in 0 .. BASE - 1 : (BASE * q + r) \div BASE = q /\ (BASE * q + r) % BASE = r
    BY Bases, DivModUnique
<1>5. f[k] \in Int
    BY <1>2
<1>6. (BASE * f[k] + d[k + 1]) \div BASE = f[k] /\ (BASE * f[k] + d[k + 1]) % BASE = d[k + 1]
    BY <1>2, <1>4, <1>5, Zenon
<1> QED
    BY <1>2, <1>3, <1>6 DEF Digit

\* A word of n digits counts less than the n-th power.
LEMMA ValueType ==
    ASSUME NEW n \in 0 .. 16, NEW d \in Word(n)
    PROVE  Value(d) \in 0 .. Power[n] - 1
<1>1. PICK f : ValuesTo(f, d, n) /\ Value(d) = f[n]
    BY ValueIs
<1> DEFINE T == { k \in 0 .. n : f[k] \in 0 .. Power[k] - 1 }
<1>2. n \in Nat /\ 0 \in T
    <2>1. f[0] = 0 /\ Power[0] = 1 /\ 0 \in 0 .. 1 - 1 /\ 0 \in 0 .. n /\ n \in Nat
        BY <1>1, Powers DEF ValuesTo
    <2> QED
        BY <2>1, Zenon
<1>3. ASSUME NEW k \in 0 .. n - 1, k \in T
      PROVE  k + 1 \in T
    <2>1. k + 1 \in 1 .. 16 /\ k + 1 - 1 = k /\ k \in 0 .. 16 /\ k + 1 \in 0 .. n
        OBVIOUS
    <2>2. /\ f[k] \in 0 .. Power[k] - 1 /\ f[k + 1] \in Nat
          /\ f[k + 1] = f[k] * BASE + d[k + 1] /\ d[k + 1] \in 0 .. BASE - 1
        BY <1>1, <1>2, <1>3, PrefixStep DEF Digit
    <2>3. Power[k + 1] = Power[k] * BASE /\ Power[k] \in Nat /\ Power[k + 1] \in Nat /\ BASE \in Nat
        BY <2>1, Powers, Bases
    <2>4. \A b, p \in Nat : \A x \in 0 .. p - 1, c \in 0 .. b - 1 : x * b + c < p * b
        <3> SUFFICES ASSUME NEW b \in Nat, NEW p \in Nat, NEW x \in 0 .. p - 1, NEW c \in 0 .. b - 1
                     PROVE  x * b + c < p * b
            OBVIOUS
        <3>1. x * b <= (p - 1) * b /\ (p - 1) * b = p * b - b
            OBVIOUS
        <3>2. x * b \in Int /\ p * b \in Int
            OBVIOUS
        <3> QED
            BY <3>1, <3>2
    <2>5. f[k + 1] < Power[k + 1]
        BY <2>2, <2>3, <2>4, Zenon
    <2> QED
        BY <2>1, <2>2, <2>3, <2>5
<1>4. 0 .. n \subseteq T
    <2> HIDE DEF T
    <2> QED
        BY <1>2, <1>3, Upwards
<1> QED
    BY <1>1, <1>4

\* Digits gives k digits, which are those of the number below the k-th power.
LEMMA DigitsType ==
    ASSUME NEW k \in 0 .. 16, NEW m \in Nat
    PROVE  Digits(m, k) \in Word(k)
<1>1. ASSUME NEW i \in 1 .. k
      PROVE  (m \div Power[k - i]) % BASE \in Digit
    <2>1. Power[k - i] \in Nat \ {0} /\ BASE \in Nat \ {0}
        BY Powers, Bases
    <2>2. m \div Power[k - i] \in Int
        BY <2>1, DivMod
    <2> QED
        BY <2>1, <2>2, DivMod DEF Digit
<1> QED
    BY <1>1 DEF Digits, Word

\* Taking a number apart and putting it together cuts it to its low digits, as
\* the masks of the setters do.
LEMMA ValueOfDigits ==
    ASSUME NEW k \in 0 .. 16, NEW m \in Nat
    PROVE  Value(Digits(m, k)) = m % Power[k]
<1> DEFINE d == Digits(m, k)
<1>1. d \in Word(k) /\ k \in Nat
    BY DigitsType
<1>2. PICK f : ValuesTo(f, d, k) /\ Value(d) = f[k]
    BY <1>1, ValueIs
<1> DEFINE T == { i \in 0 .. k : f[i] = (m \div Power[k - i]) % Power[i] }
<1>3. 0 \in T
    <2>1. Power[k] \in Nat \ {0} /\ Power[0] = 1 /\ k - 0 = k
        BY Powers
    <2>2. m \div Power[k] \in Int
        <3>1. \A p \in Nat \ {0} : m \div p \in Int
            BY DivMod
        <3> QED
            BY <2>1, <3>1, Zenon
    <2>3. (m \div Power[k]) % 1 \in 0 .. 1 - 1
        BY <2>2, DivMod
    <2>4. (m \div Power[k - 0]) % Power[0] = 0
        BY <2>1, <2>3
    <2>5. f[0] = 0 /\ 0 \in 0 .. k
        BY <1>1, <1>2 DEF ValuesTo
    <2> HIDE DEF d
    <2> QED
        BY <2>4, <2>5
<1>4. ASSUME NEW i \in 0 .. k - 1, i \in T
      PROVE  i + 1 \in T
    <2> DEFINE a == m \div Power[k - (i + 1)]
    <2>1. /\ i + 1 \in 1 .. k /\ i + 1 - 1 = i /\ i + 1 \in 0 .. k /\ i \in 0 .. k
          /\ k - (i + 1) \in 0 .. 16 /\ k - i \in 1 .. 16 /\ k - i - 1 = k - (i + 1)
          /\ i + 1 \in 1 .. 16 /\ i \in 0 .. 16
        OBVIOUS
    <2>2. /\ Power[k - i] = Power[k - (i + 1)] * BASE
          /\ Power[i + 1] = Power[i] * BASE
          /\ Power[k - (i + 1)] \in Nat \ {0} /\ Power[i] \in Nat \ {0} /\ BASE \in Nat \ {0}
        BY <2>1, Powers, Bases
    <2>3. a \in Nat /\ a \div BASE = m \div Power[k - i]
        <3>1. (m \div Power[k - (i + 1)]) \div BASE = m \div (Power[k - (i + 1)] * BASE)
            BY <2>2, DivDiv, Zenon
        <3>2. a \in Nat
            BY <2>2, DivNat
        <3> QED
            BY <2>2, <3>1, <3>2, Zenon
    <2>4. f[i] = (a \div BASE) % Power[i]
        BY <1>4, <2>3
    <2>5. f[i + 1] = f[i] * BASE + d[i + 1]
        BY <1>1, <1>2, PrefixStep
    <2>6. d[i + 1] = a % BASE
        BY <2>1 DEF Digits
    <2> HIDE DEF a, d
    <2>7. ((a \div BASE) % Power[i]) * BASE + (a % BASE) = a % (BASE * Power[i])
        BY <2>2, <2>3, ModDigit, Zenon
    <2>8. BASE * Power[i] = Power[i + 1]
        BY <2>2
    <2>9. f[i + 1] = a % Power[i + 1]
        BY <2>4, <2>5, <2>6, <2>7, <2>8
    <2> QED
        BY <2>1, <2>9 DEF a
<1>5. 0 .. k \subseteq T
    <2> HIDE DEF T
    <2> QED
        BY <1>1, <1>3, <1>4, Upwards
<1>6. f[k] = (m \div Power[k - k]) % Power[k]
    BY <1>1, <1>5
<1>7. m \div Power[k - k] = m
    <2>1. k - k = 0 /\ Power[0] = 1
        BY Powers
    <2>2. m \in Int /\ 1 \in Nat \ {0} /\ 0 \in 0 .. 1 - 1 /\ 1 * m + 0 = m
        OBVIOUS
    <2>3. (1 * m + 0) \div 1 = m
        BY <2>2, DivModUnique
    <2> QED
        BY <2>1, <2>2, <2>3
<1> QED
    BY <1>2, <1>6, <1>7

\* And a word is the digits of its value.
LEMMA DigitsOfValue ==
    ASSUME NEW n \in 0 .. 16, NEW d \in Word(n)
    PROVE  Digits(Value(d), n) = d
<1>1. PICK f : ValuesTo(f, d, n) /\ Value(d) = f[n]
    BY ValueIs
<1> DEFINE v == Value(d)
           T == { j \in 0 .. n : v \div Power[j] = f[n - j] }
<1>2. n \in Nat /\ v \in Nat
    BY ValueType, Powers
<1> HIDE DEF v
<1>3. 0 \in T
    <2>1. Power[0] = 1 /\ n - 0 = n
        BY Powers
    <2>2. v \in Int /\ 1 \in Nat \ {0} /\ 0 \in 0 .. 1 - 1 /\ 1 * v + 0 = v
        BY <1>2
    <2>3. (1 * v + 0) \div 1 = v
        BY <2>2, DivModUnique
    <2> QED
        BY <1>1, <2>1, <2>2, <2>3 DEF v
<1>4. ASSUME NEW j \in 0 .. n - 1, j \in T
      PROVE  j + 1 \in T
    <2>1. /\ j + 1 \in 1 .. 16 /\ j + 1 - 1 = j /\ j \in 0 .. 16 /\ j + 1 \in 0 .. n
          /\ n - (j + 1) \in 0 .. n - 1 /\ n - (j + 1) + 1 = n - j
        OBVIOUS
    <2>2. Power[j + 1] = Power[j] * BASE /\ Power[j] \in Nat \ {0} /\ BASE \in Nat \ {0}
        BY <2>1, Powers, Bases
    <2>3. v \div Power[j + 1] = (v \div Power[j]) \div BASE
        <3>1. (v \div Power[j]) \div BASE = v \div (Power[j] * BASE)
            BY <1>2, <2>2, DivDiv, Zenon
        <3> QED
            BY <2>2, <3>1, Zenon
    <2>4. f[n - j] \div BASE = f[n - (j + 1)]
        BY <1>1, <1>2, <2>1, PrefixStep
    <2> QED
        BY <1>4, <2>1, <2>3, <2>4
<1>5. 0 .. n \subseteq T
    <2> HIDE DEF T
    <2> QED
        BY <1>2, <1>3, <1>4, Upwards
<1>6. ASSUME NEW i \in 1 .. n
      PROVE  (v \div Power[n - i]) % BASE = d[i]
    <2>1. /\ n - i \in 0 .. n /\ n - (n - i) = i /\ i - 1 \in 0 .. n - 1 /\ i - 1 + 1 = i
        OBVIOUS
    <2>2. v \div Power[n - i] = f[i]
        BY <1>5, <2>1
    <2>3. f[i] % BASE = d[i]
        BY <1>1, <1>2, <2>1, PrefixStep
    <2> QED
        BY <2>2, <2>3
<1>7. d = [i \in 1 .. n |-> d[i]]
    BY DEF Word
<1> QED
    BY <1>6, <1>7 DEF Digits, v

\* r is s, m long, with t behind it, n long; r is s from a to b.
Joined(r, s, t, m, n, S) ==
    /\ r \in [1 .. m + n -> S]
    /\ \A i \in 1 .. m : r[i] = s[i]
    /\ \A i \in m + 1 .. m + n : r[i] = t[i - m]

Parted(r, s, a, b, S) ==
    /\ r \in [1 .. b - a + 1 -> S]
    /\ \A i \in 1 .. b - a + 1 : r[i] = s[a + i - 1]

\* Words are joined and cut like sequences of anything.
LEMMA Join ==
    ASSUME NEW m \in Nat, NEW n \in Nat, NEW S, NEW s \in [1 .. m -> S], NEW t \in [1 .. n -> S]
    PROVE  Joined(s \o t, s, t, m, n, S)
<1>1. s \in Seq(S) /\ Len(s) = m /\ t \in Seq(S) /\ Len(t) = n
    BY WordIsSeq
<1> DEFINE r == s \o t
<1>2. /\ r \in Seq(S) /\ Len(r) = m + n
      /\ \A i \in 1 .. m + n : r[i] = IF i <= m THEN s[i] ELSE t[i - m]
    BY <1>1, ConcatProperties
<1> HIDE DEF r
<1>3. r \in [1 .. m + n -> S]
    BY <1>2, LenProperties
<1>4. ASSUME NEW i \in 1 .. m
      PROVE  r[i] = s[i]
    BY <1>2
<1>5. ASSUME NEW i \in m + 1 .. m + n
      PROVE  r[i] = t[i - m]
    <2>1. i \in 1 .. m + n /\ ~(i <= m)
        OBVIOUS
    <2> QED
        BY <1>2, <2>1
<1> QED
    BY <1>3, <1>4, <1>5 DEF r, Joined

\* A part of a word is a word.
LEMMA Part ==
    ASSUME NEW n \in Nat, NEW S, NEW s \in [1 .. n -> S],
           NEW a \in 1 .. n + 1, NEW b \in a - 1 .. n
    PROVE  Parted(SubSeq(s, a, b), s, a, b, S)
<1> DEFINE r == SubSeq(s, a, b)
<1>1. a \in Int /\ b \in Int /\ \A i \in a .. b : s[i] \in S
    OBVIOUS
<1>2. /\ r \in Seq(S) /\ Len(r) = IF a <= b THEN b - a + 1 ELSE 0
      /\ \A i \in 1 .. b - a + 1 : r[i] = s[a + i - 1]
    BY <1>1, SubSeqProperties
<1> HIDE DEF r
<1>3. Len(r) = b - a + 1
    BY <1>2
<1>4. r \in [1 .. b - a + 1 -> S]
    BY <1>2, <1>3, LenProperties
<1> QED
    BY <1>2, <1>4 DEF r, Parted

\* The value of a word from those of its two parts.
LEMMA ValueOfJoin ==
    ASSUME NEW m \in 0 .. 16, NEW n \in 0 .. 16 - m, NEW a \in Word(m), NEW b \in Word(n)
    PROVE  /\ a \o b \in Word(m + n)
           /\ Value(a \o b) = Value(a) * Power[n] + Value(b)
<1> DEFINE d == a \o b
<1>1. m \in Nat /\ n \in Nat /\ m + n \in Nat /\ n \in 0 .. 16
    OBVIOUS
<1>2. /\ d \in Word(m + n)
      /\ \A i \in 1 .. m : d[i] = a[i]
      /\ \A i \in 1 .. n : d[m + i] = b[i]
    <2>1. a \in [1 .. m -> Digit] /\ b \in [1 .. n -> Digit]
        BY DEF Word
    <2>2. Joined(d, a, b, m, n, Digit)
        BY <1>1, <2>1, Join
    <2> HIDE DEF d
    <2>3. \A i \in 1 .. n : m + i \in m + 1 .. m + n /\ m + i - m = i
        BY <1>1
    <2>4. \A i \in 1 .. n : d[m + i] = b[i]
        BY <2>2, <2>3 DEF Joined
    <2> QED
        BY <2>2, <2>4 DEF Word, Joined
<1> HIDE DEF d
<1>3. PICK f : ValuesTo(f, d, m + n) /\ Value(d) = f[m + n]
    BY <1>1, <1>2, ValueIs
<1>4. PICK g : ValuesTo(g, a, m) /\ Value(a) = g[m]
    BY <1>1, ValueIs
<1>5. PICK h : ValuesTo(h, b, n) /\ Value(b) = h[n]
    BY <1>1, ValueIs
<1>6. f[m] = g[m]
    <2> DEFINE T == { i \in 0 .. m : f[i] = g[i] }
    <2>1. 0 \in T
        BY <1>1, <1>3, <1>4 DEF ValuesTo
    <2>2. ASSUME NEW i \in 0 .. m - 1, i \in T
          PROVE  i + 1 \in T
        <3>1. i \in 0 .. m + n - 1 /\ i + 1 \in 1 .. m /\ i + 1 \in 0 .. m
            BY <1>1
        <3>2. f[i + 1] = f[i] * BASE + d[i + 1]
            <4> DEFINE mn == m + n
            <4> HIDE DEF mn
            <4>1. mn \in Nat /\ d \in Word(mn) /\ ValuesTo(f, d, mn) /\ i \in 0 .. mn - 1
                BY <1>1, <1>2, <1>3, <3>1 DEF mn
            <4> QED
                BY <4>1, PrefixStep
        <3>3. g[i + 1] = g[i] * BASE + a[i + 1]
            BY <1>1, <1>4, PrefixStep
        <3> QED
            BY <1>2, <2>2, <3>1, <3>2, <3>3
    <2>3. 0 .. m \subseteq T
        <3> HIDE DEF T
        <3> QED
            BY <1>1, <2>1, <2>2, Upwards
    <2> QED
        BY <1>1, <2>3
<1>7. f[m + n] = g[m] * Power[n] + h[n]
    <2> DEFINE T == { j \in 0 .. n : f[m + j] = g[m] * Power[j] + h[j] }
    <2>1. 0 \in T
        <3>1. h[0] = 0 /\ Power[0] = 1 /\ g[m] \in Nat /\ m + 0 = m /\ 0 \in 0 .. n
            BY <1>1, <1>4, <1>5, Powers DEF ValuesTo
        <3>2. g[m] * 1 + 0 = g[m]
            BY <3>1
        <3> QED
            BY <1>6, <3>1, <3>2
    <2>2. ASSUME NEW j \in 0 .. n - 1, j \in T
          PROVE  j + 1 \in T
        <3>1. /\ m + j \in 0 .. m + n - 1 /\ m + j + 1 = m + (j + 1)
              /\ j + 1 \in 1 .. n /\ j + 1 \in 0 .. n /\ j \in 0 .. n
              /\ j + 1 \in 1 .. 16 /\ j + 1 - 1 = j /\ j \in 0 .. 16
            BY <1>1
        <3>2. f[m + j + 1] = f[m + j] * BASE + d[m + j + 1]
            <4> DEFINE mn == m + n
                       mj == m + j
            <4> HIDE DEF mn, mj
            <4>1. mn \in Nat /\ d \in Word(mn) /\ ValuesTo(f, d, mn) /\ mj \in 0 .. mn - 1
                BY <1>1, <1>2, <1>3, <3>1 DEF mn, mj
            <4>2. f[mj + 1] = f[mj] * BASE + d[mj + 1]
                BY <4>1, PrefixStep
            <4> QED
                BY <4>2 DEF mj
        <3>3. h[j + 1] = h[j] * BASE + b[j + 1] /\ h[j] \in Nat /\ b[j + 1] \in Digit
            BY <1>1, <1>5, <3>1, PrefixStep, Zenon
        <3>4. Power[j + 1] = Power[j] * BASE /\ Power[j] \in Nat /\ BASE \in Nat /\ g[m] \in Nat
            <4>1. m \in 0 .. m
                BY <1>1
            <4>2. g[m] \in Nat
                BY <1>4, <4>1 DEF ValuesTo
            <4> QED
                BY <3>1, <4>2, Powers, Bases
        <3>5. d[m + j + 1] = b[j + 1]
            BY <1>2, <3>1
        <3>6. f[m + (j + 1)] = (g[m] * Power[j] + h[j]) * BASE + b[j + 1]
            BY <2>2, <3>1, <3>2, <3>5
        <3>7. b[j + 1] \in Nat
            BY <3>3, Bases DEF Digit
        <3>8. (g[m] * Power[j] + h[j]) * BASE + b[j + 1]
                = g[m] * (Power[j] * BASE) + (h[j] * BASE + b[j + 1])
            <4> DEFINE x == g[m]
                       y == Power[j]
                       q == h[j]
                       c == b[j + 1]
            <4>1. x \in Nat /\ y \in Nat /\ q \in Nat /\ c \in Nat /\ BASE \in Nat
                BY <3>3, <3>4, <3>7
            <4> HIDE DEF x, y, q, c
            <4>2. (x * y + q) * BASE + c = x * (y * BASE) + (q * BASE + c)
                BY <4>1
            <4> QED
                BY <4>2 DEF x, y, q, c
        <3> QED
            BY <3>1, <3>3, <3>4, <3>6, <3>8
    <2>3. 0 .. n \subseteq T
        <3> HIDE DEF T
        <3> QED
            BY <1>1, <2>1, <2>2, Upwards
    <2> QED
        BY <1>1, <2>3
<1> QED
    BY <1>2, <1>3, <1>4, <1>5, <1>7 DEF d

\* One digit is its value.
LEMMA ValueOfOne ==
    ASSUME NEW x \in Digit
    PROVE  <<x>> \in Word(1) /\ Value(<<x>>) = x
<1>1. <<x>> \in Word(1) /\ <<x>>[1] = x
    BY DEF Word
<1>2. PICK f : ValuesTo(f, <<x>>, 1) /\ Value(<<x>>) = f[1]
    BY <1>1, ValueIs
<1>3. f[0 + 1] = f[0] * BASE + <<x>>[0 + 1] /\ f[0] = 0 /\ BASE \in Nat /\ x \in Nat
    BY <1>1, <1>2, PrefixStep, Bases DEF ValuesTo, Digit
<1>4. 0 + 1 = 1 /\ 0 * BASE + x = x
    BY <1>3
<1> QED
    BY <1>1, <1>2, <1>3, <1>4

\* Of two words of one length, the one of less value is the lexicographically
\* first.
LEMMA ValueOrder ==
    ASSUME NEW n \in Nat, NEW d \in Word(n), NEW e \in Word(n), Value(d) < Value(e)
    PROVE  \E k \in 1 .. n : d[k] < e[k] /\ \A i \in 1 .. k - 1 : d[i] = e[i]
<1>1. PICK f : ValuesTo(f, d, n) /\ Value(d) = f[n]
    BY ValueIs
<1>2. PICK g : ValuesTo(g, e, n) /\ Value(e) = g[n]
    BY ValueIs
<1> DEFINE Differ(j) == \E k \in 1 .. j : d[k] < e[k] /\ \A i \in 1 .. k - 1 : d[i] = e[i]
           T == { j \in 0 .. n :
                    \/ f[j] = g[j] /\ \A i \in 1 .. j : d[i] = e[i]
                    \/ Differ(j)
                    \/ g[j] < f[j] }
<1>3. 0 \in T
    BY <1>1, <1>2 DEF ValuesTo
<1>4. ASSUME NEW j \in 0 .. n - 1, j \in T
      PROVE  j + 1 \in T
    <2>1. /\ f[j] \in Nat /\ d[j + 1] \in 0 .. BASE - 1
          /\ f[j + 1] = f[j] * BASE + d[j + 1]
        BY <1>1, PrefixStep DEF Digit
    <2>2. /\ g[j] \in Nat /\ e[j + 1] \in 0 .. BASE - 1
          /\ g[j + 1] = g[j] * BASE + e[j + 1]
        BY <1>2, PrefixStep DEF Digit
    <2>3. BASE \in Nat
        BY Bases
    <2>4. CASE g[j] < f[j]
        <3>1. \A x, y, b \in Nat : y < x => x * b >= y * b + b
            <4> SUFFICES ASSUME NEW x \in Nat, NEW y \in Nat, NEW b \in Nat, y < x
                         PROVE  x * b >= y * b + b
                OBVIOUS
            <4>1. x * b >= (y + 1) * b /\ (y + 1) * b = y * b + b
                OBVIOUS
            <4> QED
                BY <4>1
        <3>2. f[j] * BASE >= g[j] * BASE + BASE
            BY <2>1, <2>2, <2>3, <2>4, <3>1, Zenon
        <3>3. f[j] * BASE \in Int /\ g[j] * BASE \in Int
            BY <2>1, <2>2, <2>3
        <3>4. g[j + 1] < f[j + 1]
            BY <2>1, <2>2, <2>3, <3>2, <3>3
        <3> QED
            BY <3>4
    <2>5. CASE Differ(j)
        <3>1. 1 .. j \subseteq 1 .. j + 1
            OBVIOUS
        <3>2. Differ(j + 1)
            BY <2>5, <3>1, Zenon
        <3> QED
            BY <3>2
    <2>6. CASE f[j] = g[j] /\ \A i \in 1 .. j : d[i] = e[i]
        <3> DEFINE x == f[j] * BASE
        <3>1. x \in Int /\ f[j + 1] = x + d[j + 1] /\ g[j + 1] = x + e[j + 1]
            BY <2>1, <2>2, <2>3, <2>6
        <3> HIDE DEF x
        <3>2. CASE d[j + 1] = e[j + 1]
            <4>1. f[j + 1] = g[j + 1] /\ \A i \in 1 .. j + 1 : d[i] = e[i]
                BY <2>6, <3>1, <3>2
            <4> QED
                BY <4>1
        <3>3. CASE e[j + 1] < d[j + 1]
            BY <2>1, <2>2, <3>1, <3>3
        <3>4. CASE d[j + 1] < e[j + 1]
            <4>1. j + 1 \in 1 .. j + 1 /\ j + 1 - 1 = j
                OBVIOUS
            <4>2. Differ(j + 1)
                BY <2>6, <3>4, <4>1
            <4> QED
                BY <4>2
        <3> QED
            BY <2>1, <2>2, <3>2, <3>3, <3>4
    <2> QED
        BY <1>4, <2>4, <2>5, <2>6
<1>5. 0 .. n \subseteq T
    <2> HIDE DEF T
    <2> QED
        BY <1>3, <1>4, Upwards
<1>6. n \in T
    BY <1>5
<1>7. f[n] \in Nat /\ g[n] \in Nat
    BY <1>1, <1>2 DEF ValuesTo
<1> QED
    BY <1>1, <1>2, <1>6, <1>7

-----------------------------------------------------------------------------
(* Where the fields stand in the 32 digits.                                *)

\* The digits of a time in v1's order, in v6's order, of a clock sequence and
\* of a node stand in u.
InV1(u, d) ==
    /\ d \in Word(15)
    /\ \A i \in 1 .. 3 : u[13 + i] = d[i]
    /\ \A i \in 4 .. 7 : u[5 + i] = d[i]
    /\ \A i \in 8 .. 15 : u[i - 7] = d[i]

InV6(u, d) ==
    /\ d \in Word(15)
    /\ \A i \in 1 .. 12 : u[i] = d[i]
    /\ \A i \in 13 .. 15 : u[i + 1] = d[i]

InClock(u, d) ==
    /\ d \in Word(4)
    /\ u[17] % CLOCK_TOP = d[1]
    /\ \A i \in 2 .. 4 : u[16 + i] = d[i]

InNode(u, d) ==
    /\ d \in Word(12)
    /\ \A i \in 1 .. 12 : u[20 + i] = d[i]

\* A part of a word.
LEMMA PartOfWord ==
    ASSUME NEW n \in Nat, NEW s \in Word(n), NEW a \in 1 .. n, NEW b \in a .. n
    PROVE  Parted(SubSeq(s, a, b), s, a, b, Digit)
<1>1. s \in [1 .. n -> Digit] /\ a \in 1 .. n + 1 /\ b \in a - 1 .. n
    BY DEF Word
<1> QED
    BY <1>1, Part

\* Joined words are a word.
LEMMA JoinWords ==
    ASSUME NEW m \in Nat, NEW n \in Nat, NEW s \in Word(m), NEW t \in Word(n)
    PROVE  Joined(s \o t, s, t, m, n, Digit)
BY Join DEF Word

\* The digit that the variant and the top of the clock share.
LEMMA SharedDigit ==
    ASSUME NEW u \in UUIDs
    PROVE  /\ u[17] % CLOCK_TOP \in 0 .. CLOCK_TOP - 1
           /\ u[17] % CLOCK_TOP \in Digit
           /\ uuid_variant(u) \in 0 .. VARIANTS - 1
           /\ u[17] = uuid_variant(u) * CLOCK_TOP + (u[17] % CLOCK_TOP)
<1> DEFINE x == u[17]
           q == x \div CLOCK_TOP
           r == x % CLOCK_TOP
<1>1. x \in 0 .. BASE - 1 /\ x \in Nat
    BY Bases DEF UUIDs, Digit
<1>2. /\ CLOCK_TOP \in Nat \ {0} /\ VARIANTS \in Nat \ {0}
      /\ BASE = VARIANTS * CLOCK_TOP /\ BASE \in Nat
    BY Bases
<1> HIDE DEF x
<1>3. q \in Nat /\ r \in 0 .. CLOCK_TOP - 1 /\ x = CLOCK_TOP * q + r
    <2>1. x \in Int
        BY <1>1
    <2>2. q \in Nat
        BY <1>1, <1>2, DivNat
    <2>3. r \in 0 .. CLOCK_TOP - 1 /\ x = CLOCK_TOP * q + r
        BY <1>2, <2>1, DivMod
    <2> QED
        BY <2>2, <2>3
<1> HIDE DEF q, r
<1>4. q < VARIANTS
    <2>1. SUFFICES ASSUME q >= VARIANTS
                   PROVE  FALSE
        BY <1>2, <1>3
    <2>2. CLOCK_TOP * q >= CLOCK_TOP * VARIANTS /\ CLOCK_TOP * VARIANTS = VARIANTS * CLOCK_TOP
        BY <2>1, <1>2, <1>3
    <2>3. CLOCK_TOP * q \in Int
        BY <1>2, <1>3
    <2> QED
        BY <2>2, <2>3, <1>1, <1>2, <1>3
<1>5. r <= BASE - 1
    <2>1. CLOCK_TOP * q >= 0 /\ CLOCK_TOP * q \in Int
        BY <1>2, <1>3
    <2> QED
        BY <2>1, <1>1, <1>2, <1>3
<1>6. CLOCK_TOP * q = q * CLOCK_TOP
    BY <1>2, <1>3
<1> QED
    BY <1>2, <1>3, <1>4, <1>5, <1>6 DEF q, r, x, uuid_variant, Digit

\* v1's time is read from its digits.
LEMMA TimeOfV1 ==
    ASSUME NEW u \in UUIDs
    PROVE  /\ \E d : InV1(u, d)
           /\ \A d : InV1(u, d) => uuid1_time(u) = Value(d)
<1> DEFINE a == SubSeq(u, 14, 16)
           b == SubSeq(u, 9, 12)
           c == SubSeq(u, 1, 8)
           w == a \o b \o c
<1>1. /\ a \in Word(3) /\ \A i \in 1 .. 3 : a[i] = u[14 + i - 1]
      /\ b \in Word(4) /\ \A i \in 1 .. 4 : b[i] = u[9 + i - 1]
      /\ c \in Word(8) /\ \A i \in 1 .. 8 : c[i] = u[1 + i - 1]
    <2>1. u \in Word(32)
        BY DEF UUIDs, Word
    <2>2. Parted(a, u, 14, 16, Digit) /\ Parted(b, u, 9, 12, Digit) /\ Parted(c, u, 1, 8, Digit)
        BY <2>1, PartOfWord
    <2> HIDE DEF a, b, c
    <2> QED
        BY <2>2 DEF Parted, Word
<1>2. uuid1_time(u) = Value(w)
    BY DEF uuid1_time
<1> HIDE DEF a, b, c
<1> DEFINE ab == a \o b
<1>3. /\ ab \in Word(7)
      /\ \A i \in 1 .. 3 : ab[i] = a[i]
      /\ \A i \in 4 .. 7 : ab[i] = b[i - 3]
    <2>1. Joined(ab, a, b, 3, 4, Digit)
        BY <1>1, JoinWords
    <2> HIDE DEF ab
    <2> QED
        BY <2>1 DEF Joined, Word
<1> HIDE DEF ab
<1>4. /\ w \in Word(15)
      /\ \A i \in 1 .. 7 : w[i] = ab[i]
      /\ \A i \in 8 .. 15 : w[i] = c[i - 7]
    <2>1. Joined(w, ab, c, 7, 8, Digit)
        BY <1>1, <1>3, JoinWords DEF ab
    <2> HIDE DEF w
    <2> QED
        BY <2>1 DEF Joined, Word
<1> HIDE DEF w
<1>5. InV1(u, w)
    BY <1>1, <1>3, <1>4 DEF InV1
<1>6. ASSUME NEW d, InV1(u, d)
      PROVE  d = w
    BY <1>5, <1>6 DEF InV1, Word
<1> QED
    BY <1>2, <1>5, <1>6

\* v6's time is read from its digits.
LEMMA TimeOfV6 ==
    ASSUME NEW u \in UUIDs
    PROVE  /\ \E d : InV6(u, d)
           /\ \A d : InV6(u, d) => from_v6_bytes(u).time = Value(d)
<1> DEFINE a == SubSeq(u, 1, 12)
           b == SubSeq(u, 14, 16)
           w == a \o b
<1>1. Parted(a, u, 1, 12, Digit) /\ Parted(b, u, 14, 16, Digit)
    <2>1. u \in Word(32)
        BY DEF UUIDs, Word
    <2> QED
        BY <2>1, PartOfWord
<1>2. from_v6_bytes(u).time = Value(w)
    BY DEF from_v6_bytes
<1> HIDE DEF a, b
<1>3. a \in Word(12) /\ b \in Word(3)
    BY <1>1 DEF Parted, Word
<1>4. Joined(w, a, b, 12, 3, Digit)
    BY <1>3, JoinWords
<1> HIDE DEF w
<1>5. InV6(u, w)
    BY <1>1, <1>4 DEF InV6, Parted, Joined, Word
<1>6. ASSUME NEW d, InV6(u, d)
      PROVE  d = w
    BY <1>5, <1>6 DEF InV6, Word
<1> QED
    BY <1>2, <1>5, <1>6

\* A clock sequence is read from its digits, and the top one is cut to what the
\* variant leaves of it.
LEMMA ClockOf ==
    ASSUME NEW u \in UUIDs
    PROVE  /\ \E d : InClock(u, d)
           /\ \A d : InClock(u, d) => uuid1_clock_seq(u) = Value(d)
<1> DEFINE a == <<u[17] % CLOCK_TOP>>
           b == SubSeq(u, 18, 20)
           w == a \o b
<1>1. a \in Word(1) /\ a[1] = u[17] % CLOCK_TOP
    BY SharedDigit, ValueOfOne
<1>2. Parted(b, u, 18, 20, Digit)
    <2>1. u \in Word(32)
        BY DEF UUIDs, Word
    <2> QED
        BY <2>1, PartOfWord
<1>3. uuid1_clock_seq(u) = Value(w)
    BY DEF uuid1_clock_seq
<1> HIDE DEF a, b
<1>4. b \in Word(3)
    BY <1>2 DEF Parted, Word
<1>5. Joined(w, a, b, 1, 3, Digit)
    BY <1>1, <1>4, JoinWords
<1> HIDE DEF w
<1>6. w \in Word(4) /\ w[1] = a[1] /\ w[2] = b[1] /\ w[3] = b[2] /\ w[4] = b[3]
    BY <1>5 DEF Joined, Word
<1>7. b[1] = u[18] /\ b[2] = u[19] /\ b[3] = u[20]
    BY <1>2 DEF Parted
<1>8. InClock(u, w)
    BY <1>1, <1>6, <1>7 DEF InClock
<1>9. ASSUME NEW d, InClock(u, d)
      PROVE  d = w
    <2>1. d[1] = w[1] /\ \A i \in 2 .. 4 : d[i] = w[i]
        BY <1>8, <1>9 DEF InClock
    <2>2. \A i \in 1 .. 4 : d[i] = w[i]
        BY <2>1
    <2> QED
        BY <1>8, <1>9, <2>2 DEF InClock, Word
<1> QED
    BY <1>3, <1>8, <1>9

\* A node is read from its digits.
LEMMA NodeOf ==
    ASSUME NEW u \in UUIDs
    PROVE  /\ \E d : InNode(u, d)
           /\ \A d : InNode(u, d) => uuid1_node(u) = Value(d)
<1> DEFINE w == SubSeq(u, 21, 32)
<1>1. Parted(w, u, 21, 32, Digit)
    <2>1. u \in Word(32)
        BY DEF UUIDs, Word
    <2> QED
        BY <2>1, PartOfWord
<1>2. uuid1_node(u) = Value(w)
    BY DEF uuid1_node
<1> HIDE DEF w
<1>3. InNode(u, w)
    BY <1>1 DEF InNode, Parted, Word
<1>4. ASSUME NEW d, InNode(u, d)
      PROVE  d = w
    BY <1>3, <1>4 DEF InNode, Word
<1> QED
    BY <1>2, <1>3, <1>4

\* The widths are those of the digits.
LEMMA Widths ==
    /\ TIME_SIZE \in Nat \ {0} /\ CLOCK_SIZE \in Nat \ {0} /\ NODE_SIZE \in Nat \ {0}
    /\ TIME_SIZE = Power[15] /\ NODE_SIZE = Power[12] /\ CLOCK_SIZE = Power[3] * CLOCK_TOP
    /\ MULTICAST_BIT = Power[10] /\ MULTICAST_BIT \in Nat \ {0}
<1>1. Power[15] \in Nat \ {0} /\ Power[12] \in Nat \ {0} /\ Power[3] \in Nat \ {0}
      /\ Power[10] \in Nat \ {0} /\ CLOCK_TOP \in Nat \ {0}
    BY Powers, Bases
<1>2. Power[3] * CLOCK_TOP \in Nat \ {0} /\ Power[3] * CLOCK_TOP = CLOCK_TOP * Power[3]
    BY <1>1, ProductPositive
<1> QED
    BY <1>1, <1>2 DEF TIME_SIZE, CLOCK_SIZE, NODE_SIZE, MULTICAST_BIT, TIME_DIGITS, NODE_DIGITS

\* The digits of a clock sequence, the top one cut.
ClockDigits(clock) == <<(clock \div Power[3]) % CLOCK_TOP>> \o Digits(clock, 3)

\* They count what the setter is given, cut to the 14 bits.
LEMMA ClockDigitsAre ==
    ASSUME NEW c \in Nat
    PROVE  /\ ClockDigits(c) \in Word(4)
           /\ ClockDigits(c)[1] = (c \div Power[3]) % CLOCK_TOP
           /\ ClockDigits(c)[1] \in 0 .. CLOCK_TOP - 1
           /\ \A i \in 2 .. 4 : ClockDigits(c)[i] = Digits(c, 3)[i - 1]
           /\ Value(ClockDigits(c)) = c % CLOCK_SIZE
<1> DEFINE x == (c \div Power[3]) % CLOCK_TOP
           d == Digits(c, 3)
           w == <<x>> \o d
<1>1. Power[3] \in Nat \ {0} /\ CLOCK_TOP \in Nat \ {0} /\ CLOCK_TOP <= BASE
    <2>1. Power[3] \in Nat \ {0} /\ CLOCK_TOP \in Nat \ {0} /\ VARIANTS \in Nat \ {0}
          /\ BASE = VARIANTS * CLOCK_TOP
        BY Powers, Bases
    <2>2. VARIANTS * CLOCK_TOP >= CLOCK_TOP
        BY <2>1
    <2> QED
        BY <2>1, <2>2
<1>2. x \in 0 .. CLOCK_TOP - 1
    <2>1. c \div Power[3] \in Nat
        BY <1>1, DivNat
    <2>2. \A y \in Int : y % CLOCK_TOP \in 0 .. CLOCK_TOP - 1
        BY <1>1, DivMod
    <2> QED
        BY <2>1, <2>2
<1>3. x * Power[3] + (c % Power[3]) = c % (Power[3] * CLOCK_TOP)
    BY <1>1, ModDigit, Zenon
<1>4. d \in Word(3) /\ Value(d) = c % Power[3]
    BY DigitsType, ValueOfDigits
<1> HIDE DEF x, d
<1>5. x \in Digit
    BY <1>1, <1>2, Bases DEF Digit
<1>6. <<x>> \in Word(1) /\ Value(<<x>>) = x /\ <<x>>[1] = x
    BY <1>5, ValueOfOne
<1>7. Joined(w, <<x>>, d, 1, 3, Digit)
    BY <1>4, <1>6, JoinWords
<1>8. Value(w) = x * Power[3] + (c % Power[3])
    <2>1. 1 \in 0 .. 16 /\ 3 \in 0 .. 16 - 1
        OBVIOUS
    <2>2. Value(w) = Value(<<x>>) * Power[3] + Value(d)
        BY <1>4, <1>6, <2>1, ValueOfJoin
    <2> QED
        BY <1>4, <1>6, <2>2
<1> HIDE DEF w
<1>9. w \in Word(4) /\ w[1] = x /\ \A i \in 2 .. 4 : w[i] = d[i - 1]
    BY <1>6, <1>7 DEF Joined, Word
<1>10. w = ClockDigits(c)
    BY DEF w, x, d, ClockDigits
<1>11. Value(w) = c % CLOCK_SIZE
    BY <1>3, <1>8, Widths
<1> QED
    BY <1>2, <1>9, <1>10, <1>11 DEF x, d

-----------------------------------------------------------------------------
(* What the setters and the layouts write, and what they leave.            *)

\* A variant over the top of a clock sequence makes a digit, and is taken out of
\* it again.
LEMMA Share ==
    ASSUME NEW v \in 0 .. VARIANTS - 1, NEW x \in 0 .. CLOCK_TOP - 1
    PROVE  /\ v * CLOCK_TOP + x \in Digit
           /\ (v * CLOCK_TOP + x) \div CLOCK_TOP = v
           /\ (v * CLOCK_TOP + x) % CLOCK_TOP = x
<1>1. /\ CLOCK_TOP \in Nat \ {0} /\ VARIANTS \in Nat \ {0} /\ v \in Int /\ x \in Int
      /\ BASE = VARIANTS * CLOCK_TOP
    BY Bases
<1>2. v * CLOCK_TOP <= (VARIANTS - 1) * CLOCK_TOP /\ v * CLOCK_TOP >= 0
      /\ (VARIANTS - 1) * CLOCK_TOP = VARIANTS * CLOCK_TOP - CLOCK_TOP
      /\ v * CLOCK_TOP \in Int /\ VARIANTS * CLOCK_TOP \in Int
      /\ v * CLOCK_TOP = CLOCK_TOP * v
    BY <1>1
<1>3. v * CLOCK_TOP + x \in 0 .. BASE - 1
    BY <1>1, <1>2
<1>4. (CLOCK_TOP * v + x) \div CLOCK_TOP = v /\ (CLOCK_TOP * v + x) % CLOCK_TOP = x
    BY <1>1, DivModUnique
<1> QED
    BY <1>2, <1>3, <1>4 DEF Digit

\* The first half of an object in v1's order.
LEMMA TimeFirstLowIs ==
    ASSUME NEW t \in Nat, NEW v \in Digit
    PROVE  LET d == Digits(t, 15)
               r == TimeFirstLow(t, v)
           IN  /\ d \in Word(15)
               /\ r \in Word(16)
               /\ \A i \in 1 .. 8 : r[i] = d[i + 7]
               /\ \A i \in 9 .. 12 : r[i] = d[i - 5]
               /\ r[13] = v
               /\ \A i \in 14 .. 16 : r[i] = d[i - 13]
<1> DEFINE d == Digits(t, 15)
           a == SubSeq(d, 8, 15)
           b == SubSeq(d, 4, 7)
           c == <<v>>
           e == SubSeq(d, 1, 3)
           ab == a \o b
           abc == ab \o c
           r == abc \o e
<1>1. d \in Word(15)
    BY DigitsType
<1>2. TimeFirstLow(t, v) = r
    BY DEF TimeFirstLow, TIME_DIGITS
<1> HIDE DEF d
<1>3. Parted(a, d, 8, 15, Digit) /\ Parted(b, d, 4, 7, Digit) /\ Parted(e, d, 1, 3, Digit)
    BY <1>1, PartOfWord
<1>4. c \in Word(1) /\ c[1] = v
    BY ValueOfOne
<1> HIDE DEF a, b, c, e
<1>5. a \in Word(8) /\ b \in Word(4) /\ e \in Word(3)
    BY <1>3 DEF Parted, Word
<1>6. Joined(ab, a, b, 8, 4, Digit)
    BY <1>5, JoinWords
<1> HIDE DEF ab
<1>7. ab \in Word(12)
    BY <1>6 DEF Joined, Word
<1>8. Joined(abc, ab, c, 12, 1, Digit)
    BY <1>4, <1>7, JoinWords
<1> HIDE DEF abc
<1>9. abc \in Word(13)
    BY <1>8 DEF Joined, Word
<1>10. Joined(r, abc, e, 13, 3, Digit)
    BY <1>5, <1>9, JoinWords
<1> HIDE DEF r
<1>11. r \in Word(16)
    BY <1>10 DEF Joined, Word
<1>12. \A i \in 1 .. 13 : r[i] = abc[i]
    BY <1>10 DEF Joined
<1>13. \A i \in 1 .. 12 : r[i] = ab[i]
    BY <1>8, <1>12 DEF Joined
<1>14. \A i \in 1 .. 8 : r[i] = d[i + 7]
    BY <1>3, <1>6, <1>13 DEF Joined, Parted
<1>15. \A i \in 9 .. 12 : r[i] = d[i - 5]
    BY <1>3, <1>6, <1>13 DEF Joined, Parted
<1>16. r[13] = v
    BY <1>4, <1>8, <1>12 DEF Joined
<1>17. \A i \in 14 .. 16 : r[i] = d[i - 13]
    BY <1>3, <1>10 DEF Joined, Parted
<1> QED
    BY <1>1, <1>2, <1>11, <1>14, <1>15, <1>16, <1>17 DEF d

\* The digits of variant and clock.
LEMMA VariantAndClockIs ==
    ASSUME NEW v \in 0 .. VARIANTS - 1, NEW c \in Nat
    PROVE  LET r == VariantAndClock(v, c)
           IN  /\ r \in Word(4)
               /\ r[1] \div CLOCK_TOP = v
               /\ r[1] % CLOCK_TOP = ClockDigits(c)[1]
               /\ \A i \in 2 .. 4 : r[i] = ClockDigits(c)[i]
<1> DEFINE x == (c \div Power[3]) % CLOCK_TOP
           h == v * CLOCK_TOP + x
           d == Digits(c, 3)
           r == <<h>> \o d
<1>1. x \in 0 .. CLOCK_TOP - 1 /\ x = ClockDigits(c)[1]
    BY ClockDigitsAre
<1>2. \A i \in 2 .. 4 : ClockDigits(c)[i] = d[i - 1]
    BY ClockDigitsAre
<1>3. d \in Word(3)
    BY DigitsType
<1>4. VariantAndClock(v, c) = r
    BY DEF VariantAndClock
<1> HIDE DEF x, d
<1>5. h \in Digit /\ h \div CLOCK_TOP = v /\ h % CLOCK_TOP = x
    BY <1>1, Share
<1> HIDE DEF h
<1>6. <<h>> \in Word(1) /\ <<h>>[1] = h
    BY <1>5, ValueOfOne
<1>7. Joined(r, <<h>>, d, 1, 3, Digit)
    BY <1>3, <1>6, JoinWords
<1> HIDE DEF r
<1>8. r \in Word(4) /\ r[1] = h /\ \A i \in 2 .. 4 : r[i] = d[i - 1]
    BY <1>6, <1>7 DEF Joined, Word
<1> QED
    BY <1>1, <1>2, <1>4, <1>5, <1>8

\* The time setter writes the time's digits and keeps the version and all else.
LEMMA SetTimeIs ==
    ASSUME NEW u \in UUIDs, NEW t \in Nat
    PROVE  /\ SetTime(u, t) \in UUIDs
           /\ InV1(SetTime(u, t), Digits(t, 15))
           /\ SetTime(u, t)[13] = u[13]
           /\ \A i \in 17 .. 32 : SetTime(u, t)[i] = u[i]
<1> DEFINE d == Digits(t, 15)
           a == TimeFirstLow(t, u[13])
           b == SubSeq(u, 17, 32)
           r == a \o b
<1>0. u \in Word(32) /\ u[13] \in Digit
    BY DEF UUIDs, Word
<1>1. /\ d \in Word(15)
      /\ a \in Word(16)
      /\ \A i \in 1 .. 8 : a[i] = d[i + 7]
      /\ \A i \in 9 .. 12 : a[i] = d[i - 5]
      /\ a[13] = u[13]
      /\ \A i \in 14 .. 16 : a[i] = d[i - 13]
    BY <1>0, TimeFirstLowIs
<1>2. Parted(b, u, 17, 32, Digit)
    BY <1>0, PartOfWord
<1>3. SetTime(u, t) = r
    BY DEF SetTime
<1> HIDE DEF d, a, b
<1>4. b \in Word(16)
    BY <1>2 DEF Parted, Word
<1>5. Joined(r, a, b, 16, 16, Digit)
    BY <1>1, <1>4, JoinWords
<1> HIDE DEF r
<1>6. r \in UUIDs /\ \A i \in 1 .. 16 : r[i] = a[i]
    BY <1>5 DEF Joined, UUIDs
<1>7. \A i \in 17 .. 32 : r[i] = u[i]
    BY <1>2, <1>5 DEF Joined, Parted
<1>8. InV1(r, d)
    BY <1>1, <1>6 DEF InV1
<1> QED
    BY <1>1, <1>3, <1>6, <1>7, <1>8 DEF d

\* The node setter writes the node's digits and keeps all else.
LEMMA SetNodeIs ==
    ASSUME NEW u \in UUIDs, NEW n \in Nat
    PROVE  /\ SetNode(u, n) \in UUIDs
           /\ InNode(SetNode(u, n), Digits(n, 12))
           /\ \A i \in 1 .. 20 : SetNode(u, n)[i] = u[i]
<1> DEFINE a == SubSeq(u, 1, 20)
           b == Digits(n, 12)
           r == a \o b
<1>0. u \in Word(32)
    BY DEF UUIDs, Word
<1>1. Parted(a, u, 1, 20, Digit) /\ b \in Word(12)
    BY <1>0, PartOfWord, DigitsType
<1>2. SetNode(u, n) = r
    BY DEF SetNode, NODE_DIGITS
<1> HIDE DEF a, b
<1>3. a \in Word(20)
    BY <1>1 DEF Parted, Word
<1>4. Joined(r, a, b, 20, 12, Digit)
    BY <1>1, <1>3, JoinWords
<1> HIDE DEF r
<1>5. r \in UUIDs /\ \A i \in 1 .. 20 : r[i] = u[i]
    BY <1>1, <1>4 DEF Joined, Parted, UUIDs
<1>6. InNode(r, b)
    BY <1>1, <1>4 DEF Joined, InNode
<1> QED
    BY <1>2, <1>5, <1>6 DEF b

\* The clock setter writes the clock's digits and keeps the variant and all else.
LEMMA SetClockSeqIs ==
    ASSUME NEW u \in UUIDs, NEW c \in Nat
    PROVE  /\ SetClockSeq(u, c) \in UUIDs
           /\ InClock(SetClockSeq(u, c), ClockDigits(c))
           /\ uuid_variant(SetClockSeq(u, c)) = uuid_variant(u)
           /\ \A i \in (1 .. 16) \cup (21 .. 32) : SetClockSeq(u, c)[i] = u[i]
<1> DEFINE v == u[17] \div CLOCK_TOP
           k == ClockDigits(c)
           a == SubSeq(u, 1, 16)
           b == VariantAndClock(v, c)
           e == SubSeq(u, 21, 32)
           ab == a \o b
           r == ab \o e
<1>0. u \in Word(32) /\ v \in 0 .. VARIANTS - 1 /\ k \in Word(4)
    BY SharedDigit, ClockDigitsAre DEF UUIDs, Word, uuid_variant
<1>1. Parted(a, u, 1, 16, Digit) /\ Parted(e, u, 21, 32, Digit)
    BY <1>0, PartOfWord
<1>2. /\ b \in Word(4) /\ b[1] \div CLOCK_TOP = v /\ b[1] % CLOCK_TOP = k[1]
      /\ \A i \in 2 .. 4 : b[i] = k[i]
    BY <1>0, VariantAndClockIs
<1>3. SetClockSeq(u, c) = r
    BY DEF SetClockSeq
<1> HIDE DEF v, k, a, b, e
<1>4. a \in Word(16) /\ e \in Word(12)
    BY <1>1 DEF Parted, Word
<1>5. Joined(ab, a, b, 16, 4, Digit)
    BY <1>2, <1>4, JoinWords
<1> HIDE DEF ab
<1>6. ab \in Word(20)
    BY <1>5 DEF Joined, Word
<1>7. Joined(r, ab, e, 20, 12, Digit)
    BY <1>4, <1>6, JoinWords
<1> HIDE DEF r
<1>8. r \in UUIDs
    BY <1>7 DEF Joined, UUIDs
<1>9. \A i \in 1 .. 16 : r[i] = u[i]
    BY <1>1, <1>5, <1>7 DEF Joined, Parted
<1>10. \A i \in 21 .. 32 : r[i] = u[i]
    BY <1>1, <1>7 DEF Joined, Parted
<1>11. r[17] = b[1] /\ r[18] = b[2] /\ r[19] = b[3] /\ r[20] = b[4]
    BY <1>5, <1>7 DEF Joined
<1>12. b[2] = k[2] /\ b[3] = k[3] /\ b[4] = k[4]
    BY <1>2
<1>13. InClock(r, k)
    BY <1>0, <1>2, <1>11, <1>12 DEF InClock
<1>14. uuid_variant(r) = v
    BY <1>2, <1>11 DEF uuid_variant
<1>15. uuid_variant(u) = v
    BY DEF uuid_variant, v
<1> QED
    BY <1>3, <1>8, <1>9, <1>10, <1>13, <1>14, <1>15 DEF k

\* The variant setter writes the high part of the shared digit only.
LEMMA SetVariantIs ==
    ASSUME NEW u \in UUIDs, NEW high \in Digit
    PROVE  /\ SetVariant(u, high) \in UUIDs
           /\ uuid_variant(SetVariant(u, high)) = high \div CLOCK_TOP
           /\ SetVariant(u, high)[17] % CLOCK_TOP = u[17] % CLOCK_TOP
           /\ \A i \in 1 .. 32 : i # 17 => SetVariant(u, high)[i] = u[i]
<1> DEFINE v == high \div CLOCK_TOP
           x == u[17] % CLOCK_TOP
           h == v * CLOCK_TOP + x
           r == [u EXCEPT ![17] = h]
<1>1. v \in 0 .. VARIANTS - 1
    <2> DEFINE w == [i \in 1 .. 32 |-> high]
    <2>1. w \in UUIDs /\ w[17] = high
        BY DEF UUIDs
    <2> HIDE DEF w
    <2> QED
        BY <2>1, SharedDigit DEF uuid_variant
<1>2. x \in 0 .. CLOCK_TOP - 1
    BY SharedDigit
<1>3. SetVariant(u, high) = r
    BY DEF SetVariant
<1> HIDE DEF v, x
<1>4. h \in Digit /\ h \div CLOCK_TOP = v /\ h % CLOCK_TOP = x
    BY <1>1, <1>2, Share
<1> HIDE DEF h
<1>5. r \in UUIDs /\ r[17] = h /\ \A i \in 1 .. 32 : i # 17 => r[i] = u[i]
    BY <1>4 DEF UUIDs
<1> HIDE DEF r
<1> QED
    BY <1>3, <1>4, <1>5 DEF v, x, uuid_variant

\* The version setter writes the version's digit only.
LEMMA SetVersionIs ==
    ASSUME NEW u \in UUIDs, NEW version \in Nat
    PROVE  /\ SetVersion(u, version) \in UUIDs
           /\ uuid_version(SetVersion(u, version)) = version % BASE
           /\ \A i \in 1 .. 32 : i # 13 => SetVersion(u, version)[i] = u[i]
<1>1. version % BASE \in Digit
    BY Bases, DivMod DEF Digit
<1> QED
    BY <1>1 DEF SetVersion, uuid_version, UUIDs

\* The second half of an object, as it is made from a clock and a node.
LEMMA ClockNodeIs ==
    ASSUME NEW a \in Word(16), NEW c \in Nat, NEW n \in Nat
    PROVE  LET r == a \o VariantAndClock(RFC, c) \o Digits(n, 12)
           IN  /\ r \in UUIDs
               /\ \A i \in 1 .. 16 : r[i] = a[i]
               /\ uuid_variant(r) = RFC
               /\ InClock(r, ClockDigits(c))
               /\ InNode(r, Digits(n, 12))
<1> DEFINE k == ClockDigits(c)
           b == VariantAndClock(RFC, c)
           e == Digits(n, 12)
           ab == a \o b
           r == ab \o e
<1>1. RFC \in 0 .. VARIANTS - 1
    BY Bases
<1>2. /\ b \in Word(4) /\ b[1] \div CLOCK_TOP = RFC /\ b[1] % CLOCK_TOP = k[1]
      /\ \A i \in 2 .. 4 : b[i] = k[i]
    BY <1>1, VariantAndClockIs
<1>3. e \in Word(12) /\ k \in Word(4)
    BY DigitsType, ClockDigitsAre
<1> HIDE DEF k, b, e
<1>4. Joined(ab, a, b, 16, 4, Digit)
    BY <1>2, JoinWords
<1> HIDE DEF ab
<1>5. ab \in Word(20)
    BY <1>4 DEF Joined, Word
<1>6. Joined(r, ab, e, 20, 12, Digit)
    BY <1>3, <1>5, JoinWords
<1> HIDE DEF r
<1>7. r \in UUIDs
    BY <1>6 DEF Joined, UUIDs
<1>8. \A i \in 1 .. 16 : r[i] = a[i]
    BY <1>4, <1>6 DEF Joined
<1>9. r[17] = b[1] /\ r[18] = b[2] /\ r[19] = b[3] /\ r[20] = b[4]
    BY <1>4, <1>6 DEF Joined
<1>10. b[2] = k[2] /\ b[3] = k[3] /\ b[4] = k[4]
    BY <1>2
<1>11. InClock(r, k)
    BY <1>2, <1>3, <1>9, <1>10 DEF InClock
<1>12. uuid_variant(r) = RFC
    BY <1>2, <1>9 DEF uuid_variant
<1>13. InNode(r, e)
    BY <1>3, <1>6 DEF Joined, InNode
<1>14. r = a \o VariantAndClock(RFC, c) \o Digits(n, 12)
    BY DEF r, ab, b, e
<1> QED
    BY <1>7, <1>8, <1>11, <1>12, <1>13, <1>14 DEF k, e

\* v6 lays every field out where its readers look for it.
LEMMA ToV6Is ==
    ASSUME NEW t \in Nat, NEW c \in Nat, NEW n \in Nat
    PROVE  LET r == to_v6_bytes(t, c, n)
           IN  /\ r \in UUIDs
               /\ InV6(r, Digits(t, 15)) /\ r[13] = V6
               /\ uuid_variant(r) = RFC
               /\ InClock(r, ClockDigits(c))
               /\ InNode(r, Digits(n, 12))
<1> DEFINE d == Digits(t, 15)
           a == SubSeq(d, 1, 12)
           b == <<V6>>
           e == SubSeq(d, 13, 15)
           ab == a \o b
           h == ab \o e
           r == h \o VariantAndClock(RFC, c) \o Digits(n, 12)
<1>1. d \in Word(15)
    BY DigitsType
<1> HIDE DEF d
<1>3. Parted(a, d, 1, 12, Digit) /\ Parted(e, d, 13, 15, Digit)
    BY <1>1, PartOfWord
<1>4. b \in Word(1) /\ b[1] = V6
    BY ValueOfOne, Bases DEF Digit
<1> HIDE DEF a, b, e
<1>5. a \in Word(12) /\ e \in Word(3)
    BY <1>3 DEF Parted, Word
<1>6. Joined(ab, a, b, 12, 1, Digit)
    BY <1>4, <1>5, JoinWords
<1> HIDE DEF ab
<1>7. ab \in Word(13)
    BY <1>6 DEF Joined, Word
<1>8. Joined(h, ab, e, 13, 3, Digit)
    BY <1>5, <1>7, JoinWords
<1> HIDE DEF h
<1>9. h \in Word(16)
    BY <1>8 DEF Joined, Word
<1>10. \A i \in 1 .. 12 : h[i] = d[i]
    BY <1>3, <1>6, <1>8 DEF Joined, Parted
<1>11. h[13] = V6
    BY <1>4, <1>6, <1>8 DEF Joined
<1>12. \A i \in 13 .. 15 : h[i + 1] = d[i]
    BY <1>3, <1>8 DEF Joined, Parted
<1>13. /\ r \in UUIDs
       /\ \A i \in 1 .. 16 : r[i] = h[i]
       /\ uuid_variant(r) = RFC
       /\ InClock(r, ClockDigits(c))
       /\ InNode(r, Digits(n, 12))
    BY <1>9, ClockNodeIs
<1>14. to_v6_bytes(t, c, n) = r
    BY DEF to_v6_bytes, TIME_DIGITS, NODE_DIGITS, r, h, ab, a, b, e, d
<1> HIDE DEF r
<1>15. InV6(r, d)
    BY <1>1, <1>10, <1>12, <1>13 DEF InV6
<1>16. r[13] = V6
    BY <1>11, <1>13
<1> QED
    BY <1>13, <1>14, <1>15, <1>16 DEF d

\* The layout unserialise_condensed writes, of fields of their widths, is the
\* one the getters of v1 read.
LEMMA CondensedLayoutIs ==
    ASSUME NEW t \in Nat, NEW c \in 0 .. CLOCK_SIZE - 1, NEW n \in Nat
    PROVE  LET r == CondensedLayout(t, c, n)
           IN  /\ r \in UUIDs
               /\ InV1(r, Digits(t, 15)) /\ r[13] = V1
               /\ uuid_variant(r) = RFC
               /\ InClock(r, ClockDigits(c))
               /\ InNode(r, Digits(n, 12))
<1> DEFINE d == Digits(t, 15)
           h == TimeFirstLow(t, V1)
           g == Digits(n, 16)
           u == h \o g
           p == SubSeq(u, 1, 16)
           q == SubSeq(u, 21, 32)
           b == <<RFC * CLOCK_TOP + (c \div Power[3])>>
           k == Digits(c, 3)
           pb == p \o b
           pbk == pb \o k
           r == pbk \o q
<1>0. V1 \in Digit /\ c \in Nat
    BY Bases, Widths DEF Digit
<1>1. /\ d \in Word(15)
      /\ h \in Word(16)
      /\ \A i \in 1 .. 8 : h[i] = d[i + 7]
      /\ \A i \in 9 .. 12 : h[i] = d[i - 5]
      /\ h[13] = V1
      /\ \A i \in 14 .. 16 : h[i] = d[i - 13]
    BY <1>0, TimeFirstLowIs
<1>2. g \in Word(16) /\ Digits(n, 12) \in Word(12) /\ \A i \in 1 .. 12 : g[i + 4] = Digits(n, 12)[i]
    <2>1. \A i \in 1 .. 12 : i + 4 \in 1 .. 16 /\ 16 - (i + 4) = 12 - i
        OBVIOUS
    <2>2. \A i \in 1 .. 12 : g[i + 4] = Digits(n, 12)[i]
        BY <2>1 DEF Digits
    <2> QED
        BY <2>2, DigitsType
<1>3. c \div Power[3] \in 0 .. CLOCK_TOP - 1 /\ c \div Power[3] = (c \div Power[3]) % CLOCK_TOP
    <2> DEFINE x == c \div Power[3]
               y == c % Power[3]
    <2>1. /\ CLOCK_TOP \in Nat \ {0} /\ Power[3] \in Nat \ {0}
          /\ CLOCK_SIZE = Power[3] * CLOCK_TOP
        BY Bases, Powers, Widths
    <2>2. x \in Nat /\ y \in 0 .. Power[3] - 1 /\ c = Power[3] * x + y
        <3>1. x \in Nat
            BY <1>0, <2>1, DivNat
        <3>2. c \in Int
            BY <1>0
        <3>3. y \in 0 .. Power[3] - 1 /\ c = Power[3] * x + y
            BY <2>1, <3>2, DivMod
        <3> QED
            BY <3>1, <3>3
    <2> HIDE DEF x, y
    <2>3. x < CLOCK_TOP
        <3>1. SUFFICES ASSUME x >= CLOCK_TOP
                       PROVE  FALSE
            BY <2>1, <2>2
        <3>2. Power[3] * x >= Power[3] * CLOCK_TOP /\ Power[3] * x \in Int
            BY <2>1, <2>2, <3>1
        <3> QED
            BY <1>0, <2>1, <2>2, <3>2
    <2>4. x \in 0 .. CLOCK_TOP - 1 /\ 0 \in Int /\ CLOCK_TOP * 0 + x = x
        BY <2>1, <2>2, <2>3
    <2>5. (CLOCK_TOP * 0 + x) % CLOCK_TOP = x
        BY <2>1, <2>4, DivModUnique
    <2> QED
        BY <2>4, <2>5 DEF x
<1>4. /\ k \in Word(3) /\ ClockDigits(c) \in Word(4)
      /\ ClockDigits(c)[1] = c \div Power[3]
      /\ \A i \in 2 .. 4 : ClockDigits(c)[i] = k[i - 1]
    BY <1>0, <1>3, DigitsType, ClockDigitsAre
<1> DEFINE s == RFC * CLOCK_TOP + (c \div Power[3])
<1>5. s \in Digit /\ s \div CLOCK_TOP = RFC /\ s % CLOCK_TOP = c \div Power[3]
    <2>1. RFC \in 0 .. VARIANTS - 1
        BY Bases
    <2> QED
        BY <1>3, <2>1, Share
<1>6. CondensedLayout(t, c, n) = r
    BY DEF CondensedLayout
<1>7. b \in Word(1) /\ b[1] = s
    BY <1>5, ValueOfOne
<1> HIDE DEF d, h, g, k, s, b
<1>8. Joined(u, h, g, 16, 16, Digit)
    BY <1>1, <1>2, JoinWords
<1> HIDE DEF u
<1>9. u \in Word(32)
    BY <1>8 DEF Joined, Word
<1>10. Parted(p, u, 1, 16, Digit) /\ Parted(q, u, 21, 32, Digit)
    BY <1>9, PartOfWord
<1> HIDE DEF p, q
<1>11. p \in Word(16) /\ q \in Word(12)
    BY <1>10 DEF Parted, Word
<1>12. Joined(pb, p, b, 16, 1, Digit)
    BY <1>7, <1>11, JoinWords
<1> HIDE DEF pb
<1>13. pb \in Word(17)
    BY <1>12 DEF Joined, Word
<1>14. Joined(pbk, pb, k, 17, 3, Digit)
    BY <1>4, <1>13, JoinWords
<1> HIDE DEF pbk
<1>15. pbk \in Word(20)
    BY <1>14 DEF Joined, Word
<1>16. Joined(r, pbk, q, 20, 12, Digit)
    BY <1>11, <1>15, JoinWords
<1> HIDE DEF r
<1>17. r \in UUIDs
    BY <1>16 DEF Joined, UUIDs
<1>18. \A i \in 1 .. 16 : r[i] = pbk[i] /\ pbk[i] = pb[i] /\ pb[i] = p[i]
    BY <1>12, <1>14, <1>16 DEF Joined
<1>19. \A i \in 1 .. 16 : p[i] = h[i]
    BY <1>8, <1>10 DEF Joined, Parted
<1>20. \A i \in 1 .. 16 : r[i] = h[i]
    BY <1>18, <1>19
<1>21. r[17] = s
    BY <1>7, <1>12, <1>14, <1>16 DEF Joined
<1>22. r[18] = k[1] /\ r[19] = k[2] /\ r[20] = k[3]
    BY <1>14, <1>16 DEF Joined
<1>23. \A i \in 1 .. 12 : r[20 + i] = q[i] /\ q[i] = u[20 + i] /\ u[20 + i] = g[i + 4]
    BY <1>8, <1>10, <1>16 DEF Joined, Parted
<1>24. InV1(r, d)
    BY <1>1, <1>20 DEF InV1
<1>25. r[13] = V1
    BY <1>1, <1>20
<1>26. InClock(r, ClockDigits(c))
    BY <1>4, <1>5, <1>21, <1>22 DEF InClock
<1>27. uuid_variant(r) = RFC
    BY <1>5, <1>21 DEF uuid_variant
<1>28. InNode(r, Digits(n, 12))
    BY <1>2, <1>23 DEF InNode
<1> QED
    BY <1>6, <1>17, <1>24, <1>25, <1>26, <1>27, <1>28 DEF d

-----------------------------------------------------------------------------
(* What the getters read.                                                  *)

\* The fields of an object, each of its width.
FieldTypes ==
    [variant : 0 .. VARIANTS - 1, version : Digit, time : 0 .. TIME_SIZE - 1,
     clock : 0 .. CLOCK_SIZE - 1, node : 0 .. NODE_SIZE - 1]

Orders == {"v1", "v6"}

\* The first of four digits, and the three behind it.
LEMMA TopDigit ==
    ASSUME NEW d \in Word(4)
    PROVE  /\ SubSeq(d, 2, 4) \in Word(3)
           /\ SubSeq(d, 2, 4)[1] = d[2] /\ SubSeq(d, 2, 4)[2] = d[3] /\ SubSeq(d, 2, 4)[3] = d[4]
           /\ Value(SubSeq(d, 2, 4)) \in 0 .. Power[3] - 1
           /\ Value(d) = Power[3] * d[1] + Value(SubSeq(d, 2, 4))
           /\ Value(d) \div Power[3] = d[1]
           /\ Value(d) % Power[3] = Value(SubSeq(d, 2, 4))
<1> DEFINE a == <<d[1]>>
           b == SubSeq(d, 2, 4)
           x == d[1]
<1>1. Power[3] \in Nat \ {0} /\ x \in Digit /\ x \in Int
    BY Powers, Bases DEF Word, Digit
<1>2. a \in Word(1) /\ Value(a) = x /\ a[1] = x
    BY <1>1, ValueOfOne
<1>3. Parted(b, d, 2, 4, Digit)
    BY PartOfWord
<1> HIDE DEF b, x
<1>4. b \in Word(3) /\ b[1] = d[2] /\ b[2] = d[3] /\ b[3] = d[4]
    BY <1>3 DEF Parted, Word
<1>5. Value(b) \in 0 .. Power[3] - 1
    BY <1>4, ValueType
<1>6. Joined(a \o b, a, b, 1, 3, Digit)
    BY <1>2, <1>4, JoinWords
<1>7. a \o b = d
    <2> DEFINE w == a \o b
    <2>1. w \in Word(4) /\ w[1] = a[1] /\ w[2] = b[1] /\ w[3] = b[2] /\ w[4] = b[3]
        BY <1>6 DEF Joined, Word
    <2> HIDE DEF w
    <2>2. \A i \in 1 .. 4 : w[i] = d[i]
        BY <1>2, <1>4, <2>1 DEF x
    <2>3. w = d
        BY <2>1, <2>2 DEF Word
    <2> QED
        BY <2>3 DEF w
<1>8. Value(a \o b) = x * Power[3] + Value(b)
    <2>1. 1 \in 0 .. 16 /\ 3 \in 0 .. 16 - 1
        OBVIOUS
    <2>2. Value(a \o b) = Value(a) * Power[3] + Value(b)
        BY <1>2, <1>4, <2>1, ValueOfJoin
    <2> QED
        BY <1>2, <2>2
<1> HIDE DEF a
<1> DEFINE p == Power[3]
           y == Value(b)
<1>9. p \in Nat \ {0} /\ y \in 0 .. p - 1 /\ x \in Int /\ Value(d) = x * p + y
    BY <1>1, <1>5, <1>7, <1>8
<1> HIDE DEF p, y
<1>10. Value(d) = p * x + y
    BY <1>9
<1>11. (p * x + y) \div p = x /\ (p * x + y) % p = y
    BY <1>9, DivModUnique
<1> QED
    BY <1>4, <1>5, <1>10, <1>11 DEF p, x, y, b

\* The value of a clock's digits fits its 14 bits.
LEMMA ClockFits ==
    ASSUME NEW d \in Word(4), d[1] \in 0 .. CLOCK_TOP - 1
    PROVE  Value(d) \in 0 .. CLOCK_SIZE - 1
<1> DEFINE p == Power[3]
           x == d[1]
           y == Value(SubSeq(d, 2, 4))
<1>1. Value(d) = p * x + y /\ p \in Nat \ {0} /\ y \in 0 .. p - 1 /\ x \in 0 .. CLOCK_TOP - 1
      /\ CLOCK_SIZE = p * CLOCK_TOP /\ CLOCK_TOP \in Nat
    BY TopDigit, Powers, Bases, Widths
<1> HIDE DEF p, x, y
<1>2. p * x <= p * (CLOCK_TOP - 1) /\ p * (CLOCK_TOP - 1) = p * CLOCK_TOP - p
      /\ p * x \in Nat /\ p * CLOCK_TOP \in Int
    BY <1>1
<1> QED
    BY <1>1, <1>2

\* Each getter reads a field of its width.
LEMMA ReadType ==
    ASSUME NEW u \in UUIDs, NEW order \in Orders
    PROVE  Read(u, order) \in FieldTypes
<1>1. uuid_variant(u) \in 0 .. VARIANTS - 1 /\ uuid_version(u) \in Digit
    BY SharedDigit DEF uuid_version, UUIDs
<1>2. uuid1_time(u) \in 0 .. TIME_SIZE - 1
    <2>1. PICK d : InV1(u, d)
        BY TimeOfV1
    <2>2. uuid1_time(u) = Value(d) /\ d \in Word(15)
        BY <2>1, TimeOfV1 DEF InV1
    <2>3. Value(d) \in 0 .. Power[15] - 1
        BY <2>2, ValueType
    <2> QED
        BY <2>2, <2>3, Widths
<1>3. from_v6_bytes(u).time \in 0 .. TIME_SIZE - 1
    <2>1. PICK d : InV6(u, d)
        BY TimeOfV6
    <2>2. from_v6_bytes(u).time = Value(d) /\ d \in Word(15)
        BY <2>1, TimeOfV6 DEF InV6
    <2>3. Value(d) \in 0 .. Power[15] - 1
        BY <2>2, ValueType
    <2> QED
        BY <2>2, <2>3, Widths
<1>4. uuid1_clock_seq(u) \in 0 .. CLOCK_SIZE - 1
    <2>1. PICK d : InClock(u, d)
        BY ClockOf
    <2>2. uuid1_clock_seq(u) = Value(d) /\ d \in Word(4) /\ d[1] = u[17] % CLOCK_TOP
        BY <2>1, ClockOf DEF InClock
    <2>3. d[1] \in 0 .. CLOCK_TOP - 1
        BY <2>2, SharedDigit
    <2> QED
        BY <2>2, <2>3, ClockFits
<1>5. uuid1_node(u) \in 0 .. NODE_SIZE - 1
    <2>1. PICK d : InNode(u, d)
        BY NodeOf
    <2>2. uuid1_node(u) = Value(d) /\ d \in Word(12)
        BY <2>1, NodeOf DEF InNode
    <2>3. Value(d) \in 0 .. Power[12] - 1
        BY <2>2, ValueType
    <2> QED
        BY <2>2, <2>3, Widths
<1> QED
    BY <1>1, <1>2, <1>3, <1>4, <1>5 DEF Read, FieldTypes

\* A getter only depends on the digits of its field.
LEMMA SameTime ==
    ASSUME NEW u \in UUIDs, NEW v \in UUIDs, \A i \in 1 .. 16 : i # 13 => u[i] = v[i]
    PROVE  /\ uuid1_time(u) = uuid1_time(v)
           /\ from_v6_bytes(u).time = from_v6_bytes(v).time
<1>1. uuid1_time(u) = uuid1_time(v)
    <2>1. PICK d : InV1(u, d)
        BY TimeOfV1
    <2>2. \A i \in 1 .. 3 : 13 + i \in 1 .. 16 /\ 13 + i # 13
        OBVIOUS
    <2>3. \A i \in 4 .. 7 : 5 + i \in 1 .. 16 /\ 5 + i # 13
        OBVIOUS
    <2>4. \A i \in 8 .. 15 : i - 7 \in 1 .. 16 /\ i - 7 # 13
        OBVIOUS
    <2>5. InV1(v, d)
        BY <2>1, <2>2, <2>3, <2>4 DEF InV1
    <2> QED
        BY <2>1, <2>5, TimeOfV1
<1>2. from_v6_bytes(u).time = from_v6_bytes(v).time
    <2>1. PICK d : InV6(u, d)
        BY TimeOfV6
    <2>2. \A i \in 1 .. 12 : i \in 1 .. 16 /\ i # 13
        OBVIOUS
    <2>3. \A i \in 13 .. 15 : i + 1 \in 1 .. 16 /\ i + 1 # 13
        OBVIOUS
    <2>4. InV6(v, d)
        BY <2>1, <2>2, <2>3 DEF InV6
    <2> QED
        BY <2>1, <2>4, TimeOfV6
<1> QED
    BY <1>1, <1>2

\* The same of the clock sequence.
LEMMA SameClock ==
    ASSUME NEW u \in UUIDs, NEW v \in UUIDs, u[17] % CLOCK_TOP = v[17] % CLOCK_TOP,
           \A i \in 18 .. 20 : u[i] = v[i]
    PROVE  uuid1_clock_seq(u) = uuid1_clock_seq(v)
<1>1. PICK d : InClock(u, d)
    BY ClockOf
<1>2. \A i \in 2 .. 4 : 16 + i \in 18 .. 20
    OBVIOUS
<1>3. InClock(v, d)
    BY <1>1, <1>2 DEF InClock
<1> QED
    BY <1>1, <1>3, ClockOf

\* The same of the node.
LEMMA SameNode ==
    ASSUME NEW u \in UUIDs, NEW v \in UUIDs, \A i \in 21 .. 32 : u[i] = v[i]
    PROVE  uuid1_node(u) = uuid1_node(v)
<1>1. PICK d : InNode(u, d)
    BY NodeOf
<1>2. \A i \in 1 .. 12 : 20 + i \in 21 .. 32
    OBVIOUS
<1>3. InNode(v, d)
    BY <1>1, <1>2 DEF InNode
<1> QED
    BY <1>1, <1>3, NodeOf

\* The fields say it all: two objects of the same fields are the same object.
LEMMA FieldsTell ==
    ASSUME NEW u \in UUIDs, NEW v \in UUIDs, NEW order \in Orders,
           Read(u, order) = Read(v, order)
    PROVE  u = v
<1>1. /\ uuid_variant(u) = uuid_variant(v) /\ u[13] = v[13]
      /\ uuid1_clock_seq(u) = uuid1_clock_seq(v) /\ uuid1_node(u) = uuid1_node(v)
      /\ order = "v1" => uuid1_time(u) = uuid1_time(v)
      /\ order = "v6" => from_v6_bytes(u).time = from_v6_bytes(v).time
    BY DEF Read, uuid_version, Orders
<1>2. ASSUME NEW n \in 0 .. 16, NEW d \in Word(n), NEW e \in Word(n), Value(d) = Value(e)
      PROVE  d = e
    BY <1>2, DigitsOfValue
<1>3. \A i \in 1 .. 16 : u[i] = v[i]
    <2>1. CASE order = "v1"
        <3>1. PICK d : InV1(u, d)
            BY TimeOfV1
        <3>2. PICK e : InV1(v, e)
            BY TimeOfV1
        <3>3. Value(d) = Value(e) /\ d \in Word(15) /\ e \in Word(15)
            BY <1>1, <2>1, <3>1, <3>2, TimeOfV1 DEF InV1
        <3>4. d = e
            BY <1>2, <3>3
        <3>5. \A i \in 1 .. 8 : u[i] = v[i]
            <4>1. \A i \in 1 .. 8 : i + 7 \in 8 .. 15 /\ i + 7 - 7 = i
                OBVIOUS
            <4> QED
                BY <3>1, <3>2, <3>4, <4>1 DEF InV1
        <3>6. \A i \in 9 .. 12 : u[i] = v[i]
            <4>1. \A i \in 9 .. 12 : i - 5 \in 4 .. 7 /\ 5 + (i - 5) = i
                OBVIOUS
            <4> QED
                BY <3>1, <3>2, <3>4, <4>1 DEF InV1
        <3>7. \A i \in 14 .. 16 : u[i] = v[i]
            <4>1. \A i \in 14 .. 16 : i - 13 \in 1 .. 3 /\ 13 + (i - 13) = i
                OBVIOUS
            <4> QED
                BY <3>1, <3>2, <3>4, <4>1 DEF InV1
        <3> QED
            BY <1>1, <3>5, <3>6, <3>7
    <2>2. CASE order = "v6"
        <3>1. PICK d : InV6(u, d)
            BY TimeOfV6
        <3>2. PICK e : InV6(v, e)
            BY TimeOfV6
        <3>3. Value(d) = Value(e) /\ d \in Word(15) /\ e \in Word(15)
            BY <1>1, <2>2, <3>1, <3>2, TimeOfV6 DEF InV6
        <3>4. d = e
            BY <1>2, <3>3
        <3>5. \A i \in 1 .. 12 : u[i] = v[i]
            BY <3>1, <3>2, <3>4 DEF InV6
        <3>6. \A i \in 14 .. 16 : u[i] = v[i]
            <4>1. \A i \in 14 .. 16 : i - 1 \in 13 .. 15 /\ i - 1 + 1 = i
                OBVIOUS
            <4> QED
                BY <3>1, <3>2, <3>4, <4>1 DEF InV6
        <3> QED
            BY <1>1, <3>5, <3>6
    <2> QED
        BY <2>1, <2>2 DEF Orders
<1>4. \A i \in 17 .. 20 : u[i] = v[i]
    <2>1. PICK d : InClock(u, d)
        BY ClockOf
    <2>2. PICK e : InClock(v, e)
        BY ClockOf
    <2>3. Value(d) = Value(e) /\ d \in Word(4) /\ e \in Word(4)
        BY <1>1, <2>1, <2>2, ClockOf DEF InClock
    <2>4. d = e
        BY <1>2, <2>3
    <2>5. u[17] % CLOCK_TOP = v[17] % CLOCK_TOP
        BY <2>1, <2>2, <2>4 DEF InClock
    <2>6. u[17] = v[17]
        BY <1>1, <2>5, SharedDigit
    <2>7. \A i \in 18 .. 20 : u[i] = v[i]
        <3>1. \A i \in 18 .. 20 : i - 16 \in 2 .. 4 /\ 16 + (i - 16) = i
            OBVIOUS
        <3> QED
            BY <2>1, <2>2, <2>4, <3>1 DEF InClock
    <2> QED
        BY <2>6, <2>7
<1>5. \A i \in 21 .. 32 : u[i] = v[i]
    <2>1. PICK d : InNode(u, d)
        BY NodeOf
    <2>2. PICK e : InNode(v, e)
        BY NodeOf
    <2>3. Value(d) = Value(e) /\ d \in Word(12) /\ e \in Word(12)
        BY <1>1, <2>1, <2>2, NodeOf DEF InNode
    <2>4. d = e
        BY <1>2, <2>3
    <2>5. \A i \in 21 .. 32 : i - 20 \in 1 .. 12 /\ 20 + (i - 20) = i
        OBVIOUS
    <2> QED
        BY <2>1, <2>2, <2>4, <2>5 DEF InNode
<1>6. \A i \in 1 .. 32 : u[i] = v[i]
    BY <1>3, <1>4, <1>5
<1> QED
    BY <1>6 DEF UUIDs

\* What each setter does to what the getters read: it puts its field, cut to its
\* width, and leaves the others.  The time setter writes v1's order.
LEMMA ReadSetTime ==
    ASSUME NEW u \in UUIDs, NEW t \in Nat, NEW order \in Orders
    PROVE  Read(SetTime(u, t), "v1") = [Read(u, order) EXCEPT !.time = t % TIME_SIZE]
<1> DEFINE r == SetTime(u, t)
<1>1. r \in UUIDs /\ InV1(r, Digits(t, 15)) /\ r[13] = u[13] /\ \A i \in 17 .. 32 : r[i] = u[i]
    BY SetTimeIs
<1> HIDE DEF r
<1>2. uuid1_time(r) = t % TIME_SIZE
    <2>1. uuid1_time(r) = Value(Digits(t, 15))
        BY <1>1, TimeOfV1
    <2> QED
        BY <2>1, ValueOfDigits, Widths
<1>3. u[17] % CLOCK_TOP = r[17] % CLOCK_TOP /\ \A i \in 18 .. 20 : r[i] = u[i]
    BY <1>1
<1>4. uuid1_clock_seq(r) = uuid1_clock_seq(u) /\ uuid1_node(r) = uuid1_node(u)
    BY <1>1, <1>3, SameClock, SameNode
<1>5. uuid_variant(r) = uuid_variant(u) /\ uuid_version(r) = uuid_version(u)
    BY <1>1 DEF uuid_variant, uuid_version
<1>6. Read(r, "v1") = [Read(u, order) EXCEPT !.time = t % TIME_SIZE]
    BY <1>2, <1>4, <1>5 DEF Read
<1> QED
    BY <1>6 DEF r

\* The clock setter.
LEMMA ReadSetClock ==
    ASSUME NEW u \in UUIDs, NEW c \in Nat, NEW order \in Orders
    PROVE  Read(SetClockSeq(u, c), order) = [Read(u, order) EXCEPT !.clock = c % CLOCK_SIZE]
<1> DEFINE r == SetClockSeq(u, c)
<1>1. r \in UUIDs /\ InClock(r, ClockDigits(c)) /\ uuid_variant(r) = uuid_variant(u)
      /\ \A i \in (1 .. 16) \cup (21 .. 32) : r[i] = u[i]
    BY SetClockSeqIs
<1> HIDE DEF r
<1>2. uuid1_clock_seq(r) = c % CLOCK_SIZE
    BY <1>1, ClockOf, ClockDigitsAre
<1>3. (\A i \in 1 .. 16 : r[i] = u[i]) /\ \A i \in 21 .. 32 : r[i] = u[i]
    BY <1>1
<1>4. /\ uuid1_time(r) = uuid1_time(u) /\ from_v6_bytes(r).time = from_v6_bytes(u).time
      /\ uuid1_node(r) = uuid1_node(u)
    BY <1>1, <1>3, SameTime, SameNode
<1>5. uuid_version(r) = uuid_version(u)
    BY <1>3 DEF uuid_version
<1>6. Read(r, order) = [Read(u, order) EXCEPT !.clock = c % CLOCK_SIZE]
    BY <1>1, <1>2, <1>4, <1>5 DEF Read
<1> QED
    BY <1>6 DEF r

\* The node setter.
LEMMA ReadSetNode ==
    ASSUME NEW u \in UUIDs, NEW n \in Nat, NEW order \in Orders
    PROVE  Read(SetNode(u, n), order) = [Read(u, order) EXCEPT !.node = n % NODE_SIZE]
<1> DEFINE r == SetNode(u, n)
<1>1. r \in UUIDs /\ InNode(r, Digits(n, 12)) /\ \A i \in 1 .. 20 : r[i] = u[i]
    BY SetNodeIs
<1> HIDE DEF r
<1>2. uuid1_node(r) = n % NODE_SIZE
    <2>1. uuid1_node(r) = Value(Digits(n, 12))
        BY <1>1, NodeOf
    <2> QED
        BY <2>1, ValueOfDigits, Widths
<1>3. /\ \A i \in 1 .. 16 : r[i] = u[i]
      /\ r[17] % CLOCK_TOP = u[17] % CLOCK_TOP /\ \A i \in 18 .. 20 : r[i] = u[i]
    BY <1>1
<1>4. /\ uuid1_time(r) = uuid1_time(u) /\ from_v6_bytes(r).time = from_v6_bytes(u).time
      /\ uuid1_clock_seq(r) = uuid1_clock_seq(u)
    BY <1>1, <1>3, SameTime, SameClock
<1>5. uuid_variant(r) = uuid_variant(u) /\ uuid_version(r) = uuid_version(u)
    BY <1>1 DEF uuid_variant, uuid_version
<1>6. Read(r, order) = [Read(u, order) EXCEPT !.node = n % NODE_SIZE]
    BY <1>2, <1>4, <1>5 DEF Read
<1> QED
    BY <1>6 DEF r

\* The variant setter.
LEMMA ReadSetVariant ==
    ASSUME NEW u \in UUIDs, NEW high \in Digit, NEW order \in Orders
    PROVE  Read(SetVariant(u, high), order)
            = [Read(u, order) EXCEPT !.variant = high \div CLOCK_TOP]
<1> DEFINE r == SetVariant(u, high)
<1>1. /\ r \in UUIDs /\ uuid_variant(r) = high \div CLOCK_TOP
      /\ r[17] % CLOCK_TOP = u[17] % CLOCK_TOP
      /\ \A i \in 1 .. 32 : i # 17 => r[i] = u[i]
    BY SetVariantIs
<1> HIDE DEF r
<1>2. /\ \A i \in 1 .. 16 : r[i] = u[i]
      /\ \A i \in 18 .. 20 : r[i] = u[i]
      /\ \A i \in 21 .. 32 : r[i] = u[i]
    BY <1>1
<1>3. uuid1_time(r) = uuid1_time(u) /\ from_v6_bytes(r).time = from_v6_bytes(u).time
    BY <1>1, <1>2, SameTime
<1>4. uuid1_clock_seq(r) = uuid1_clock_seq(u) /\ uuid1_node(r) = uuid1_node(u)
    BY <1>1, <1>2, SameClock, SameNode
<1>5. uuid_version(r) = uuid_version(u)
    BY <1>2 DEF uuid_version
<1>6. Read(r, order) = [Read(u, order) EXCEPT !.variant = high \div CLOCK_TOP]
    BY <1>1, <1>3, <1>4, <1>5 DEF Read
<1> QED
    BY <1>6 DEF r

\* The version setter.
LEMMA ReadSetVersion ==
    ASSUME NEW u \in UUIDs, NEW version \in Nat, NEW order \in Orders
    PROVE  Read(SetVersion(u, version), order)
            = [Read(u, order) EXCEPT !.version = version % BASE]
<1> DEFINE r == SetVersion(u, version)
<1>1. /\ r \in UUIDs /\ uuid_version(r) = version % BASE
      /\ \A i \in 1 .. 32 : i # 13 => r[i] = u[i]
    BY SetVersionIs
<1> HIDE DEF r
<1>2. /\ \A i \in 1 .. 16 : i # 13 => r[i] = u[i]
      /\ r[17] = u[17] /\ \A i \in 18 .. 20 : r[i] = u[i]
      /\ \A i \in 21 .. 32 : r[i] = u[i]
    BY <1>1
<1>3. uuid1_time(r) = uuid1_time(u) /\ from_v6_bytes(r).time = from_v6_bytes(u).time
    BY <1>1, <1>2, SameTime
<1>4. uuid1_clock_seq(r) = uuid1_clock_seq(u) /\ uuid1_node(r) = uuid1_node(u)
    BY <1>1, <1>2, SameClock, SameNode
<1>5. uuid_variant(r) = uuid_variant(u)
    BY <1>2 DEF uuid_variant
<1>6. Read(r, order) = [Read(u, order) EXCEPT !.version = version % BASE]
    BY <1>1, <1>3, <1>4, <1>5 DEF Read
<1> QED
    BY <1>6 DEF r

\* The fields laid out as v6 are read back as they were put in, cut to their
\* widths.
LEMMA ReadV6 ==
    ASSUME NEW t \in Nat, NEW c \in Nat, NEW n \in Nat
    PROVE  /\ to_v6_bytes(t, c, n) \in UUIDs
           /\ Read(to_v6_bytes(t, c, n), "v6") = Fields(RFC, V6, t, c, n)
<1> DEFINE r == to_v6_bytes(t, c, n)
<1>1. /\ r \in UUIDs /\ InV6(r, Digits(t, 15)) /\ r[13] = V6 /\ uuid_variant(r) = RFC
      /\ InClock(r, ClockDigits(c)) /\ InNode(r, Digits(n, 12))
    BY ToV6Is
<1> HIDE DEF r
<1>2. from_v6_bytes(r).time = t % TIME_SIZE
    <2>1. from_v6_bytes(r).time = Value(Digits(t, 15))
        BY <1>1, TimeOfV6
    <2> QED
        BY <2>1, ValueOfDigits, Widths
<1>3. uuid1_clock_seq(r) = c % CLOCK_SIZE
    BY <1>1, ClockOf, ClockDigitsAre
<1>4. uuid1_node(r) = n % NODE_SIZE
    <2>1. uuid1_node(r) = Value(Digits(n, 12))
        BY <1>1, NodeOf
    <2> QED
        BY <2>1, ValueOfDigits, Widths
<1>5. Read(r, "v6") = Fields(RFC, V6, t, c, n)
    BY <1>1, <1>2, <1>3, <1>4 DEF Read, Fields, uuid_version
<1> QED
    BY <1>1, <1>5 DEF r

\* The fields unserialise_condensed lays out are those the getters of v1 read.
LEMMA ReadCondensed ==
    ASSUME NEW t \in Nat, NEW c \in 0 .. CLOCK_SIZE - 1, NEW n \in Nat
    PROVE  /\ CondensedLayout(t, c, n) \in UUIDs
           /\ Read(CondensedLayout(t, c, n), "v1") = Fields(RFC, V1, t, c, n)
<1> DEFINE r == CondensedLayout(t, c, n)
<1>1. /\ r \in UUIDs /\ InV1(r, Digits(t, 15)) /\ r[13] = V1 /\ uuid_variant(r) = RFC
      /\ InClock(r, ClockDigits(c)) /\ InNode(r, Digits(n, 12))
    BY CondensedLayoutIs
<1> HIDE DEF r
<1>2. uuid1_time(r) = t % TIME_SIZE
    <2>1. uuid1_time(r) = Value(Digits(t, 15))
        BY <1>1, TimeOfV1
    <2> QED
        BY <2>1, ValueOfDigits, Widths
<1>3. uuid1_clock_seq(r) = c % CLOCK_SIZE
    <2>1. c \in Nat
        BY Widths
    <2> QED
        BY <1>1, <2>1, ClockOf, ClockDigitsAre
<1>4. uuid1_node(r) = n % NODE_SIZE
    <2>1. uuid1_node(r) = Value(Digits(n, 12))
        BY <1>1, NodeOf
    <2> QED
        BY <2>1, ValueOfDigits, Widths
<1>5. Read(r, "v1") = Fields(RFC, V1, t, c, n)
    BY <1>1, <1>2, <1>3, <1>4 DEF Read, Fields, uuid_version
<1> QED
    BY <1>1, <1>5 DEF r

-----------------------------------------------------------------------------
(* The constructor from bytes in little-endian order.                      *)

\* A byte is two digits; two bytes and four, the low one first, count what they
\* count in the other order.
LEMMA ByteIs ==
    ASSUME NEW u \in UUIDs, NEW i \in 0 .. 15
    PROVE  /\ Byte(u, i) \in Word(2)
           /\ Byte(u, i)[1] = u[2 * i + 1] /\ Byte(u, i)[2] = u[2 * i + 2]
<1> DEFINE a == 2 * i + 1
           b == 2 * i + 2
<1>1. u \in Word(32) /\ a \in 1 .. 32 /\ b \in a .. 32 /\ b - a + 1 = 2 /\ a + 1 - 1 = a
      /\ a + 2 - 1 = b
    BY DEF UUIDs, Word
<1>2. Byte(u, i) = SubSeq(u, a, b)
    BY DEF Byte
<1> HIDE DEF a, b
<1>3. Parted(SubSeq(u, a, b), u, a, b, Digit)
    BY <1>1, PartOfWord
<1> DEFINE s == SubSeq(u, a, b)
<1> HIDE DEF s
<1>4. s \in Word(2) /\ s[1] = u[a] /\ s[2] = u[b]
    <2>1. s \in [1 .. 2 -> Digit] /\ \A j \in 1 .. 2 : s[j] = u[a + j - 1]
        BY <1>1, <1>3 DEF Parted, s
    <2> QED
        BY <1>1, <2>1 DEF Word
<1> QED
    BY <1>2, <1>4 DEF s, a, b

\* Two bytes, the second one first.
TwoAre(w, u, i) ==
    /\ w \in Word(4)
    /\ w[1] = u[2 * i + 3] /\ w[2] = u[2 * i + 4]
    /\ w[3] = u[2 * i + 1] /\ w[4] = u[2 * i + 2]
    /\ TwoLowFirst(u, i) = Value(w)

\* They count what the two bytes count, the low one first.
LEMMA TwoIs ==
    ASSUME NEW u \in UUIDs, NEW i \in 0 .. 14
    PROVE  TwoAre(Byte(u, i + 1) \o Byte(u, i), u, i)
<1> DEFINE a == Byte(u, i + 1)
           b == Byte(u, i)
           w == a \o b
<1>1. a \in Word(2) /\ a[1] = u[2 * i + 3] /\ a[2] = u[2 * i + 4]
    <2>1. i + 1 \in 0 .. 15 /\ 2 * (i + 1) + 1 = 2 * i + 3 /\ 2 * (i + 1) + 2 = 2 * i + 4
        OBVIOUS
    <2>2. a \in Word(2) /\ a[1] = u[2 * (i + 1) + 1] /\ a[2] = u[2 * (i + 1) + 2]
        BY <2>1, ByteIs
    <2> QED
        BY <2>1, <2>2
<1>2. b \in Word(2) /\ b[1] = u[2 * i + 1] /\ b[2] = u[2 * i + 2]
    <2>1. i \in 0 .. 15
        OBVIOUS
    <2> QED
        BY <2>1, ByteIs
<1>3. TwoLowFirst(u, i) = Value(b) + Power[2] * Value(a)
    BY DEF TwoLowFirst
<1> HIDE DEF a, b
<1>4. 2 \in 0 .. 16 /\ 2 \in 0 .. 16 - 2
    OBVIOUS
<1>5. Value(w) = Value(a) * Power[2] + Value(b)
    BY <1>1, <1>2, <1>4, ValueOfJoin
<1>6. Value(a) \in Int /\ Value(b) \in Int /\ Power[2] \in Int
    BY <1>1, <1>2, <1>4, ValueType, Powers
<1>7. Value(a) * Power[2] + Value(b) = Value(b) + Power[2] * Value(a)
    BY <1>6
<1>8. Joined(w, a, b, 2, 2, Digit)
    BY <1>1, <1>2, JoinWords
<1> HIDE DEF w
<1>9. w \in Word(4) /\ w[1] = a[1] /\ w[2] = a[2] /\ w[3] = b[1] /\ w[4] = b[2]
    BY <1>8 DEF Joined, Word
<1>10. w[1] = u[2 * i + 3] /\ w[2] = u[2 * i + 4] /\ w[3] = u[2 * i + 1] /\ w[4] = u[2 * i + 2]
    BY <1>1, <1>2, <1>9
<1> QED
    BY <1>3, <1>5, <1>7, <1>9, <1>10 DEF w, a, b, TwoAre

\* The bytes of the first three fields change places.
LEMMA FromBytesIs ==
    ASSUME NEW u \in UUIDs
    PROVE  LET r == FromBytes(u, TRUE)
           IN  /\ r \in UUIDs
               /\ r[1] = u[7] /\ r[2] = u[8] /\ r[3] = u[5] /\ r[4] = u[6]
               /\ r[5] = u[3] /\ r[6] = u[4] /\ r[7] = u[1] /\ r[8] = u[2]
               /\ r[9] = u[11] /\ r[10] = u[12] /\ r[11] = u[9] /\ r[12] = u[10]
               /\ r[13] = u[15] /\ r[14] = u[16] /\ r[15] = u[13] /\ r[16] = u[14]
               /\ \A i \in 17 .. 32 : r[i] = u[i]
<1> DEFINE B(i) == Byte(u, i)
           c1 == B(3) \o B(2)
           c2 == c1 \o B(1)
           c3 == c2 \o B(0)
           c4 == c3 \o B(5)
           c5 == c4 \o B(4)
           c6 == c5 \o B(7)
           c7 == c6 \o B(6)
           e == SubSeq(u, 17, 32)
           r == c7 \o e
<1>1. \A i \in 0 .. 15 : B(i) \in Word(2) /\ B(i)[1] = u[2 * i + 1] /\ B(i)[2] = u[2 * i + 2]
    BY ByteIs
<1>2. Parted(e, u, 17, 32, Digit)
    <2>1. u \in Word(32)
        BY DEF UUIDs, Word
    <2> QED
        BY <2>1, PartOfWord
<1>3. FromBytes(u, TRUE) = r
    BY DEF FromBytes
<1> HIDE DEF B, e
<1>4. /\ B(0) \in Word(2) /\ B(0)[1] = u[1] /\ B(0)[2] = u[2]
      /\ B(1) \in Word(2) /\ B(1)[1] = u[3] /\ B(1)[2] = u[4]
      /\ B(2) \in Word(2) /\ B(2)[1] = u[5] /\ B(2)[2] = u[6]
      /\ B(3) \in Word(2) /\ B(3)[1] = u[7] /\ B(3)[2] = u[8]
      /\ B(4) \in Word(2) /\ B(4)[1] = u[9] /\ B(4)[2] = u[10]
      /\ B(5) \in Word(2) /\ B(5)[1] = u[11] /\ B(5)[2] = u[12]
      /\ B(6) \in Word(2) /\ B(6)[1] = u[13] /\ B(6)[2] = u[14]
      /\ B(7) \in Word(2) /\ B(7)[1] = u[15] /\ B(7)[2] = u[16]
    BY <1>1
<1>5. Joined(c1, B(3), B(2), 2, 2, Digit)
    BY <1>4, JoinWords
<1> HIDE DEF c1
<1>6. c1 \in Word(4) /\ c1[1] = u[7] /\ c1[2] = u[8] /\ c1[3] = u[5] /\ c1[4] = u[6]
    BY <1>4, <1>5 DEF Joined, Word
<1>7. Joined(c2, c1, B(1), 4, 2, Digit)
    BY <1>4, <1>6, JoinWords
<1> HIDE DEF c2
<1>8. c2 \in Word(6) /\ (\A i \in 1 .. 4 : c2[i] = c1[i]) /\ c2[5] = u[3] /\ c2[6] = u[4]
    BY <1>4, <1>7 DEF Joined, Word
<1>9. Joined(c3, c2, B(0), 6, 2, Digit)
    BY <1>4, <1>8, JoinWords
<1> HIDE DEF c3
<1>10. c3 \in Word(8) /\ (\A i \in 1 .. 6 : c3[i] = c2[i]) /\ c3[7] = u[1] /\ c3[8] = u[2]
    BY <1>4, <1>9 DEF Joined, Word
<1>11. Joined(c4, c3, B(5), 8, 2, Digit)
    BY <1>4, <1>10, JoinWords
<1> HIDE DEF c4
<1>12. c4 \in Word(10) /\ (\A i \in 1 .. 8 : c4[i] = c3[i]) /\ c4[9] = u[11] /\ c4[10] = u[12]
    BY <1>4, <1>11 DEF Joined, Word
<1>13. Joined(c5, c4, B(4), 10, 2, Digit)
    BY <1>4, <1>12, JoinWords
<1> HIDE DEF c5
<1>14. c5 \in Word(12) /\ (\A i \in 1 .. 10 : c5[i] = c4[i]) /\ c5[11] = u[9] /\ c5[12] = u[10]
    BY <1>4, <1>13 DEF Joined, Word
<1>15. Joined(c6, c5, B(7), 12, 2, Digit)
    BY <1>4, <1>14, JoinWords
<1> HIDE DEF c6
<1>16. c6 \in Word(14) /\ (\A i \in 1 .. 12 : c6[i] = c5[i]) /\ c6[13] = u[15] /\ c6[14] = u[16]
    BY <1>4, <1>15 DEF Joined, Word
<1>17. Joined(c7, c6, B(6), 14, 2, Digit)
    BY <1>4, <1>16, JoinWords
<1> HIDE DEF c7
<1>18. c7 \in Word(16) /\ (\A i \in 1 .. 14 : c7[i] = c6[i]) /\ c7[15] = u[13] /\ c7[16] = u[14]
    BY <1>4, <1>17 DEF Joined, Word
<1>19. e \in Word(16)
    BY <1>2 DEF Parted, Word
<1>20. Joined(r, c7, e, 16, 16, Digit)
    BY <1>18, <1>19, JoinWords
<1> HIDE DEF r
<1>21. r \in UUIDs /\ \A i \in 1 .. 16 : r[i] = c7[i]
    BY <1>20 DEF Joined, UUIDs
<1>22. \A i \in 17 .. 32 : r[i] = u[i]
    BY <1>2, <1>20 DEF Joined, Parted
<1>23. /\ r[13] = u[15] /\ r[14] = u[16] /\ r[15] = u[13] /\ r[16] = u[14]
       /\ \A i \in 1 .. 12 : r[i] = c5[i]
    BY <1>16, <1>18, <1>21
<1>24. /\ r[9] = u[11] /\ r[10] = u[12] /\ r[11] = u[9] /\ r[12] = u[10]
       /\ \A i \in 1 .. 8 : r[i] = c3[i]
    BY <1>12, <1>14, <1>23
<1>25. /\ r[1] = u[7] /\ r[2] = u[8] /\ r[3] = u[5] /\ r[4] = u[6]
       /\ r[5] = u[3] /\ r[6] = u[4] /\ r[7] = u[1] /\ r[8] = u[2]
    BY <1>6, <1>8, <1>10, <1>24
<1> QED
    BY <1>3, <1>21, <1>22, <1>23, <1>24, <1>25

\* The first three fields of a GUID are read as numbers, their low byte first;
\* the other fields as they are.
LEMMA ReadFromBytes ==
    ASSUME NEW u \in UUIDs
    PROVE  FromBytes(u, TRUE) \in UUIDs /\ Read(FromBytes(u, TRUE), "v1") = ReadLowFirst(u)
<1> DEFINE r == FromBytes(u, TRUE)
           h == Byte(u, 7) \o Byte(u, 6)
           m == Byte(u, 5) \o Byte(u, 4)
           l == Byte(u, 3) \o Byte(u, 2)
           k == Byte(u, 1) \o Byte(u, 0)
           g == SubSeq(h, 2, 4)
           lk == l \o k
           gm == g \o m
           d == gm \o lk
<1>1. /\ r \in UUIDs
      /\ r[1] = u[7] /\ r[2] = u[8] /\ r[3] = u[5] /\ r[4] = u[6]
      /\ r[5] = u[3] /\ r[6] = u[4] /\ r[7] = u[1] /\ r[8] = u[2]
      /\ r[9] = u[11] /\ r[10] = u[12] /\ r[11] = u[9] /\ r[12] = u[10]
      /\ r[13] = u[15] /\ r[14] = u[16] /\ r[15] = u[13] /\ r[16] = u[14]
      /\ \A i \in 17 .. 32 : r[i] = u[i]
    BY FromBytesIs
<1>2. /\ h \in Word(4) /\ h[1] = u[15] /\ h[2] = u[16] /\ h[3] = u[13] /\ h[4] = u[14]
      /\ TwoLowFirst(u, 6) = Value(h)
    <2>1. TwoAre(Byte(u, 6 + 1) \o Byte(u, 6), u, 6)
        BY TwoIs
    <2>2. 6 + 1 = 7 /\ 2 * 6 + 1 = 13 /\ 2 * 6 + 2 = 14 /\ 2 * 6 + 3 = 15
          /\ 2 * 6 + 4 = 16
        OBVIOUS
    <2> QED
        BY <2>1, <2>2 DEF TwoAre
<1>3. /\ m \in Word(4) /\ m[1] = u[11] /\ m[2] = u[12] /\ m[3] = u[9] /\ m[4] = u[10]
      /\ TwoLowFirst(u, 4) = Value(m)
    <2>1. TwoAre(Byte(u, 4 + 1) \o Byte(u, 4), u, 4)
        BY TwoIs
    <2>2. 4 + 1 = 5 /\ 2 * 4 + 1 = 9 /\ 2 * 4 + 2 = 10 /\ 2 * 4 + 3 = 11
          /\ 2 * 4 + 4 = 12
        OBVIOUS
    <2> QED
        BY <2>1, <2>2 DEF TwoAre
<1>4. /\ l \in Word(4) /\ l[1] = u[7] /\ l[2] = u[8] /\ l[3] = u[5] /\ l[4] = u[6]
      /\ TwoLowFirst(u, 2) = Value(l)
    <2>1. TwoAre(Byte(u, 2 + 1) \o Byte(u, 2), u, 2)
        BY TwoIs
    <2>2. 2 + 1 = 3 /\ 2 * 2 + 1 = 5 /\ 2 * 2 + 2 = 6 /\ 2 * 2 + 3 = 7
          /\ 2 * 2 + 4 = 8
        OBVIOUS
    <2> QED
        BY <2>1, <2>2 DEF TwoAre
<1>5. /\ k \in Word(4) /\ k[1] = u[3] /\ k[2] = u[4] /\ k[3] = u[1] /\ k[4] = u[2]
      /\ TwoLowFirst(u, 0) = Value(k)
    <2>1. TwoAre(Byte(u, 0 + 1) \o Byte(u, 0), u, 0)
        BY TwoIs
    <2>2. 0 + 1 = 1 /\ 2 * 0 + 1 = 1 /\ 2 * 0 + 2 = 2 /\ 2 * 0 + 3 = 3
          /\ 2 * 0 + 4 = 4
        OBVIOUS
    <2> QED
        BY <2>1, <2>2 DEF TwoAre
<1>6. FourLowFirst(u, 0) = Value(k) + Power[4] * Value(l)
    <2>1. 0 + 2 = 2
        OBVIOUS
    <2> QED
        BY <1>4, <1>5, <2>1 DEF FourLowFirst
<1> HIDE DEF r, h, m, l, k
<1>7. /\ g \in Word(3) /\ g[1] = h[2] /\ g[2] = h[3] /\ g[3] = h[4]
      /\ Value(h) \div Power[3] = h[1] /\ Value(h) % Power[3] = Value(g)
    BY <1>2, TopDigit
<1> HIDE DEF g
<1>8. Joined(lk, l, k, 4, 4, Digit) /\ Value(lk) = Value(l) * Power[4] + Value(k)
    <2>1. 4 \in 0 .. 16 /\ 4 \in 0 .. 16 - 4
        OBVIOUS
    <2> QED
        BY <1>4, <1>5, <2>1, JoinWords, ValueOfJoin
<1> HIDE DEF lk
<1>9. lk \in Word(8)
    BY <1>8 DEF Joined, Word
<1>10. Joined(gm, g, m, 3, 4, Digit) /\ Value(gm) = Value(g) * Power[4] + Value(m)
    <2>1. 3 \in 0 .. 16 /\ 4 \in 0 .. 16 - 3
        OBVIOUS
    <2> QED
        BY <1>3, <1>7, <2>1, JoinWords, ValueOfJoin
<1> HIDE DEF gm
<1>11. gm \in Word(7)
    BY <1>10 DEF Joined, Word
<1>12. Joined(d, gm, lk, 7, 8, Digit) /\ Value(d) = Value(gm) * Power[8] + Value(lk)
    <2>1. 7 \in 0 .. 16 /\ 8 \in 0 .. 16 - 7
        OBVIOUS
    <2> QED
        BY <1>9, <1>11, <2>1, JoinWords, ValueOfJoin
<1> HIDE DEF d
<1>13. InV1(r, d)
    <2>1. d \in Word(15)
        BY <1>12 DEF Joined, Word
    <2>2. (\A i \in 1 .. 7 : d[i] = gm[i]) /\ \A i \in 8 .. 15 : d[i] = lk[i - 7]
        BY <1>12 DEF Joined
    <2>3. /\ gm[1] = g[1] /\ gm[2] = g[2] /\ gm[3] = g[3]
          /\ gm[4] = m[1] /\ gm[5] = m[2] /\ gm[6] = m[3] /\ gm[7] = m[4]
        BY <1>10 DEF Joined
    <2>4. /\ lk[1] = l[1] /\ lk[2] = l[2] /\ lk[3] = l[3] /\ lk[4] = l[4]
          /\ lk[5] = k[1] /\ lk[6] = k[2] /\ lk[7] = k[3] /\ lk[8] = k[4]
        BY <1>8 DEF Joined
    <2>5. d[1] = r[14] /\ d[2] = r[15] /\ d[3] = r[16]
        BY <1>1, <1>2, <1>7, <2>2, <2>3
    <2>6. d[4] = r[9] /\ d[5] = r[10] /\ d[6] = r[11] /\ d[7] = r[12]
        BY <1>1, <1>3, <2>2, <2>3
    <2>7. d[8] = lk[1] /\ d[9] = lk[2] /\ d[10] = lk[3] /\ d[11] = lk[4]
          /\ d[12] = lk[5] /\ d[13] = lk[6] /\ d[14] = lk[7] /\ d[15] = lk[8]
        BY <2>2
    <2>8. d[8] = r[1] /\ d[9] = r[2] /\ d[10] = r[3] /\ d[11] = r[4]
          /\ d[12] = r[5] /\ d[13] = r[6] /\ d[14] = r[7] /\ d[15] = r[8]
        BY <1>1, <1>4, <1>5, <2>4, <2>7
    <2> QED
        BY <2>1, <2>5, <2>6, <2>8 DEF InV1
<1>14. uuid1_time(r) = Value(d)
    BY <1>1, <1>13, TimeOfV1
<1>15. Value(d) = Value(g) * Power[12] + Value(m) * Power[8] + (Value(k) + Power[4] * Value(l))
    <2> DEFINE x == Value(g)
               y == Value(m)
               z == Value(k)
               w == Value(l)
               p == Power[4]
               q == Power[8]
    <2>1. x \in Nat /\ y \in Nat /\ z \in Nat /\ w \in Nat
        <3>1. 3 \in 0 .. 16 /\ 4 \in 0 .. 16 /\ Power[3] \in Nat /\ Power[4] \in Nat
            BY Powers
        <3> QED
            BY <1>3, <1>4, <1>5, <1>7, <3>1, ValueType
    <2>2. p \in Nat /\ q \in Nat /\ Power[12] = p * q
        <3>1. 4 \in 0 .. 16 /\ 8 \in 0 .. 16 - 4 /\ 4 + 8 = 12
            OBVIOUS
        <3> QED
            BY <3>1, PowersMultiply, Powers
    <2>3. Value(d) = (x * p + y) * q + (w * p + z)
        BY <1>8, <1>10, <1>12
    <2> HIDE DEF x, y, z, w, p, q
    <2>4. (x * p + y) * q + (w * p + z) = x * (p * q) + y * q + (z + p * w)
        BY <2>1, <2>2
    <2> QED
        BY <2>2, <2>3, <2>4 DEF x, y, z, w, p, q
<1>16. uuid_version(r) = Value(h) \div Power[3]
    BY <1>1, <1>2, <1>7 DEF uuid_version
<1>17. uuid_variant(r) = uuid_variant(u)
    BY <1>1 DEF uuid_variant
<1>18. uuid1_clock_seq(r) = uuid1_clock_seq(u) /\ uuid1_node(r) = uuid1_node(u)
    <2>1. r[17] % CLOCK_TOP = u[17] % CLOCK_TOP /\ \A i \in 18 .. 20 : r[i] = u[i]
        BY <1>1
    <2>2. \A i \in 21 .. 32 : r[i] = u[i]
        BY <1>1
    <2> QED
        BY <1>1, <2>1, <2>2, SameClock, SameNode
<1>19. Read(r, "v1") = ReadLowFirst(u)
    <2> DEFINE hi == TwoLowFirst(u, 6)
               time == (hi % Power[3]) * Power[12] + TwoLowFirst(u, 4) * Power[8]
                        + FourLowFirst(u, 0)
               a == uuid_variant(u)
               b == uuid1_clock_seq(u)
               c == uuid1_node(u)
    <2>1. uuid1_time(r) = time
        BY <1>2, <1>3, <1>6, <1>7, <1>14, <1>15
    <2>2. uuid_version(r) = hi \div Power[3]
        BY <1>2, <1>16
    <2>3. ReadLowFirst(u) = [variant |-> a, version |-> hi \div Power[3], time |-> time,
                             clock |-> b, node |-> c]
        BY DEF ReadLowFirst
    <2> HIDE DEF time, hi
    <2> QED
        BY <1>17, <1>18, <2>1, <2>2, <2>3 DEF Read
<1> QED
    BY <1>1, <1>19 DEF r
-----------------------------------------------------------------------------
(* Text.                                                                   *)

\* Where a text has the n-th digit.
Place(n) ==
    IF n <= 8 THEN n ELSE IF n <= 12 THEN n + 1 ELSE IF n <= 16 THEN n + 2
    ELSE IF n <= 20 THEN n + 3 ELSE n + 4

\* The pairs of characters are the places of the digits, and a group begins
\* after each dash.
LEMMA Pairs ==
    /\ \A i \in 0 .. 15 : PairAt(i) = Place(2 * i + 1) /\ PairAt(i) + 1 = Place(2 * i + 2)
    /\ PairAt(4) - 1 = 9 /\ PairAt(6) - 1 = 14 /\ PairAt(8) - 1 = 19 /\ PairAt(10) - 1 = 24
<1> DEFINE Starts(i) == { g \in GroupStarts : g <= i }
<1>1. /\ IsFiniteSet({}) /\ Cardinality({}) = 0
      /\ IsFiniteSet({4}) /\ Cardinality({4}) = 1
      /\ IsFiniteSet({4, 6}) /\ Cardinality({4, 6}) = 2
      /\ IsFiniteSet({4, 6, 8}) /\ Cardinality({4, 6, 8}) = 3
      /\ Cardinality({4, 6, 8, 10}) = 4
    <2>1. IsFiniteSet({}) /\ Cardinality({}) = 0
        BY FS_EmptySet
    <2>2. IsFiniteSet({4}) /\ Cardinality({4}) = 1
        <3>1. {4} = {} \cup {4} /\ 4 \notin {}
            OBVIOUS
        <3> QED
            BY <2>1, <3>1, FS_AddElement
    <2>3. IsFiniteSet({4, 6}) /\ Cardinality({4, 6}) = 2
        <3>1. {4, 6} = {4} \cup {6} /\ 6 \notin {4}
            OBVIOUS
        <3> QED
            BY <2>2, <3>1, FS_AddElement
    <2>4. IsFiniteSet({4, 6, 8}) /\ Cardinality({4, 6, 8}) = 3
        <3>1. {4, 6, 8} = {4, 6} \cup {8} /\ 8 \notin {4, 6}
            OBVIOUS
        <3> QED
            BY <2>3, <3>1, FS_AddElement
    <2>5. Cardinality({4, 6, 8, 10}) = 4
        <3>1. {4, 6, 8, 10} = {4, 6, 8} \cup {10} /\ 10 \notin {4, 6, 8}
            OBVIOUS
        <3> QED
            BY <2>4, <3>1, FS_AddElement
    <2> QED
        BY <2>1, <2>2, <2>3, <2>4, <2>5
<1>2. ASSUME NEW i \in 0 .. 15
      PROVE  PairAt(i) = Place(2 * i + 1) /\ PairAt(i) + 1 = Place(2 * i + 2)
    <2>1. CASE i \in 0 .. 3
        <3>1. Starts(i) = {}
            BY <2>1 DEF GroupStarts
        <3> QED
            BY <1>1, <2>1, <3>1 DEF PairAt, Place
    <2>2. CASE i \in 4 .. 5
        <3>1. Starts(i) = {4}
            BY <2>2 DEF GroupStarts
        <3> QED
            BY <1>1, <2>2, <3>1 DEF PairAt, Place
    <2>3. CASE i \in 6 .. 7
        <3>1. Starts(i) = {4, 6}
            BY <2>3 DEF GroupStarts
        <3> QED
            BY <1>1, <2>3, <3>1 DEF PairAt, Place
    <2>4. CASE i \in 8 .. 9
        <3>1. Starts(i) = {4, 6, 8}
            BY <2>4 DEF GroupStarts
        <3> QED
            BY <1>1, <2>4, <3>1 DEF PairAt, Place
    <2>5. CASE i \in 10 .. 15
        <3>1. Starts(i) = {4, 6, 8, 10}
            BY <2>5 DEF GroupStarts
        <3> QED
            BY <1>1, <2>5, <3>1 DEF PairAt, Place
    <2> QED
        BY <2>1, <2>2, <2>3, <2>4, <2>5
<1>3. PairAt(4) = Place(9) /\ PairAt(6) = Place(13) /\ PairAt(8) = Place(17)
      /\ PairAt(10) = Place(21)
    <2>1. /\ 4 \in 0 .. 15 /\ 2 * 4 + 1 = 9 /\ 6 \in 0 .. 15 /\ 2 * 6 + 1 = 13
          /\ 8 \in 0 .. 15 /\ 2 * 8 + 1 = 17 /\ 10 \in 0 .. 15 /\ 2 * 10 + 1 = 21
        OBVIOUS
    <2> QED
        BY <1>2, <2>1
<1> QED
    BY <1>2, <1>3 DEF Place

\* The places of the digits are the runs of is_valid.
LEMMA Places ==
    /\ \A n \in 1 .. 32 : Place(n) \in HexRuns /\ Place(n) \in 1 .. 36
                            /\ Place(n) \notin {9, 14, 19, 24}
    /\ \A j \in HexRuns : \E n \in 1 .. 32 : j = Place(n)
    /\ \A j \in 1 .. 36 : j \in HexRuns \/ j \in {9, 14, 19, 24}
<1>1. ASSUME NEW j \in HexRuns
      PROVE  \E n \in 1 .. 32 : j = Place(n)
    <2>1. CASE j \in 1 .. 8
        BY <2>1 DEF Place
    <2>2. CASE j \in 10 .. 13
        <3>1. j - 1 \in 1 .. 32 /\ Place(j - 1) = j
            BY <2>2 DEF Place
        <3> QED
            BY <3>1
    <2>3. CASE j \in 15 .. 18
        <3>1. j - 2 \in 1 .. 32 /\ Place(j - 2) = j
            BY <2>3 DEF Place
        <3> QED
            BY <3>1
    <2>4. CASE j \in 20 .. 23
        <3>1. j - 3 \in 1 .. 32 /\ Place(j - 3) = j
            BY <2>4 DEF Place
        <3> QED
            BY <3>1
    <2>5. CASE j \in 25 .. 36
        <3>1. j - 4 \in 1 .. 32 /\ Place(j - 4) = j
            BY <2>5 DEF Place
        <3> QED
            BY <3>1
    <2> QED
        BY <2>1, <2>2, <2>3, <2>4, <2>5 DEF HexRuns
<1> QED
    BY <1>1 DEF Place, HexRuns

\* hexdigit gives every character a number, and a digit's its value.
LEMMA HexDigits ==
    \A c : /\ hexdigit(c) \in 0 .. BASE
           /\ hexdigit(c) < BASE <=> c \in 0 .. 2 * BASE - 1
           /\ c \in Digit => hexdigit(c) = c
           /\ c \in BASE .. 2 * BASE - 1 => hexdigit(c) = c - BASE
<1> TAKE c
<1>1. c \in 0 .. 2 * BASE - 1 => c \in Int /\ c % BASE \in 0 .. BASE - 1
    BY Bases, DivMod
<1>2. c \in Digit => c % BASE = c
    <2>1. c \in Digit => c = BASE * 0 + c
        BY Bases DEF Digit
    <2> QED
        BY <2>1, Bases, DivModUnique DEF Digit
<1>3. c \in BASE .. 2 * BASE - 1 => c % BASE = c - BASE
    <2>1. c \in BASE .. 2 * BASE - 1 => c = BASE * 1 + (c - BASE) /\ c - BASE \in 0 .. BASE - 1
        BY Bases
    <2> QED
        BY <2>1, Bases, DivModUnique
<1>4. c \in Digit => c \in 0 .. 2 * BASE - 1
    BY Bases DEF Digit
<1> QED
    BY <1>1, <1>2, <1>3, <1>4, Bases DEF hexdigit

\* hexdec tells two digits from anything else, and holds them both.
LEMMA HexDecs ==
    \A high, low :
        /\ hexdec(high, low) >= 0 <=> hexdigit(high) < BASE /\ hexdigit(low) < BASE
        /\ hexdec(high, low) >= 0 =>
            /\ hexdec(high, low) \div BASE = hexdigit(high)
            /\ hexdec(high, low) % BASE = hexdigit(low)
            /\ hexdigit(high) \in Digit /\ hexdigit(low) \in Digit
<1> TAKE high, low
<1> DEFINE h == hexdigit(high)
           l == hexdigit(low)
<1>1. h \in 0 .. BASE /\ l \in 0 .. BASE
    BY HexDigits
<1>2. hexdec(high, low) = IF h < BASE /\ l < BASE THEN h * BASE + l ELSE -1
    BY DEF hexdec
<1> HIDE DEF h, l
<1>3. CASE h < BASE /\ l < BASE
    <2>1. h \in Int /\ l \in 0 .. BASE - 1 /\ h \in Nat /\ l \in Nat
        BY <1>1, <1>3, Bases
    <2>2. hexdec(high, low) = BASE * h + l
        BY <1>2, <1>3, <2>1, Bases
    <2>3. BASE * h + l >= 0
        <3> DEFINE b == BASE
        <3>1. b \in Nat
            BY Bases
        <3> HIDE DEF b
        <3>2. b * h \in Nat
            BY <2>1, <3>1
        <3>3. b * h + l >= 0
            BY <2>1, <3>2
        <3> QED
            BY <3>3 DEF b
    <2>4. (BASE * h + l) \div BASE = h /\ (BASE * h + l) % BASE = l
        BY <2>1, Bases, DivModUnique
    <2>5. /\ hexdec(high, low) >= 0
          /\ hexdec(high, low) \div BASE = h
          /\ hexdec(high, low) % BASE = l
        BY <2>2, <2>3, <2>4
    <2>6. h \in Digit /\ l \in Digit
        BY <1>1, <1>3, Bases DEF Digit
    <2> QED
        BY <1>3, <2>5, <2>6 DEF h, l
<1>4. CASE ~(h < BASE /\ l < BASE)
    <2>1. ~(hexdec(high, low) >= 0)
        BY <1>2, <1>4
    <2> QED
        BY <1>4, <2>1 DEF h, l
<1> QED
    BY <1>3, <1>4

\* The two spellings of the format are the same, on everything.
LEMMA SameFormat ==
    \A s : is_valid(s) <=> Parses(s)
<1> SUFFICES ASSUME NEW s
             PROVE  is_valid(s) <=> Parses(s)
    OBVIOUS
<1>1. Parses(s) => is_valid(s)
    <2> SUFFICES ASSUME Parses(s)
                 PROVE  is_valid(s)
        OBVIOUS
    <2>1. ASSUME NEW n \in 1 .. 32
          PROVE  hexdigit(s[Place(n)]) < BASE
        <3>1. \E i \in 0 .. 15 : n = 2 * i + 1 \/ n = 2 * i + 2
            <4>1. n \in Int /\ n - 1 \in Int /\ n - 2 \in Int
                OBVIOUS
            <4>2. CASE n % 2 = 1
                <5>1. (n - 1) \div 2 \in 0 .. 15 /\ n = 2 * ((n - 1) \div 2) + 1
                    BY <4>2
                <5> QED
                    BY <5>1
            <4>3. CASE n % 2 = 0
                <5>1. (n - 2) \div 2 \in 0 .. 15 /\ n = 2 * ((n - 2) \div 2) + 2
                    BY <4>3
                <5> QED
                    BY <5>1
            <4> QED
                BY <4>2, <4>3
        <3>2. PICK i \in 0 .. 15 : n = 2 * i + 1 \/ n = 2 * i + 2
            BY <3>1
        <3>3. hexdec(s[PairAt(i)], s[PairAt(i) + 1]) >= 0
            BY DEF Parses
        <3>4. hexdigit(s[PairAt(i)]) < BASE /\ hexdigit(s[PairAt(i) + 1]) < BASE
            BY <3>3, HexDecs
        <3> QED
            BY <3>2, <3>4, Pairs
    <2>2. \A j \in HexRuns : hexdigit(s[j]) < BASE
        BY <2>1, Places
    <2>3. s[9] = DASH /\ s[14] = DASH /\ s[19] = DASH /\ s[24] = DASH
        BY Pairs DEF Parses, GroupStarts
    <2> QED
        BY <2>2, <2>3 DEF is_valid, Parses
<1>2. is_valid(s) => Parses(s)
    <2> SUFFICES ASSUME is_valid(s)
                 PROVE  Parses(s)
        OBVIOUS
    <2>1. ASSUME NEW i \in 0 .. 15
          PROVE  hexdec(s[PairAt(i)], s[PairAt(i) + 1]) >= 0
        <3>1. 2 * i + 1 \in 1 .. 32 /\ 2 * i + 2 \in 1 .. 32
            OBVIOUS
        <3>2. PairAt(i) \in HexRuns /\ PairAt(i) + 1 \in HexRuns
            BY <3>1, Pairs, Places
        <3>3. hexdigit(s[PairAt(i)]) < BASE /\ hexdigit(s[PairAt(i) + 1]) < BASE
            BY <3>2 DEF is_valid
        <3> QED
            BY <3>3, HexDecs
    <2>2. \A g \in GroupStarts : s[PairAt(g) - 1] = DASH
        <3>1. \A j \in {9, 14, 19, 24} : s[j] = DASH
            BY DEF is_valid
        <3>2. s[9] = DASH /\ s[14] = DASH /\ s[19] = DASH /\ s[24] = DASH
            BY <3>1
        <3>3. /\ s[PairAt(4) - 1] = DASH /\ s[PairAt(6) - 1] = DASH
              /\ s[PairAt(8) - 1] = DASH /\ s[PairAt(10) - 1] = DASH
            BY <3>2, Pairs
        <3> QED
            BY <3>3 DEF GroupStarts
    <2> QED
        BY <2>1, <2>2 DEF is_valid, Parses
<1> QED
    BY <1>1, <1>2

\* t shows the first k digits of u in m characters.
Shown(t, u, k, m) ==
    /\ t \in [1 .. m -> Chars]
    /\ \A n \in 1 .. k : Place(n) \in 1 .. m /\ t[Place(n)] = u[n]
    /\ \A j \in {9, 14, 19, 24} : j <= m => t[j] = DASH

\* t is the text of u.
TextOf(t, u) == Shown(t, u, 32, 36)

\* A dash is put after a group.
LEMMA DashShown ==
    ASSUME NEW u \in UUIDs, NEW k \in 1 .. 32, NEW m \in 8 .. 36, NEW t, Shown(t, u, k, m),
           m + 1 \in {9, 14, 19, 24}
    PROVE  Shown(t \o <<DASH>>, u, k, m + 1)
<1> DEFINE r == t \o <<DASH>>
<1>1. <<DASH>> \in [1 .. 1 -> Chars] /\ <<DASH>>[1] = DASH
    BY DEF Chars
<1>2. t \in [1 .. m -> Chars] /\ m \in Nat /\ 1 \in Nat
    BY DEF Shown
<1>3. Joined(r, t, <<DASH>>, m, 1, Chars)
    BY <1>1, <1>2, Join
<1> HIDE DEF r
<1>4. r \in [1 .. m + 1 -> Chars] /\ (\A i \in 1 .. m : r[i] = t[i]) /\ r[m + 1] = DASH
    BY <1>1, <1>3 DEF Joined
<1>5. \A n \in 1 .. k : Place(n) \in 1 .. m /\ Place(n) \in 1 .. m + 1 /\ r[Place(n)] = u[n]
    <2> TAKE n \in 1 .. k
    <2>1. Place(n) \in 1 .. m /\ t[Place(n)] = u[n]
        BY DEF Shown
    <2> QED
        BY <1>4, <2>1
<1>6. \A j \in {9, 14, 19, 24} : j <= m + 1 => r[j] = DASH
    <2> TAKE j \in {9, 14, 19, 24}
    <2>1. j <= m => t[j] = DASH /\ j \in 1 .. m
        BY DEF Shown
    <2> QED
        BY <1>4, <2>1
<1> QED
    BY <1>4, <1>5, <1>6 DEF Shown, r

\* A group is put after a dash.
LEMMA GroupShown ==
    ASSUME NEW u \in UUIDs, NEW k \in 1 .. 32, NEW b \in k + 1 .. 32, NEW m \in 8 .. 36,
           NEW t, Shown(t, u, k, m),
           \A n \in k + 1 .. b : Place(n) = m + (n - k),
           \A j \in {9, 14, 19, 24} : j <= m \/ j > m + (b - k)
    PROVE  Shown(t \o SubSeq(u, k + 1, b), u, b, m + (b - k))
<1> DEFINE s == SubSeq(u, k + 1, b)
           r == t \o s
           l == b - k
<1>1. Parted(s, u, k + 1, b, Chars)
    <2>1. u \in [1 .. 32 -> Chars] /\ k + 1 \in 1 .. 32 + 1 /\ b \in (k + 1) - 1 .. 32
        BY Bases DEF UUIDs, Digit, Chars
    <2> QED
        BY <2>1, Part
<1> HIDE DEF s
<1>2. l \in Nat /\ m \in Nat /\ s \in [1 .. l -> Chars] /\ \A i \in 1 .. l : s[i] = u[k + i]
    <2>1. b - (k + 1) + 1 = l /\ l \in Nat /\ m \in Nat
        OBVIOUS
    <2>2. \A i \in 1 .. l : (k + 1) + i - 1 = k + i
        BY <2>1
    <2> QED
        BY <1>1, <2>1, <2>2 DEF Parted
<1> HIDE DEF l
<1>3. t \in [1 .. m -> Chars]
    BY DEF Shown
<1>4. Joined(r, t, s, m, l, Chars)
    BY <1>2, <1>3, Join
<1> HIDE DEF r
<1>5. r \in [1 .. m + l -> Chars] /\ (\A i \in 1 .. m : r[i] = t[i])
      /\ \A i \in m + 1 .. m + l : r[i] = s[i - m]
    BY <1>4 DEF Joined
<1>6. \A n \in 1 .. b : Place(n) \in 1 .. m + l /\ r[Place(n)] = u[n]
    <2> TAKE n \in 1 .. b
    <2>1. CASE n <= k
        <3>1. Place(n) \in 1 .. m /\ t[Place(n)] = u[n]
            BY <2>1 DEF Shown
        <3> QED
            BY <1>2, <1>5, <3>1
    <2>2. CASE n > k
        <3>1. Place(n) = m + (n - k) /\ n - k \in 1 .. l /\ l = b - k
            BY <2>2 DEF l
        <3>2. Place(n) \in m + 1 .. m + l /\ Place(n) - m = n - k
            BY <1>2, <3>1
        <3>3. s[n - k] = u[n]
            BY <1>2, <3>1
        <3> QED
            BY <1>5, <3>2, <3>3
    <2> QED
        BY <2>1, <2>2
<1>7. \A j \in {9, 14, 19, 24} : j <= m + l => r[j] = DASH
    <2> TAKE j \in {9, 14, 19, 24}
    <2>1. j <= m => t[j] = DASH /\ j \in 1 .. m
        BY DEF Shown
    <2>2. j <= m \/ j > m + l
        BY DEF l
    <2> QED
        BY <1>2, <1>5, <2>1, <2>2
<1> QED
    BY <1>5, <1>6, <1>7 DEF Shown, r, s, l

\* to_string gives the text of an object.
LEMMA ToStringIs ==
    ASSUME NEW u \in UUIDs
    PROVE  TextOf(to_string(u), u)
<1> DEFINE t1 == SubSeq(u, 1, 8)
           t2 == t1 \o <<DASH>>
           t3 == t2 \o SubSeq(u, 9, 12)
           t4 == t3 \o <<DASH>>
           t5 == t4 \o SubSeq(u, 13, 16)
           t6 == t5 \o <<DASH>>
           t7 == t6 \o SubSeq(u, 17, 20)
           t8 == t7 \o <<DASH>>
           t9 == t8 \o SubSeq(u, 21, 32)
<1>0. to_string(u) = t9
    BY DEF to_string
<1>1. Shown(t1, u, 8, 8)
    <2>1. u \in [1 .. 32 -> Chars] /\ 1 \in 1 .. 32 + 1 /\ 8 \in 1 - 1 .. 32
        BY Bases DEF UUIDs, Digit, Chars
    <2>2. Parted(t1, u, 1, 8, Chars)
        BY <2>1, Part
    <2> HIDE DEF t1
    <2>3. t1 \in [1 .. 8 -> Chars] /\ \A i \in 1 .. 8 : t1[i] = u[i]
        BY <2>2 DEF Parted
    <2> QED
        BY <2>3 DEF Shown, Place
<1> HIDE DEF t1
<1>2. Shown(t2, u, 8, 9)
    <2>1. 8 \in 1 .. 32 /\ 8 \in 8 .. 36 /\ 8 + 1 = 9
        OBVIOUS
    <2> QED
        BY <1>1, <2>1, DashShown
<1> HIDE DEF t2
<1>3. Shown(t3, u, 12, 13)
    <2>1. /\ 8 \in 1 .. 32 /\ 8 + 1 = 9 /\ 12 \in 9 .. 32 /\ 9 \in 8 .. 36 /\ 9 + (12 - 8) = 13
          /\ \A n \in 8 + 1 .. 12 : Place(n) = 9 + (n - 8)
          /\ \A j \in {9, 14, 19, 24} : j <= 9 \/ j > 9 + (12 - 8)
        BY DEF Place
    <2> QED
        BY <1>2, <2>1, GroupShown
<1> HIDE DEF t3
<1>4. Shown(t4, u, 12, 14)
    <2>1. 12 \in 1 .. 32 /\ 13 \in 8 .. 36 /\ 13 + 1 = 14
        OBVIOUS
    <2> QED
        BY <1>3, <2>1, DashShown
<1> HIDE DEF t4
<1>5. Shown(t5, u, 16, 18)
    <2>1. /\ 12 \in 1 .. 32 /\ 12 + 1 = 13 /\ 16 \in 13 .. 32 /\ 14 \in 8 .. 36
          /\ 14 + (16 - 12) = 18
          /\ \A n \in 12 + 1 .. 16 : Place(n) = 14 + (n - 12)
          /\ \A j \in {9, 14, 19, 24} : j <= 14 \/ j > 14 + (16 - 12)
        BY DEF Place
    <2> QED
        BY <1>4, <2>1, GroupShown
<1> HIDE DEF t5
<1>6. Shown(t6, u, 16, 19)
    <2>1. 16 \in 1 .. 32 /\ 18 \in 8 .. 36 /\ 18 + 1 = 19
        OBVIOUS
    <2> QED
        BY <1>5, <2>1, DashShown
<1> HIDE DEF t6
<1>7. Shown(t7, u, 20, 23)
    <2>1. /\ 16 \in 1 .. 32 /\ 16 + 1 = 17 /\ 20 \in 17 .. 32 /\ 19 \in 8 .. 36
          /\ 19 + (20 - 16) = 23
          /\ \A n \in 16 + 1 .. 20 : Place(n) = 19 + (n - 16)
          /\ \A j \in {9, 14, 19, 24} : j <= 19 \/ j > 19 + (20 - 16)
        BY DEF Place
    <2> QED
        BY <1>6, <2>1, GroupShown
<1> HIDE DEF t7
<1>8. Shown(t8, u, 20, 24)
    <2>1. 20 \in 1 .. 32 /\ 23 \in 8 .. 36 /\ 23 + 1 = 24
        OBVIOUS
    <2> QED
        BY <1>7, <2>1, DashShown
<1> HIDE DEF t8
<1>9. Shown(t9, u, 32, 36)
    <2>1. /\ 20 \in 1 .. 32 /\ 20 + 1 = 21 /\ 32 \in 21 .. 32 /\ 24 \in 8 .. 36
          /\ 24 + (32 - 20) = 36
          /\ \A n \in 20 + 1 .. 32 : Place(n) = 24 + (n - 20)
          /\ \A j \in {9, 14, 19, 24} : j <= 24 \/ j > 24 + (32 - 20)
        BY DEF Place
    <2> QED
        BY <1>8, <2>1, GroupShown
<1> QED
    BY <1>0, <1>9 DEF TextOf

\* An object has one text.
LEMMA OneText ==
    ASSUME NEW u, NEW s, NEW t, TextOf(s, u), TextOf(t, u)
    PROVE  s = t
<1>1. s \in [1 .. 36 -> Chars] /\ t \in [1 .. 36 -> Chars]
    BY DEF TextOf, Shown
<1>2. \A n \in 1 .. 32 : s[Place(n)] = t[Place(n)]
    BY DEF TextOf, Shown
<1>3. \A j \in {9, 14, 19, 24} : s[j] = t[j]
    BY DEF TextOf, Shown
<1>4. ASSUME NEW j \in 1 .. 36
      PROVE  s[j] = t[j]
    <2>1. CASE j \in HexRuns
        <3>1. PICK n \in 1 .. 32 : j = Place(n)
            BY <2>1, Places, Zenon
        <3> QED
            BY <1>2, <3>1, Zenon
    <2>2. CASE j \in {9, 14, 19, 24}
        BY <1>3, <2>2, Zenon
    <2> QED
        BY <2>1, <2>2, Places, Zenon
<1> QED
    BY <1>1, <1>4

\* What is taken for a text, its case aside.
LEMMA ParsedIs ==
    ASSUME NEW s, Parses(s)
    PROVE  /\ Parsed(s) \in UUIDs
           /\ \A n \in 1 .. 32 : /\ s[Place(n)] \in 0 .. 2 * BASE - 1
                                 /\ Parsed(s)[n] = hexdigit(s[Place(n)])
<1> DEFINE byte(i) == hexdec(s[PairAt(i)], s[PairAt(i) + 1])
           p == [n \in 1 .. 32 |-> IF n % 2 = 1 THEN byte(n \div 2) \div BASE
                                   ELSE byte((n \div 2) - 1) % BASE]
<1>1. \A i \in 0 .. 15 : /\ byte(i) \div BASE = hexdigit(s[Place(2 * i + 1)])
                         /\ byte(i) % BASE = hexdigit(s[Place(2 * i + 2)])
                         /\ hexdigit(s[Place(2 * i + 1)]) \in Digit
                         /\ hexdigit(s[Place(2 * i + 2)]) \in Digit
    <2> TAKE i \in 0 .. 15
    <2>1. byte(i) >= 0
        BY DEF Parses
    <2> QED
        BY <2>1, HexDecs, Pairs
<1> HIDE DEF byte
<1>2. ASSUME NEW n \in 1 .. 32
      PROVE  p[n] = hexdigit(s[Place(n)]) /\ hexdigit(s[Place(n)]) \in Digit
    <2>1. CASE n % 2 = 1
        <3>1. n \div 2 \in 0 .. 15 /\ 2 * (n \div 2) + 1 = n
            BY <2>1
        <3>2. p[n] = byte(n \div 2) \div BASE
            BY <2>1
        <3> QED
            BY <1>1, <3>1, <3>2
    <2>2. CASE n % 2 # 1
        <3>1. (n \div 2) - 1 \in 0 .. 15 /\ 2 * ((n \div 2) - 1) + 2 = n
            BY <2>2
        <3>2. p[n] = byte((n \div 2) - 1) % BASE
            BY <2>2
        <3> QED
            BY <1>1, <3>1, <3>2
    <2> QED
        BY <2>1, <2>2
<1>3. p \in [1 .. 32 -> Digit]
    BY <1>2
<1>4. Joined(p \o <<>>, p, <<>>, 32, 0, Digit)
    <2>1. <<>> \in [1 .. 0 -> Digit] /\ 32 \in Nat /\ 0 \in Nat
        OBVIOUS
    <2> HIDE DEF p
    <2> QED
        BY <1>3, <2>1, Join
<1>5. Parsed(s) = p \o <<>>
    BY DEF Parsed, byte
<1> HIDE DEF p
<1>6. Parsed(s) \in UUIDs /\ \A n \in 1 .. 32 : Parsed(s)[n] = p[n]
    BY <1>4, <1>5 DEF Joined, UUIDs
<1>7. \A n \in 1 .. 32 : s[Place(n)] \in 0 .. 2 * BASE - 1
    <2> TAKE n \in 1 .. 32
    <2>1. hexdigit(s[Place(n)]) < BASE
        BY <1>2, Bases DEF Digit
    <2> QED
        BY <2>1, HexDigits
<1> QED
    BY <1>2, <1>6, <1>7

\* An object's own text is taken, and for that object.
LEMMA PrintIsTaken ==
    ASSUME NEW u \in UUIDs, NEW t, TextOf(t, u)
    PROVE  Parses(t) /\ Parsed(t) = u
<1>1. \A n \in 1 .. 32 : hexdigit(t[Place(n)]) = u[n] /\ hexdigit(t[Place(n)]) < BASE
    <2> TAKE n \in 1 .. 32
    <2>1. t[Place(n)] = u[n] /\ u[n] \in Digit
        BY DEF TextOf, Shown, UUIDs
    <2>2. hexdigit(u[n]) = u[n]
        BY <2>1, HexDigits
    <2> QED
        BY <2>1, <2>2, Bases DEF Digit
<1>2. is_valid(t)
    <2>1. \A j \in HexRuns : hexdigit(t[j]) < BASE
        BY <1>1, Places
    <2>2. \A j \in {9, 14, 19, 24} : t[j] = DASH
        BY DEF TextOf, Shown
    <2>3. Len(t) = UUID_LENGTH
        <3>1. t \in [1 .. 36 -> Chars]
            BY DEF TextOf, Shown
        <3> QED
            BY <3>1, WordIsSeq DEF UUID_LENGTH
    <2> QED
        BY <2>1, <2>2, <2>3 DEF is_valid
<1>3. Parses(t)
    BY <1>2, SameFormat
<1>4. Parsed(t) \in UUIDs /\ \A n \in 1 .. 32 : Parsed(t)[n] = u[n]
    BY <1>1, <1>3, ParsedIs
<1> QED
    BY <1>3, <1>4 DEF UUIDs

\* A text that is taken, in lower case, is that of the object it is taken for.
LEMMA TakenIsPrinted ==
    ASSUME NEW s \in Seq(Chars), Parses(s)
    PROVE  to_string(Parsed(s)) = LowerCase(s) \o <<>>
<1> DEFINE u == Parsed(s)
           l == LowerCase(s)
<1>1. u \in UUIDs /\ \A n \in 1 .. 32 : /\ s[Place(n)] \in 0 .. 2 * BASE - 1
                                       /\ u[n] = hexdigit(s[Place(n)])
    BY ParsedIs
<1>2. Len(s) = 36 /\ \A j \in 1 .. 36 : s[j] \in Chars
    <2>1. Len(s) = 36
        BY DEF Parses, UUID_LENGTH
    <2> QED
        BY <2>1, ElementOfSeq
<1>3. l \in [1 .. 36 -> Chars]
      /\ \A j \in 1 .. 36 : l[j] = IF s[j] >= BASE THEN s[j] - BASE ELSE s[j]
    <2>1. \A j \in 1 .. 36 : (IF s[j] >= BASE THEN s[j] - BASE ELSE s[j]) \in Chars
        <3> TAKE j \in 1 .. 36
        <3>1. s[j] \in 0 .. 2 * BASE - 1 \/ s[j] = -1 \/ s[j] = -2
            BY <1>2 DEF Chars, DASH, OTHER_CHAR
        <3> QED
            BY <3>1, Bases DEF Chars, DASH, OTHER_CHAR
    <2> QED
        BY <1>2, <2>1 DEF LowerCase
<1> HIDE DEF u, l
<1>4. \A n \in 1 .. 32 : Place(n) \in 1 .. 36 /\ l[Place(n)] = u[n]
    <2> TAKE n \in 1 .. 32
    <2> DEFINE c == s[Place(n)]
    <2>1. Place(n) \in 1 .. 36
        BY Places
    <2>2. c \in 0 .. 2 * BASE - 1 /\ u[n] = hexdigit(c)
        BY <1>1
    <2>3. l[Place(n)] = IF c >= BASE THEN c - BASE ELSE c
        BY <1>3, <2>1
    <2> HIDE DEF c
    <2>4. u[n] = IF c >= BASE THEN c - BASE ELSE c
        <3>1. CASE c >= BASE
            <4>1. c \in BASE .. 2 * BASE - 1
                BY <2>2, <3>1, Bases
            <4> QED
                BY <2>2, <3>1, <4>1, HexDigits
        <3>2. CASE ~(c >= BASE)
            <4>1. c \in Digit
                BY <2>2, <3>2, Bases DEF Digit
            <4> QED
                BY <2>2, <3>2, <4>1, HexDigits
        <3> QED
            BY <3>1, <3>2
    <2> QED
        BY <2>1, <2>3, <2>4
<1>5. \A j \in {9, 14, 19, 24} : j <= 36 => l[j] = DASH
    <2> TAKE j \in {9, 14, 19, 24}
    <2>1. s[j] = DASH
        BY SameFormat DEF is_valid
    <2>2. j \in 1 .. 36 /\ ~(s[j] >= BASE)
        BY <2>1, Bases DEF DASH
    <2> QED
        BY <1>3, <2>1, <2>2
<1>6. TextOf(l, u)
    BY <1>3, <1>4, <1>5 DEF TextOf, Shown
<1>7. l \o <<>> = l
    <2>1. l \in Seq(Chars)
        BY <1>3, WordIsSeq
    <2> QED
        BY <2>1
<1>8. TextOf(to_string(u), u)
    BY <1>1, ToStringIs DEF u
<1> QED
    BY <1>6, <1>7, <1>8, OneText DEF u, l

\* However a text is edited, it stays a text.
LEMMA EditedText ==
    ASSUME NEW s \in Seq(Chars), NEW i \in 1 .. Len(s), NEW c \in Chars
    PROVE  /\ ReplaceAt(s, i, c) \in Seq(Chars) /\ Len(ReplaceAt(s, i, c)) = Len(s)
           /\ RemoveAt(s, i) \in Seq(Chars)
           /\ InsertAt(s, i, c) \in Seq(Chars)
           /\ Append(s, c) \in Seq(Chars)
<1>1. SubSeq(s, 1, i - 1) \in Seq(Chars) /\ SubSeq(s, i, Len(s)) \in Seq(Chars)
      /\ SubSeq(s, i + 1, Len(s)) \in Seq(Chars)
    OBVIOUS
<1>2. <<c>> \in Seq(Chars)
    OBVIOUS
<1>3. ReplaceAt(s, i, c) \in Seq(Chars) /\ Len(ReplaceAt(s, i, c)) = Len(s)
    BY ExceptSeq DEF ReplaceAt
<1> QED
    BY <1>1, <1>2, <1>3 DEF RemoveAt, InsertAt

-----------------------------------------------------------------------------
(* The arithmetic of the fields, as CuuidFields_proofs has it.             *)

\* A time is a whole number of windows, a window a power of BASE but for the
\* variant: the clock divides the time.
LEMMA Windows ==
    /\ F!TIME_SIZE = TIME_SIZE
    /\ F!Times = 0 .. TIME_SIZE - 1 /\ F!Clocks = 0 .. CLOCK_SIZE - 1
<1> DEFINE q == VARIANTS * Power[11]
           c == CLOCK_SIZE
<1>1. c \in Nat \ {0} /\ q \in Nat \ {0}
    <2>1. 11 \in 0 .. 16
        OBVIOUS
    <2> QED
        BY <2>1, Powers, Widths, Bases, ProductPositive
<1>2. TIME_SIZE = c * q
    <2>1. TIME_SIZE = Power[4] * Power[11]
        <3>1. 4 \in 0 .. 16 /\ 11 \in 0 .. 16 - 4 /\ 4 + 11 = 15
            OBVIOUS
        <3> QED
            BY <3>1, PowersMultiply, Widths
    <2>2. Power[4] = Power[3] * (VARIANTS * CLOCK_TOP)
        <3>1. 4 \in 1 .. 16 /\ 4 - 1 = 3
            OBVIOUS
        <3> QED
            BY <3>1, Powers, Bases
    <2>3. c = Power[3] * CLOCK_TOP
        BY Widths
    <2> DEFINE a == Power[3]
               b == Power[11]
    <2>4. a \in Nat /\ b \in Nat
        BY Powers
    <2> HIDE DEF a, b, c
    <2>5. TIME_SIZE = (a * (VARIANTS * CLOCK_TOP)) * b /\ c = a * CLOCK_TOP
        BY <2>1, <2>2, <2>3 DEF a, b
    <2>6. TIME_SIZE = c * (VARIANTS * b)
        BY <2>4, <2>5, Bases
    <2> QED
        BY <2>6 DEF b
<1> HIDE DEF q, c
<1>3. TIME_SIZE \div c = q
    <2>1. 0 \in 0 .. c - 1 /\ q \in Int /\ c * q + 0 = TIME_SIZE
        BY <1>1, <1>2
    <2> QED
        BY <1>1, <2>1, DivModUnique
<1>4. F!TIME_SIZE = TIME_SIZE
    BY <1>2, <1>3 DEF c, F!TIME_SIZE
<1> QED
    BY <1>4 DEF F!Times, F!Clocks

FP == INSTANCE CuuidFields_proofs WITH WINDOWS <- TIME_SIZE \div CLOCK_SIZE

\* What the facts about the fields are proved from.
LEMMA FieldAssumptions ==
    ASSUME F!HashAssumption
    PROVE  FP!WidthAssumption /\ FP!XorAssumption /\ FP!HashAssumption
BY ObjectAssumption
   DEF F!WidthAssumption, FP!WidthAssumption, F!XorAssumption, FP!XorAssumption,
       F!HashAssumption, FP!HashAssumption, F!Clocks, FP!Clocks, F!Times, FP!Times,
       F!CompactTimes, FP!CompactTimes, F!Salts, FP!Salts, F!Nodes, FP!Nodes,
       F!TIME_SIZE, FP!TIME_SIZE, F!Codecs, FP!Codecs

\* They are facts about the definitions CuuidObject uses.
LEMMA SameFields ==
    /\ FP!Codecs = F!Codecs /\ FP!Clocks = F!Clocks /\ FP!Nodes = F!Nodes
    /\ FP!Fields = F!Fields /\ FP!Contents = F!Contents
    /\ \A c, f : /\ FP!Crush(c, f) = F!Crush(c, f)
                 /\ FP!Condense(c, f) = F!Condense(c, f)
                 /\ FP!Uncondense(c, f) = F!Uncondense(c, f)
                 /\ FP!CalculateNode(c, f) = F!CalculateNode(c, f)
    /\ \A f, s : FP!CompactOf(f, s) = F!CompactOf(f, s)
    /\ \A t : FP!WindowOf(t) = F!WindowOf(t) /\ FP!WindowStart(t) = F!WindowStart(t)
    /\ FP!Salts = F!Salts /\ \A n : FP!SaltOf(n) = F!SaltOf(n)
<1>1. FP!TIME_SIZE = F!TIME_SIZE /\ FP!Codecs = F!Codecs /\ FP!Salts = F!Salts
      /\ FP!CompactTimes = F!CompactTimes
    BY DEF FP!TIME_SIZE, F!TIME_SIZE, FP!Codecs, F!Codecs, FP!Salts, F!Salts,
           FP!CompactTimes, F!CompactTimes
<1>2. FP!Times = F!Times /\ FP!Clocks = F!Clocks /\ FP!Nodes = F!Nodes
    BY <1>1 DEF FP!Times, F!Times, FP!Clocks, F!Clocks, FP!Nodes, F!Nodes
<1>3. FP!Fields = F!Fields /\ FP!Contents = F!Contents
    BY <1>1, <1>2 DEF FP!Fields, F!Fields, FP!Contents, F!Contents
<1>4. \A t : FP!Rebase(t) = F!Rebase(t) /\ FP!Unbase(t) = F!Unbase(t)
            /\ FP!WindowStart(t) = F!WindowStart(t)
    BY <1>1 DEF FP!Rebase, F!Rebase, FP!Unbase, F!Unbase, FP!WindowStart, F!WindowStart
<1>5. \A t : FP!WindowOf(t) = F!WindowOf(t) /\ FP!TickOf(t) = F!TickOf(t)
    BY <1>4 DEF FP!WindowOf, F!WindowOf, FP!TickOf, F!TickOf
<1>6. \A f, s : FP!CompactOf(f, s) = F!CompactOf(f, s)
    BY <1>5 DEF FP!CompactOf, F!CompactOf, FP!Compact, F!Compact
<1>7. \A c, f : FP!CalculateNode(c, f) = F!CalculateNode(c, f)
    BY DEF FP!CalculateNode, F!CalculateNode, FP!MulticastOnly, F!MulticastOnly
<1>11. \A n : FP!SaltOf(n) = F!SaltOf(n)
    BY DEF FP!SaltOf, F!SaltOf
<1>8. \A c, f : FP!Crush(c, f) = F!Crush(c, f)
    BY <1>4, <1>6, <1>7, <1>11 DEF FP!Crush, F!Crush
<1>9. \A c, f : FP!Condense(c, f) = F!Condense(c, f)
    BY <1>4, <1>6, <1>7 DEF FP!Condense, F!Condense, FP!Expanded, F!Expanded
<1>10. \A c, f : FP!Uncondense(c, f) = F!Uncondense(c, f)
    BY <1>4, <1>7 DEF FP!Uncondense, F!Uncondense, FP!RebuiltTime, F!RebuiltTime,
                      FP!RebuiltNode, F!RebuiltNode
<1> QED
    BY <1>1, <1>2, <1>3, <1>5, <1>4, <1>6, <1>7, <1>8, <1>9, <1>10, <1>11

\* Crushing, condensing and reading stay in their types.
LEMMA FieldsFit ==
    ASSUME F!HashAssumption, NEW c \in F!Codecs
    PROVE  /\ \A f : f.time \in Nat /\ f.clock \in F!Clocks /\ F!SaltOf(f.node) \in F!Salts
                        => F!Crush(c, f) \in F!Fields
           /\ \A f \in F!Fields : F!Condense(c, f) \in F!Contents
           /\ \A w \in F!Contents : F!Uncondense(c, w) \in F!Fields
<1>1. c \in FP!Codecs
    BY SameFields
<1>2. ASSUME NEW f, f.time \in Nat, f.clock \in F!Clocks, F!SaltOf(f.node) \in F!Salts
      PROVE  F!Crush(c, f) \in F!Fields
    <2>1. f.clock \in FP!Clocks /\ FP!SaltOf(f.node) \in FP!Salts
        BY <1>2, SameFields
    <2>2. FP!Crush(c, f) \in FP!Fields
        BY <1>1, <1>2, <2>1, FP!CrushFits, FieldAssumptions
    <2> QED
        BY <2>2, SameFields
<1>3. ASSUME NEW f \in F!Fields
      PROVE  F!Condense(c, f) \in F!Contents
    <2>1. f \in FP!Fields
        BY SameFields
    <2>2. FP!Condense(c, f) \in FP!Contents
        BY <1>1, <2>1, FP!CondenseCases, FieldAssumptions
    <2> QED
        BY <2>2, SameFields
<1>4. ASSUME NEW w \in F!Contents
      PROVE  F!Uncondense(c, w) \in F!Fields
    <2>1. w \in FP!Contents
        BY SameFields
    <2>2. FP!Uncondense(c, w) \in FP!Fields
        BY <1>1, <2>1, FP!UncondenseType, FieldAssumptions
    <2> QED
        BY <2>2, SameFields
<1> QED
    BY <1>2, <1>3, <1>4

\* Which fields a wire keeps.
LEMMA WireKeeps ==
    ASSUME F!HashAssumption, NEW c \in F!Codecs, NEW f \in F!Fields
    PROVE  F!Uncondense(c, F!Condense(c, f)) = f
            <=> /\ f.node.mc \/ f.time # UUID_TIME_INITIAL
                /\ f.node = F!CalculateNode(c, F!CompactOf(f, f.node.salt))
                        => F!WindowStart(F!WindowOf(f.time)) = f.time
<1>1. c \in FP!Codecs /\ f \in FP!Fields
    BY SameFields
<1>2. FP!Uncondense(c, FP!Condense(c, f)) = f
        <=> /\ f.node.mc \/ f.time # UUID_TIME_INITIAL
            /\ f.node = FP!CalculateNode(c, FP!CompactOf(f, f.node.salt))
                    => FP!WindowStart(FP!WindowOf(f.time)) = f.time
    BY <1>1, FP!WireRoundTrip, FieldAssumptions
<1> QED
    BY <1>2, SameFields

\* A node is its three parts: the salt is below the multicast bit, and a body
\* has neither.
LEMMA PartsOfNode ==
    ASSUME NEW n \in 0 .. NODE_SIZE - 1
    PROVE  NodeParts(n) \in F!Nodes /\ NodeNumber(NodeParts(n)) = n
<1> DEFINE m == MULTICAST_BIT
           s == SALT_SIZE
           mc == (n \div m) % 2 = 1
           salt == n % s
           b == IF mc THEN m ELSE 0
           body == n - salt - b
<1>1. s \in Nat \ {0} /\ m \in Nat \ {0} /\ m % s = 0
    BY ObjectAssumption, Widths DEF F!WidthAssumption
<1>2. n \in Nat /\ n < NODE_SIZE /\ NODE_SIZE \in Nat
    BY Widths
<1>3. NodeParts(n) = [mc |-> mc, salt |-> salt, body |-> body]
    BY DEF NodeParts
<1> HIDE DEF m, s
<1>4. salt \in 0 .. s - 1 /\ n = s * (n \div s) + salt /\ n \div s \in Nat
    <2>1. n \in Int
        BY <1>2
    <2>2. n \div s \in Nat
        BY <1>1, <1>2, DivNat
    <2> QED
        BY <1>1, <2>1, <2>2, DivMod
<1>5. PICK k \in Int : m = s * k
    <2>1. m \in Int /\ m = s * (m \div s) + 0 /\ m \div s \in Int
        BY <1>1, DivMod
    <2> QED
        BY <1>1, <2>1
<1> DEFINE h == n \div m
           l == n % m
<1>6. h \in Nat /\ l \in 0 .. m - 1 /\ n = m * h + l
    <2>1. n \in Int
        BY <1>2
    <2>2. n \div m \in Nat
        BY <1>1, <1>2, DivNat
    <2> QED
        BY <1>1, <2>1, <2>2, DivMod
<1>7. l % s = salt
    <2> DEFINE q == (n \div s) - k * h
    <2>1. q \in Int
        BY <1>4, <1>5, <1>6
    <2>2. l = s * q + salt
        <3> DEFINE d == n \div s
        <3>1. l = n - m * h /\ n = s * d + salt /\ d \in Int /\ q = d - k * h
              /\ salt \in Int /\ h \in Int /\ s \in Int /\ k \in Int /\ m \in Int
            BY <1>1, <1>4, <1>5, <1>6
        <3> HIDE DEF d, h, l, salt, q
        <3>2. l = s * d + salt - (s * k) * h
            BY <1>5, <3>1
        <3>3. s * q = s * d - (s * k) * h
            BY <3>1
        <3> QED
            BY <3>1, <3>2, <3>3
    <2> HIDE DEF q, l, salt
    <2> QED
        BY <1>1, <1>4, <2>1, <2>2, DivModUnique
\* the rest of the low part
<1>8. l - salt \in 0 .. m - 1 /\ (l - salt) % s = 0
    <2> DEFINE q == l \div s
    <2>1. q \in Nat /\ l = s * q + salt
        <3>1. l \in Int /\ l \in Nat
            BY <1>1, <1>6
        <3>2. l \div s \in Nat
            BY <1>1, <3>1, DivNat
        <3> HIDE DEF l
        <3>3. l = s * (l \div s) + (l % s)
            BY <1>1, <3>1, DivMod
        <3> QED
            BY <1>7, <3>2, <3>3
    <2> HIDE DEF q, l, salt
    <2>2. s * q \in Nat /\ l - salt = s * q /\ l - salt = s * q + 0 /\ 0 \in 0 .. s - 1
        BY <1>1, <1>4, <1>6, <2>1
    <2>3. (s * q + 0) % s = 0
        BY <1>1, <2>1, <2>2, DivModUnique
    <2> QED
        BY <1>1, <1>4, <1>6, <2>2, <2>3
<1> DEFINE g == h - (IF mc THEN 1 ELSE 0)
<1>9. g \in Nat /\ g % 2 = 0
    BY <1>6
<1>10. body = m * g + (l - salt)
    <2> HIDE DEF h, l, salt
    <2>1. CASE mc
        <3>1. g = h - 1 /\ b = m
            BY <2>1
        <3>2. body = m * h + l - salt - m
            BY <1>1, <1>4, <1>6, <3>1
        <3> QED
            BY <1>1, <1>4, <1>6, <3>1, <3>2
    <2>2. CASE ~mc
        <3>1. g = h /\ b = 0
            BY <1>6, <2>2
        <3> QED
            BY <1>1, <1>4, <1>6, <3>1
    <2> QED
        BY <2>1, <2>2
<1> HIDE DEF g, body, h, l, salt
<1>11. body \in Nat /\ body <= n
    <2>1. m * g \in Nat
        BY <1>1, <1>9
    <2>2. body \in Nat
        BY <1>8, <1>10, <2>1
    <2>3. body = n - salt - b /\ b \in Nat /\ salt \in Nat
        BY <1>1, <1>4 DEF body
    <2> QED
        BY <1>2, <2>2, <2>3
<1>12. body \div m = g
    <2> DEFINE x == l - salt
    <2>1. g \in Int /\ x \in 0 .. m - 1 /\ body = m * g + x
        BY <1>8, <1>9, <1>10
    <2> HIDE DEF x
    <2> QED
        BY <1>1, <2>1, DivModUnique
<1>13. body % s = 0
    <2> DEFINE x == l - salt
               r == x \div s
    <2>0. x \in Int /\ x % s = 0 /\ body = m * g + x
        BY <1>1, <1>8, <1>10
    <2> HIDE DEF x
    <2>1. r \in Int /\ x = s * r + 0
        BY <1>1, <2>0, DivMod
    <2> HIDE DEF r
    <2>2. k * g + r \in Int /\ 0 \in 0 .. s - 1
        BY <1>1, <1>5, <1>9, <2>1
    <2>3. body = s * (k * g + r) + 0
        <3>1. body = (s * k) * g + s * r
            BY <1>1, <1>5, <2>0, <2>1
        <3> QED
            BY <1>1, <1>5, <1>9, <2>1, <3>1
    <2> QED
        BY <1>1, <2>2, <2>3, DivModUnique
<1>14. body \in Bodies
    <2>1. body \in 0 .. NODE_SIZE - 1
        BY <1>2, <1>11
    <2> QED
        BY <1>9, <1>12, <1>13, <2>1 DEF Bodies, m, s
<1>15. NodeParts(n) \in F!Nodes
    <2>1. mc \in BOOLEAN /\ salt \in F!Salts
        BY <1>4 DEF F!Salts, s
    <2> HIDE DEF mc
    <2> QED
        BY <1>3, <1>14, <2>1 DEF F!Nodes
<1>16. body + salt + b = n
    <2>1. b \in Int /\ salt \in Int /\ n \in Int
        BY <1>1, <1>2, <1>4
    <2> HIDE DEF b
    <2> QED
        BY <2>1 DEF body
<1>17. NodeNumber(NodeParts(n)) = n
    <2> HIDE DEF mc
    <2>1. NodeNumber(NodeParts(n)) = body + salt + (IF mc THEN MULTICAST_BIT ELSE 0)
        BY <1>3 DEF NodeNumber
    <2> QED
        BY <1>16, <2>1 DEF m
<1> QED
    BY <1>15, <1>17

\* And the parts of a node are told from its number.
LEMMA NumberOfNode ==
    ASSUME NEW p \in F!Nodes
    PROVE  NodeNumber(p) \in 0 .. NODE_SIZE - 1 /\ NodeParts(NodeNumber(p)) = p
<1> DEFINE m == MULTICAST_BIT
           s == SALT_SIZE
           mc == p.mc
           salt == p.salt
           body == p.body
           bit == IF mc THEN 1 ELSE 0
           n == NodeNumber(p)
           g == body \div m
           x == body % m
<1>1. s \in Nat \ {0} /\ m \in Nat \ {0} /\ m % s = 0
    BY ObjectAssumption, Widths DEF F!WidthAssumption
<1>2. /\ mc \in BOOLEAN /\ salt \in 0 .. s - 1
      /\ body \in 0 .. NODE_SIZE - 1 /\ body % s = 0 /\ g % 2 = 0
      /\ p = [mc |-> mc, body |-> body, salt |-> salt]
    BY DEF F!Nodes, F!Salts, Bodies
<1>3. n = body + salt + (IF mc THEN m ELSE 0)
    BY DEF NodeNumber
<1>4. PICK w \in Nat : NODE_SIZE = m * (2 * w)
    <2> DEFINE h == BASE \div 2
    <2>1. BASE \in Int /\ BASE \in Nat /\ BASE % 2 = 0
        BY LayoutAssumption, Bases
    <2>2. h \in Nat /\ BASE = 2 * h + 0
        BY <2>1, DivMod, DivNat
    <2>3. NODE_SIZE = (m * BASE) * BASE
        <3>1. 12 \in 1 .. 16 /\ 12 - 1 = 11 /\ 11 \in 1 .. 16 /\ 11 - 1 = 10
            OBVIOUS
        <3> QED
            BY <3>1, Powers, Widths
    <2> HIDE DEF h, m
    <2>4. h * BASE \in Nat
        BY <2>1, <2>2
    <2>5. (m * BASE) * BASE = m * (2 * (h * BASE))
        BY <1>1, <2>1, <2>2
    <2> QED
        BY <2>3, <2>4, <2>5
<1> HIDE DEF m, s
<1>5. PICK k \in Int : m = s * k
    <2>1. m \in Int /\ m = s * (m \div s) + 0 /\ m \div s \in Int
        BY <1>1, DivMod
    <2> QED
        BY <1>1, <2>1
<1> HIDE DEF mc, salt, body
<1>6. body \in Nat /\ body \in Int /\ body < m * (2 * w)
    BY <1>1, <1>2, <1>4, Widths
<1>7. g \in Nat /\ x \in 0 .. m - 1 /\ body = m * g + x
    <2>1. body \div m \in Nat
        BY <1>1, <1>6, DivNat
    <2> QED
        BY <1>1, <1>6, <2>1, DivMod
<1> HIDE DEF g, x
<1>8. PICK c \in Int : body = s * c
    <2> DEFINE q == body \div s
    <2>1. body = s * q + 0 /\ q \in Int
        BY <1>1, <1>2, <1>6, DivMod
    <2> HIDE DEF q
    <2>2. body = s * q
        BY <1>1, <2>1
    <2> QED
        BY <2>1, <2>2
<1>9. PICK e \in Int : x = s * e
    <2>1. x = s * c - (s * k) * g
        BY <1>5, <1>7, <1>8
    <2>2. s * c - (s * k) * g = s * (c - k * g) /\ c - k * g \in Int
        BY <1>1, <1>5, <1>7, <1>8
    <2> QED
        BY <2>1, <2>2
<1>10. x + salt \in 0 .. m - 1
    <2>1. e < k
        <3>1. SUFFICES ASSUME e >= k
                       PROVE  FALSE
            BY <1>5, <1>9
        <3>2. s * (e - k) >= 0
            <4>1. e - k \in Nat
                BY <1>5, <1>9, <3>1
            <4>2. s * (e - k) \in Nat
                BY <1>1, <4>1
            <4> QED
                BY <4>2
        <3>3. s * (e - k) = x - m
            BY <1>1, <1>5, <1>9
        <3> QED
            BY <1>1, <1>7, <3>2, <3>3
    <2>2. s * (k - e - 1) >= 0
        <3>1. k - e - 1 \in Nat
            BY <1>5, <1>9, <2>1
        <3>2. s * (k - e - 1) \in Nat
            BY <1>1, <3>1
        <3> QED
            BY <3>2
    <2>3. s * (k - e - 1) = m - x - s
        BY <1>1, <1>5, <1>9
    <2> QED
        BY <1>1, <1>2, <1>7, <2>2, <2>3
<1>11. n = m * (g + bit) + (x + salt) /\ g + bit \in Nat /\ bit \in 0 .. 1
    <2>1. CASE mc
        <3>1. bit = 1
            BY <2>1
        <3>2. n = m * g + x + salt + m
            BY <1>1, <1>2, <1>3, <1>7, <2>1
        <3> QED
            BY <1>1, <1>2, <1>7, <3>1, <3>2
    <2>2. CASE ~mc
        <3>1. bit = 0
            BY <2>2
        <3>2. n = m * g + x + salt + 0
            BY <1>1, <1>2, <1>3, <1>7, <2>2
        <3> QED
            BY <1>1, <1>2, <1>7, <3>1, <3>2
    <2> QED
        BY <2>1, <2>2
<1>12. n \div m = g + bit
    <2> DEFINE y == x + salt
               q == g + bit
    <2>1. y \in 0 .. m - 1 /\ q \in Int /\ n = m * q + y
        BY <1>10, <1>11
    <2> HIDE DEF y, q, n
    <2>2. n \div m = q
        BY <1>1, <2>1, DivModUnique
    <2> QED
        BY <2>2 DEF q
<1> HIDE DEF n
<1>13. ((n \div m) % 2 = 1) = mc
    <2>1. bit = 1 <=> mc
        OBVIOUS
    <2> HIDE DEF bit
    <2>2. (g + bit) % 2 = 1 <=> bit = 1
        BY <1>2, <1>7, <1>11
    <2> QED
        BY <1>2, <1>12, <2>1, <2>2
<1>14. n % s = salt
    <2> DEFINE q == c + k * bit
    <2> HIDE DEF bit
    <2>1. q \in Int
        BY <1>5, <1>8, <1>11
    <2>2. n = s * q + salt
        <3>1. n = (s * k) * (g + bit) + (x + salt) /\ (s * k) * g + x = s * c
            BY <1>5, <1>7, <1>8, <1>11
        <3>2. (s * k) * (g + bit) = (s * k) * g + s * (k * bit)
            BY <1>1, <1>5, <1>7, <1>11
        <3>3. n = s * c + s * (k * bit) + salt
            BY <1>1, <1>2, <1>5, <1>7, <1>8, <1>11, <3>1, <3>2
        <3>4. s * q = s * c + s * (k * bit)
            BY <1>1, <1>5, <1>8, <1>11
        <3> QED
            BY <1>1, <1>2, <1>5, <1>8, <1>11, <3>3, <3>4
    <2> HIDE DEF q
    <2> QED
        BY <1>1, <1>2, <2>1, <2>2, DivModUnique
<1>15. n \in 0 .. NODE_SIZE - 1
    <2>1. g <= 2 * w - 2
        <3>1. g < 2 * w
            <4>1. SUFFICES ASSUME g >= 2 * w
                           PROVE  FALSE
                BY <1>4, <1>7
            <4>2. m * (g - 2 * w) \in Nat
                <5>1. g - 2 * w \in Nat
                    BY <1>4, <1>7, <4>1
                <5> QED
                    BY <1>1, <5>1
            <4>3. m * (g - 2 * w) = m * g - m * (2 * w)
                BY <1>1, <1>4, <1>7
            <4> QED
                BY <1>1, <1>4, <1>6, <1>7, <4>2, <4>3
        <3> QED
            BY <1>2, <1>4, <1>7, <3>1
    <2>2. m * (2 * w - 2 - g) \in Nat
        <3>1. 2 * w - 2 - g \in Nat
            BY <1>4, <1>7, <2>1
        <3> QED
            BY <1>1, <3>1
    <2>3. m * (2 * w - 2 - g) = m * (2 * w) - 2 * m - m * g
        BY <1>1, <1>4, <1>7
    <2>4. m * (g + bit) <= m * g + m /\ m * (g + bit) \in Nat
        BY <1>1, <1>7, <1>11
    <2> HIDE DEF bit
    <2>5. n <= m * g + m + (m - 1) /\ n \in Nat
        BY <1>1, <1>2, <1>7, <1>10, <1>11, <2>4
    <2> QED
        BY <1>1, <1>4, <1>7, <2>2, <2>3, <2>5
<1>16. NodeParts(n) = p
    <2>1. n - salt - (IF mc THEN m ELSE 0) = body
        BY <1>1, <1>2, <1>3, <1>6
    <2>2. NodeParts(n) = [mc |-> mc, salt |-> salt, body |-> body]
        <3>1. NodeParts(n) = [mc |-> (n \div m) % 2 = 1, salt |-> n % s,
                              body |-> n - (n % s)
                                         - (IF (n \div m) % 2 = 1 THEN m ELSE 0)]
            BY DEF NodeParts, m, s
        <3> QED
            BY <1>13, <1>14, <2>1, <3>1
    <2> QED
        BY <1>2, <2>2
<1> QED
    BY <1>15, <1>16 DEF n

-----------------------------------------------------------------------------
(* What the actions make of objects.                                       *)

\* All digits of an object nobody wrote to are 0, and so are its fields.
LEMMA EmptyIs == Empty \in UUIDs /\ Read(Empty, "v1") = Fields(0, 0, 0, 0, 0)
<1> DEFINE z == [i \in 1 .. 32 |-> 0]
<1>1. Empty \in UUIDs /\ \A i \in 1 .. 32 : Empty[i] = 0
    <2>1. z \in [1 .. 32 -> Digit] /\ <<>> \in [1 .. 0 -> Digit] /\ 32 \in Nat /\ 0 \in Nat
        BY Bases DEF Digit
    <2>2. \A i \in 1 .. 32 : z[i] = 0
        OBVIOUS
    <2>3. Empty = z \o <<>>
        BY DEF Empty
    <2> HIDE DEF z
    <2>4. Joined(z \o <<>>, z, <<>>, 32, 0, Digit)
        BY <2>1, Join
    <2> QED
        BY <2>2, <2>3, <2>4 DEF Joined, UUIDs
<1>2. \A p \in Nat \ {0} : 0 \div p = 0 /\ 0 % p = 0
    <2> TAKE p \in Nat \ {0}
    <2>1. p * 0 + 0 = 0 /\ 0 \in 0 .. p - 1
        OBVIOUS
    <2> QED
        BY <2>1, DivModUnique
<1>3. \A k \in 0 .. 16 : /\ Digits(0, k) \in Word(k) /\ Value(Digits(0, k)) = 0
                        /\ \A i \in 1 .. k : Digits(0, k)[i] = 0
    <2> TAKE k \in 0 .. 16
    <2>1. Digits(0, k) \in Word(k) /\ Value(Digits(0, k)) = 0
        BY <1>2, Powers, DigitsType, ValueOfDigits
    <2>2. ASSUME NEW i \in 1 .. k
          PROVE  Digits(0, k)[i] = 0
        <3>1. k - i \in 0 .. 16
            OBVIOUS
        <3>2. 0 \div Power[k - i] = 0 /\ 0 % BASE = 0
            BY <1>2, <3>1, Powers, Bases
        <3>3. Digits(0, k)[i] = (0 \div Power[k - i]) % BASE
            BY DEF Digits
        <3> QED
            BY <3>2, <3>3
    <2> QED
        BY <2>1, <2>2
<1>4. uuid1_time(Empty) = 0
    <2>1. 15 \in 0 .. 16 /\ (\A i \in 1 .. 3 : 13 + i \in 1 .. 32)
          /\ (\A i \in 4 .. 7 : 5 + i \in 1 .. 32) /\ \A i \in 8 .. 15 : i - 7 \in 1 .. 32
        OBVIOUS
    <2>2. InV1(Empty, Digits(0, 15))
        BY <1>1, <1>3, <2>1 DEF InV1
    <2> QED
        BY <1>1, <1>3, <2>1, <2>2, TimeOfV1
<1>5. uuid1_node(Empty) = 0
    <2>1. 12 \in 0 .. 16 /\ \A i \in 1 .. 12 : 20 + i \in 1 .. 32
        OBVIOUS
    <2>2. InNode(Empty, Digits(0, 12))
        BY <1>1, <1>3, <2>1 DEF InNode
    <2> QED
        BY <1>1, <1>3, <2>1, <2>2, NodeOf
<1>6. uuid1_clock_seq(Empty) = 0
    <2>1. 4 \in 0 .. 16 /\ \A i \in 2 .. 4 : 16 + i \in 1 .. 32
        OBVIOUS
    <2>2. Empty[17] % CLOCK_TOP = 0
        BY <1>1, <1>2, Bases
    <2>3. InClock(Empty, Digits(0, 4))
        BY <1>1, <1>3, <2>1, <2>2 DEF InClock
    <2> QED
        BY <1>1, <1>3, <2>1, <2>3, ClockOf
<1>7. uuid_variant(Empty) = 0 /\ uuid_version(Empty) = 0
    BY <1>1, <1>2, Bases DEF uuid_variant, uuid_version
<1>8. 0 % TIME_SIZE = 0 /\ 0 % CLOCK_SIZE = 0 /\ 0 % NODE_SIZE = 0
    BY <1>2, Widths
<1> QED
    BY <1>1, <1>4, <1>5, <1>6, <1>7, <1>8 DEF Read, Fields

\* The arguments of the actions.
LEMMA Arguments ==
    /\ TimeArgs \subseteq Nat /\ ClockArgs \subseteq Nat /\ NodeArgs \subseteq Nat
    /\ VersionArgs \subseteq Nat /\ VariantArgs \subseteq Digit
    /\ ByteArgs \subseteq UUIDs /\ CharArgs \subseteq Chars
BY ObjectAssumption

\* The fields of an object, as the codecs take them.
LEMMA FieldsInType ==
    ASSUME NEW u \in UUIDs, NEW order \in Orders
    PROVE  /\ FieldsIn(u, order) \in F!Fields
           /\ FieldsIn(u, order).time = Read(u, order).time
           /\ FieldsIn(u, order).clock = Read(u, order).clock
           /\ NodeNumber(FieldsIn(u, order).node) = Read(u, order).node
<1> DEFINE r == Read(u, order)
<1>1. r \in FieldTypes
    BY ReadType
<1>2. FieldsIn(u, order) = [time |-> r.time, clock |-> r.clock, node |-> NodeParts(r.node)]
    BY DEF FieldsIn
<1> HIDE DEF r
<1>3. r.time \in F!Times /\ r.clock \in F!Clocks /\ r.node \in 0 .. NODE_SIZE - 1
    BY <1>1, Windows DEF FieldTypes
<1>4. NodeParts(r.node) \in F!Nodes /\ NodeNumber(NodeParts(r.node)) = r.node
    BY <1>3, PartsOfNode
<1> QED
    BY <1>2, <1>3, <1>4 DEF F!Fields, r

\* The salt of a node: of any node of its width, and of any argument of make.
LEMMA SaltOfNode ==
    ASSUME F!HashAssumption, NEW n \in (0 .. NODE_SIZE - 1) \cup NodeArgs
    PROVE  F!SaltOf(NodeParts(n)) \in F!Salts
<1>1. CASE n \in 0 .. NODE_SIZE - 1
    BY <1>1, PartsOfNode DEF F!HashAssumption, F!SaltOf, F!Nodes
<1>2. CASE n \in NodeArgs
    <2>1. LocalSalt(NodeParts(n)) \in F!Salts /\ n \in Nat /\ SALT_SIZE \in Nat \ {0}
        BY <1>2, ObjectAssumption DEF F!WidthAssumption
    <2>2. n % SALT_SIZE \in F!Salts
        BY <2>1 DEF F!Salts
    <2>3. NodeParts(n).salt = n % SALT_SIZE
        BY DEF NodeParts
    <2> QED
        BY <2>1, <2>2, <2>3 DEF F!SaltOf
<1> QED
    BY <1>1, <1>2

\* Crushing numbers gives numbers, whatever their widths.
LEMMA CrushedFieldsType ==
    ASSUME F!HashAssumption, NEW c \in Orders,
           NEW t \in Nat, NEW k \in Nat, NEW n \in (0 .. NODE_SIZE - 1) \cup NodeArgs
    PROVE  LET f == CrushedFields(c, t, k, n)
           IN  f.time \in Nat /\ f.clock \in Nat /\ f.node \in Nat
<1> DEFINE f == [time |-> t, clock |-> k % CLOCK_SIZE, node |-> NodeParts(n)]
           g == F!Crush(c, f)
<1>1. f.time \in Nat /\ f.clock \in F!Clocks /\ F!SaltOf(f.node) \in F!Salts
    <2>1. k % CLOCK_SIZE \in 0 .. CLOCK_SIZE - 1
        BY Widths
    <2> QED
        BY <2>1, Windows, SaltOfNode
<1>2. CrushedFields(c, t, k, n) = [g EXCEPT !.node = NodeNumber(g.node)]
    BY DEF CrushedFields
<1> HIDE DEF f
<1>3. g \in F!Fields
    BY <1>1, FieldsFit DEF Orders, F!Codecs
<1> HIDE DEF g
<1>4. g.time \in Nat /\ g.clock \in Nat /\ g.node \in F!Nodes
    BY <1>3, Windows, Widths DEF F!Fields
<1>5. NodeNumber(g.node) \in Nat
    BY <1>4, NumberOfNode
<1> QED
    BY <1>2, <1>3, <1>4, <1>5 DEF F!Fields

\* The object that unserialise makes of a condensed content.
Reread(c, w) ==
    LET f == F!Uncondense(c, w)
        n == NodeNumber(f.node)
    IN  IF c = "v6" THEN to_v6_bytes(f.time, f.clock, n)
        ELSE CondensedLayout(f.time, f.clock, n)

\* It has the fields of the content, and its codec's version.
LEMMA RereadIs ==
    ASSUME F!HashAssumption, NEW c \in Orders, NEW w \in F!Contents
    PROVE  LET f == F!Uncondense(c, w)
           IN  /\ f \in F!Fields
               /\ Reread(c, w) \in UUIDs
               /\ Read(Reread(c, w), c)
                    = Fields(RFC, IF c = "v6" THEN V6 ELSE V1, f.time, f.clock,
                             NodeNumber(f.node))
<1> DEFINE f == F!Uncondense(c, w)
           n == NodeNumber(f.node)
<1>1. f \in F!Fields
    BY FieldsFit DEF Orders, F!Codecs
<1>2. f.time \in Nat /\ f.clock \in 0 .. CLOCK_SIZE - 1 /\ f.clock \in Nat /\ n \in Nat
    <2>1. f.time \in F!Times /\ f.clock \in F!Clocks /\ f.node \in F!Nodes
        BY <1>1 DEF F!Fields
    <2> HIDE DEF f
    <2> QED
        BY <2>1, Windows, Widths, NumberOfNode
<1>3. Reread(c, w) = IF c = "v6" THEN to_v6_bytes(f.time, f.clock, n)
                     ELSE CondensedLayout(f.time, f.clock, n)
    BY DEF Reread
<1> HIDE DEF f, n
<1>4. CASE c = "v6"
    BY <1>1, <1>2, <1>3, <1>4, ReadV6 DEF f, n
<1>5. CASE c # "v6"
    <2>1. c = "v1"
        BY <1>5 DEF Orders
    <2> QED
        BY <1>1, <1>2, <1>3, <2>1, ReadCondensed DEF f, n
<1> QED
    BY <1>4, <1>5

\* Whether an object goes as it is, or condensed by the codec of its version.
LEMMA WireIs ==
    ASSUME F!HashAssumption, NEW u \in UUIDs
    PROVE  \/ /\ Wire(u) = Full(u)
              /\ Wire(u).form = "full" /\ Wire(u).bytes = u
           \/ /\ Wire(u).form = "condensed"
              /\ WriterOf(u) \in Orders
              /\ uuid_variant(u) = RFC
              /\ uuid_version(u) = IF WriterOf(u) = "v6" THEN V6 ELSE V1
              /\ Wire(u).content = F!Condense(WriterOf(u), FieldsIn(u, WriterOf(u)))
              /\ Wire(u).content \in F!Contents
<1>1. ASSUME NEW c \in Orders
      PROVE  F!Condense(c, FieldsIn(u, c)) \in F!Contents
    BY FieldsInType, FieldsFit DEF Orders, F!Codecs
<1>2. CASE Is(u, V6)
    <2>1. Wire(u) = Condensed(F!Condense("v6", FieldsIn(u, "v6"))) /\ WriterOf(u) = "v6"
        BY <1>2 DEF Wire, WriterOf, Is
    <2> QED
        BY <1>1, <1>2, <2>1 DEF Condensed, Is, Orders
<1>3. CASE ~Is(u, V6) /\ Is(u, V1)
    <2>1. Wire(u) = Condensed(F!Condense("v1", FieldsIn(u, "v1"))) /\ WriterOf(u) = "v1"
        BY <1>3, Bases DEF Wire, WriterOf, Is
    <2> QED
        BY <1>1, <1>3, <2>1 DEF Condensed, Is, Orders
<1>4. CASE ~Is(u, V6) /\ ~Is(u, V1)
    BY <1>4 DEF Wire, Full
<1> QED
    BY <1>2, <1>3, <1>4

-----------------------------------------------------------------------------
(***************************************************************************)
(* The inductive invariant.  held is what the getters read; a parsed       *)
(* object is that of the text it came from; and until the next write the   *)
(* wire is that of the object that was sent, and the object in hand what   *)
(* the chosen codec makes of it.                                           *)
(***************************************************************************)
ShapeInv ==
    /\ uuid \in UUIDs /\ sent \in UUIDs
    /\ layout \in Orders /\ codec \in Orders
    /\ text \in Seq(Chars)
    /\ stage \in Stages

ParsedInv == stage = "parsed" => Parses(text) /\ uuid = Parsed(text)

WireInv ==
    /\ stage = "sent" => sent = uuid /\ wire = Wire(sent)
    /\ stage = "read" =>
        /\ wire = Wire(sent)
        /\ uuid = IF wire.form = "full" THEN sent ELSE Reread(codec, wire.content)

ObjectInv == ShapeInv /\ FieldsKept /\ ParsedInv /\ WireInv

\* It holds of the object nobody wrote to.
LEMMA ObjectInit ==
    ASSUME Init
    PROVE  ObjectInv
<1>1. Empty \in UUIDs /\ Read(Empty, "v1") = Fields(0, 0, 0, 0, 0)
    BY EmptyIs
<1>2. <<>> \in Seq(Chars)
    OBVIOUS
<1> QED
    BY <1>1, <1>2 DEF Init, ObjectInv, ShapeInv, FieldsKept, ParsedInv, WireInv, Orders, Stages

\* It is kept when an object gets the fields it should have.
LEMMA BecomesKeeps ==
    ASSUME ObjectInv, NEW u \in UUIDs, NEW fields, NEW order \in Orders,
           Becomes(u, fields, order), Read(u, order) = fields
    PROVE  ObjectInv'
<1>1. uuid' = u /\ held' = fields /\ layout' = order /\ text' = <<>> /\ sent' = Empty
      /\ codec' = "v6" /\ stage' = "object"
    BY DEF Becomes
<1>2. ShapeInv'
    <2>1. <<>> \in Seq(Chars) /\ Empty \in UUIDs
        BY EmptyIs
    <2> QED
        BY <1>1, <2>1 DEF ShapeInv, Orders, Stages
<1>3. FieldsKept'
    BY <1>1 DEF FieldsKept
<1>4. ParsedInv' /\ WireInv'
    BY <1>1 DEF ParsedInv, WireInv
<1> QED
    BY <1>2, <1>3, <1>4 DEF ObjectInv

\* The setters.
LEMMA SettersKeep ==
    ASSUME ObjectInv, PutTime \/ PutClockSeq \/ PutNode \/ PutVariant \/ PutVersion
    PROVE  ObjectInv'
<1>1. uuid \in UUIDs /\ layout \in Orders /\ Read(uuid, layout) = held
    BY DEF ObjectInv, ShapeInv, FieldsKept
<1>2. CASE PutTime
    <2>1. PICK t \in TimeArgs :
            Becomes(SetTime(uuid, t), [held EXCEPT !.time = t % TIME_SIZE], "v1")
        BY <1>2 DEF PutTime
    <2>2. t \in Nat /\ "v1" \in Orders
        BY Arguments DEF Orders
    <2>3. SetTime(uuid, t) \in UUIDs
        BY <1>1, <2>2, SetTimeIs
    <2>4. Read(SetTime(uuid, t), "v1") = [held EXCEPT !.time = t % TIME_SIZE]
        BY <1>1, <2>2, ReadSetTime
    <2> QED
        BY <2>1, <2>2, <2>3, <2>4, BecomesKeeps
<1>3. CASE PutClockSeq
    <2>1. PICK c \in ClockArgs :
            Becomes(SetClockSeq(uuid, c), [held EXCEPT !.clock = c % CLOCK_SIZE], layout)
        BY <1>3 DEF PutClockSeq
    <2>2. c \in Nat
        BY Arguments
    <2>3. SetClockSeq(uuid, c) \in UUIDs
        BY <1>1, <2>2, SetClockSeqIs
    <2>4. Read(SetClockSeq(uuid, c), layout) = [held EXCEPT !.clock = c % CLOCK_SIZE]
        BY <1>1, <2>2, ReadSetClock
    <2> QED
        BY <1>1, <2>1, <2>3, <2>4, BecomesKeeps
<1>4. CASE PutNode
    <2>1. PICK n \in NodeArgs :
            Becomes(SetNode(uuid, n), [held EXCEPT !.node = n % NODE_SIZE], layout)
        BY <1>4 DEF PutNode
    <2>2. n \in Nat
        BY Arguments
    <2>3. SetNode(uuid, n) \in UUIDs
        BY <1>1, <2>2, SetNodeIs
    <2>4. Read(SetNode(uuid, n), layout) = [held EXCEPT !.node = n % NODE_SIZE]
        BY <1>1, <2>2, ReadSetNode
    <2> QED
        BY <1>1, <2>1, <2>3, <2>4, BecomesKeeps
<1>5. CASE PutVariant
    <2>1. PICK d \in VariantArgs :
            Becomes(SetVariant(uuid, d), [held EXCEPT !.variant = d \div CLOCK_TOP], layout)
        BY <1>5 DEF PutVariant
    <2>2. d \in Digit
        BY Arguments
    <2>3. SetVariant(uuid, d) \in UUIDs
        BY <1>1, <2>2, SetVariantIs
    <2>4. Read(SetVariant(uuid, d), layout) = [held EXCEPT !.variant = d \div CLOCK_TOP]
        BY <1>1, <2>2, ReadSetVariant
    <2> QED
        BY <1>1, <2>1, <2>3, <2>4, BecomesKeeps
<1>6. CASE PutVersion
    <2>1. PICK v \in VersionArgs :
            Becomes(SetVersion(uuid, v), [held EXCEPT !.version = v % BASE], layout)
        BY <1>6 DEF PutVersion
    <2>2. v \in Nat
        BY Arguments
    <2>3. SetVersion(uuid, v) \in UUIDs
        BY <1>1, <2>2, SetVersionIs
    <2>4. Read(SetVersion(uuid, v), layout) = [held EXCEPT !.version = v % BASE]
        BY <1>1, <2>2, ReadSetVersion
    <2> QED
        BY <1>1, <2>1, <2>3, <2>4, BecomesKeeps
<1> QED
    BY <1>2, <1>3, <1>4, <1>5, <1>6

\* Crushing: the three setters after another, over the fields that were read.
LEMMA CrushKeeps ==
    ASSUME F!HashAssumption, ObjectInv, CompactCrush
    PROVE  ObjectInv'
<1> DEFINE f == CrushedFields("v1", uuid1_time(uuid), uuid1_clock_seq(uuid), uuid1_node(uuid))
           u1 == SetNode(uuid, f.node)
           u2 == SetClockSeq(u1, f.clock)
           u3 == SetTime(u2, f.time)
           r == Read(uuid, "v1")
<1>1. uuid \in UUIDs /\ "v1" \in Orders
    BY DEF ObjectInv, ShapeInv, Orders
<1>2. uuid_variant(uuid) = RFC /\ uuid_version(uuid) = V1
      /\ Becomes(u3, Fields(RFC, V1, f.time, f.clock, f.node), "v1")
    BY DEF CompactCrush
<1>3. r \in FieldTypes /\ r.variant = RFC /\ r.version = V1
      /\ r.time = uuid1_time(uuid) /\ r.clock = uuid1_clock_seq(uuid)
      /\ r.node = uuid1_node(uuid)
    <2>1. r \in FieldTypes
        BY <1>1, ReadType
    <2> QED
        BY <1>2, <2>1 DEF Read
<1> HIDE DEF r
<1>4. f.time \in Nat /\ f.clock \in Nat /\ f.node \in Nat
    <2>1. uuid1_time(uuid) \in Nat /\ uuid1_clock_seq(uuid) \in Nat
          /\ uuid1_node(uuid) \in 0 .. NODE_SIZE - 1
        BY <1>3, Widths DEF FieldTypes
    <2> QED
        BY <1>1, <2>1, CrushedFieldsType
<1> DEFINE t == f.time
           c == f.clock
           n == f.node
<1> HIDE DEF f
<1>5. u1 \in UUIDs /\ Read(u1, "v1") = [r EXCEPT !.node = n % NODE_SIZE]
    BY <1>1, <1>4, SetNodeIs, ReadSetNode DEF r
<1> HIDE DEF u1
<1>6. u2 \in UUIDs /\ Read(u2, "v1") = [Read(u1, "v1") EXCEPT !.clock = c % CLOCK_SIZE]
    <2>1. u1 \in UUIDs /\ c \in Nat
        BY <1>4, <1>5
    <2> HIDE DEF c
    <2>2. SetClockSeq(u1, c) \in UUIDs
        BY <2>1, SetClockSeqIs
    <2>3. Read(SetClockSeq(u1, c), "v1") = [Read(u1, "v1") EXCEPT !.clock = c % CLOCK_SIZE]
        BY <1>1, <2>1, ReadSetClock
    <2> QED
        BY <2>2, <2>3 DEF c
<1> HIDE DEF u2
<1>7. u3 \in UUIDs /\ Read(u3, "v1") = [Read(u2, "v1") EXCEPT !.time = t % TIME_SIZE]
    <2>1. u2 \in UUIDs /\ t \in Nat
        BY <1>4, <1>6
    <2> HIDE DEF t
    <2>2. SetTime(u2, t) \in UUIDs
        BY <2>1, SetTimeIs
    <2>3. Read(SetTime(u2, t), "v1") = [Read(u2, "v1") EXCEPT !.time = t % TIME_SIZE]
        BY <1>1, <2>1, ReadSetTime
    <2> QED
        BY <2>2, <2>3 DEF t
<1> HIDE DEF u3
<1>8. Read(u3, "v1") = Fields(RFC, V1, t, c, n)
    <2> DEFINE r1 == Read(u1, "v1")
               r2 == Read(u2, "v1")
               r3 == Read(u3, "v1")
    <2>1. r1 \in FieldTypes /\ r2 \in FieldTypes /\ r3 \in FieldTypes
        BY <1>1, <1>5, <1>6, <1>7, ReadType
    <2>2. /\ r1 = [r EXCEPT !.node = n % NODE_SIZE]
          /\ r2 = [r1 EXCEPT !.clock = c % CLOCK_SIZE]
          /\ r3 = [r2 EXCEPT !.time = t % TIME_SIZE]
        BY <1>5, <1>6, <1>7
    <2> HIDE DEF r1, r2, r3, t, c, n
    <2>3. r1.variant = RFC /\ r1.version = V1 /\ r1.node = n % NODE_SIZE
        BY <1>3, <2>2 DEF FieldTypes
    <2>4. /\ r2.variant = RFC /\ r2.version = V1
          /\ r2.node = n % NODE_SIZE /\ r2.clock = c % CLOCK_SIZE
        BY <2>1, <2>2, <2>3 DEF FieldTypes
    <2>5. /\ r3.variant = RFC /\ r3.version = V1 /\ r3.time = t % TIME_SIZE
          /\ r3.node = n % NODE_SIZE /\ r3.clock = c % CLOCK_SIZE
        BY <2>1, <2>2, <2>4 DEF FieldTypes
    <2>6. r3 = Fields(RFC, V1, t, c, n)
        BY <2>1, <2>5 DEF FieldTypes, Fields
    <2> QED
        BY <2>6 DEF r3
<1> QED
    BY <1>1, <1>2, <1>7, <1>8, BecomesKeeps

\* Objects made of fields and of bytes.
LEMMA MakersKeep ==
    ASSUME F!HashAssumption, ObjectInv, FromFields \/ Make \/ Construct
    PROVE  ObjectInv'
<1>1. "v1" \in Orders /\ "v6" \in Orders
    BY DEF Orders
<1>2. CASE FromFields
    <2>1. PICK t \in TimeArgs, c \in ClockArgs, n \in NodeArgs :
            Becomes(to_v6_bytes(t, c, n), Fields(RFC, V6, t, c, n), "v6")
        BY <1>2 DEF FromFields
    <2>2. t \in Nat /\ c \in Nat /\ n \in Nat
        BY Arguments
    <2> QED
        BY <1>1, <2>1, <2>2, ReadV6, BecomesKeeps
<1>3. CASE Make
    <2>1. PICK t \in TimeArgs, c \in ClockArgs, n \in NodeArgs :
            LET f == CrushedFields("v6", t, c, n)
            IN  Becomes(to_v6_bytes(f.time, f.clock, f.node),
                        Fields(RFC, V6, f.time, f.clock, f.node), "v6")
        BY <1>3 DEF Make
    <2> DEFINE f == CrushedFields("v6", t, c, n)
    <2>2. f.time \in Nat /\ f.clock \in Nat /\ f.node \in Nat
        <3>1. t \in Nat /\ c \in Nat /\ n \in NodeArgs
            BY <2>1, Arguments
        <3> QED
            BY <1>1, <3>1, CrushedFieldsType
    <2>3. Becomes(to_v6_bytes(f.time, f.clock, f.node),
                  Fields(RFC, V6, f.time, f.clock, f.node), "v6")
        BY <2>1
    <2> HIDE DEF f
    <2> QED
        BY <1>1, <2>2, <2>3, ReadV6, BecomesKeeps
<1>4. CASE Construct
    <2>1. PICK b \in ByteArgs : \/ Becomes(FromBytes(b, FALSE), Read(b, "v1"), "v1")
                                \/ Becomes(FromBytes(b, TRUE), ReadLowFirst(b), "v1")
        BY <1>4 DEF Construct
    <2>2. b \in UUIDs /\ FromBytes(b, FALSE) = b
        BY Arguments DEF FromBytes
    <2>3. FromBytes(b, TRUE) \in UUIDs /\ Read(FromBytes(b, TRUE), "v1") = ReadLowFirst(b)
        BY <2>2, ReadFromBytes
    <2> QED
        BY <1>1, <2>1, <2>2, <2>3, BecomesKeeps
<1> QED
    BY <1>2, <1>3, <1>4

\* Printing, editing and parsing.
LEMMA TextKeeps ==
    ASSUME ObjectInv, PutOut \/ Edit \/ Parse \/ ParseFails
    PROVE  ObjectInv'
<1> USE DEF ObjectInv
<1>1. CASE PutOut
    <2>1. to_string(uuid) \in Seq(Chars)
        <3>1. uuid \in UUIDs
            BY DEF ShapeInv
        <3>2. to_string(uuid) \in [1 .. 36 -> Chars]
            BY <3>1, ToStringIs DEF TextOf, Shown
        <3> QED
            BY <3>2, WordIsSeq
    <2>2. ShapeInv'
        BY <1>1, <2>1 DEF PutOut, ShapeInv, Stages
    <2>3. FieldsKept'
        BY <1>1 DEF PutOut, FieldsKept
    <2>4. ParsedInv' /\ WireInv'
        BY <1>1 DEF PutOut, ParsedInv, WireInv
    <2> QED
        BY <2>2, <2>3, <2>4
<1>2. CASE Edit
    <2>1. PICK i \in 1 .. Len(text), c \in CharArgs :
            text' \in {ReplaceAt(text, i, c), RemoveAt(text, i), InsertAt(text, i, c),
                       IF i = Len(text) THEN Append(text, c)
                       ELSE ReplaceAt(ReplaceAt(text, i, text[i + 1]), i + 1, text[i])}
        BY <1>2 DEF Edit
    <2>2. c \in Chars /\ text \in Seq(Chars)
        BY Arguments DEF ShapeInv
    <2>3. /\ ReplaceAt(text, i, c) \in Seq(Chars) /\ RemoveAt(text, i) \in Seq(Chars)
          /\ InsertAt(text, i, c) \in Seq(Chars) /\ Append(text, c) \in Seq(Chars)
        BY <2>2, EditedText
    <2>4. ASSUME i # Len(text)
          PROVE  ReplaceAt(ReplaceAt(text, i, text[i + 1]), i + 1, text[i]) \in Seq(Chars)
        <3> DEFINE once == ReplaceAt(text, i, text[i + 1])
        <3>1. i + 1 \in 1 .. Len(text)
            BY <2>2, <2>4, LenProperties
        <3>2. text[i] \in Chars /\ text[i + 1] \in Chars
            BY <2>2, <3>1, ElementOfSeq
        <3>3. once \in Seq(Chars) /\ Len(once) = Len(text)
            BY <2>2, <3>2, EditedText
        <3> HIDE DEF once
        <3>4. ReplaceAt(once, i + 1, text[i]) \in Seq(Chars)
            BY <3>1, <3>2, <3>3, EditedText
        <3> QED
            BY <3>4 DEF once
    <2>5. text' \in Seq(Chars)
        BY <2>1, <2>3, <2>4
    <2>6. ShapeInv'
        BY <1>2, <2>5 DEF Edit, ShapeInv
    <2>7. FieldsKept'
        BY <1>2 DEF Edit, FieldsKept
    <2>8. ParsedInv' /\ WireInv'
        BY <1>2 DEF Edit, ParsedInv, WireInv
    <2> QED
        BY <2>6, <2>7, <2>8
<1>3. CASE Parse
    <2>1. Parsed(text) \in UUIDs
        BY <1>3, ParsedIs DEF Parse
    <2>2. ShapeInv'
        BY <1>3, <2>1 DEF Parse, ShapeInv, Stages
    <2>3. FieldsKept'
        BY <1>3 DEF Parse, FieldsKept
    <2>4. ParsedInv' /\ WireInv'
        BY <1>3 DEF Parse, ParsedInv, WireInv
    <2> QED
        BY <2>2, <2>3, <2>4
<1>4. CASE ParseFails
    <2>1. <<>> \in Seq(Chars)
        OBVIOUS
    <2>2. ShapeInv'
        BY <1>4, <2>1 DEF ParseFails, ShapeInv, Stages
    <2>3. FieldsKept'
        BY <1>4 DEF ParseFails, FieldsKept
    <2>4. ParsedInv' /\ WireInv'
        BY <1>4 DEF ParseFails, ParsedInv, WireInv
    <2> QED
        BY <2>2, <2>3, <2>4
<1> QED
    BY <1>1, <1>2, <1>3, <1>4

\* Writing to the wire and reading it.
LEMMA WireStepsKeep ==
    ASSUME F!HashAssumption, ObjectInv, Serialise \/ Unserialise
    PROVE  ObjectInv'
<1> USE DEF ObjectInv
<1>1. CASE Serialise
    <2>1. ShapeInv'
        BY <1>1 DEF Serialise, ShapeInv, Stages
    <2>2. FieldsKept'
        BY <1>1 DEF Serialise, FieldsKept
    <2>3. ParsedInv' /\ WireInv'
        BY <1>1 DEF Serialise, ParsedInv, WireInv
    <2> QED
        BY <2>1, <2>2, <2>3
<1>2. CASE Unserialise
    <2>1. stage = "sent" /\ sent \in UUIDs /\ uuid = sent /\ wire = Wire(sent)
        BY <1>2 DEF Unserialise, ShapeInv, WireInv
    <2>2. stage' = "read" /\ codec' \in Orders /\ text' = text /\ wire' = wire /\ sent' = sent
        BY <1>2 DEF Unserialise, F!Codecs, Orders
    <2>3. CASE wire.form = "full"
        <3>1. uuid' = wire.bytes /\ held' = held /\ layout' = layout
            BY <1>2, <2>3 DEF Unserialise
        <3>2. wire.bytes = sent
            BY <2>1, <2>3, WireIs
        <3>3. uuid' = uuid
            BY <2>1, <3>1, <3>2
        <3>4. ShapeInv'
            BY <2>2, <3>1, <3>3 DEF ShapeInv, Stages
        <3>5. FieldsKept'
            BY <3>1, <3>3 DEF FieldsKept
        <3>6. ParsedInv' /\ WireInv'
            BY <2>1, <2>2, <2>3, <3>3 DEF ParsedInv, WireInv
        <3> QED
            BY <3>4, <3>5, <3>6
    <2>4. CASE wire.form # "full"
        <3> DEFINE f == F!Uncondense(codec', wire.content)
                   n == NodeNumber(f.node)
        <3>1. wire.content \in F!Contents
            BY <2>1, <2>4, WireIs
        <3>2. /\ uuid' = IF codec' = "v6" THEN to_v6_bytes(f.time, f.clock, n)
                         ELSE CondensedLayout(f.time, f.clock, n)
              /\ held' = Fields(RFC, IF codec' = "v6" THEN V6 ELSE V1, f.time, f.clock, n)
              /\ layout' = codec'
            BY <1>2, <2>4 DEF Unserialise
        <3>3. uuid' = Reread(codec', wire.content)
            BY <3>2 DEF Reread
        <3>4. uuid' \in UUIDs /\ Read(uuid', codec') = held'
            BY <2>2, <3>1, <3>2, <3>3, RereadIs
        <3>5. ShapeInv'
            BY <2>2, <3>2, <3>4 DEF ShapeInv, Stages
        <3>6. FieldsKept'
            BY <3>2, <3>4 DEF FieldsKept
        <3>7. ParsedInv' /\ WireInv'
            BY <2>1, <2>2, <2>4, <3>3 DEF ParsedInv, WireInv
        <3> QED
            BY <3>5, <3>6, <3>7
    <2> QED
        BY <2>3, <2>4
<1> QED
    BY <1>1, <1>2

\* Every step keeps it.
LEMMA ObjectStep ==
    ASSUME F!HashAssumption, ObjectInv, [Next]_vars
    PROVE  ObjectInv'
<1>1. CASE PutTime \/ PutClockSeq \/ PutNode \/ PutVariant \/ PutVersion
    BY <1>1, SettersKeep
<1>2. CASE CompactCrush
    BY <1>2, CrushKeeps
<1>3. CASE FromFields \/ Make \/ Construct
    BY <1>3, MakersKeep
<1>4. CASE PutOut \/ Edit \/ Parse \/ ParseFails
    BY <1>4, TextKeeps
<1>5. CASE Serialise \/ Unserialise
    BY <1>5, WireStepsKeep
<1>6. CASE UNCHANGED vars
    BY <1>6 DEF vars, ObjectInv, ShapeInv, FieldsKept, ParsedInv, WireInv
<1> QED
    BY <1>1, <1>2, <1>3, <1>4, <1>5, <1>6 DEF Next, Rest

\* The invariant of every behaviour.
LEMMA ObjectInvariant ==
    ASSUME F!HashAssumption
    PROVE  Spec => []ObjectInv
<1>1. Init => ObjectInv
    BY ObjectInit
<1>2. ObjectInv /\ [Next]_vars => ObjectInv'
    BY ObjectStep
<1> QED
    BY <1>1, <1>2, PTL DEF Spec

-----------------------------------------------------------------------------
(***************************************************************************)
(* The invariants of CuuidObject.  F!HashAssumption (what the hashes and   *)
(* expanders return fits its field) is a hypothesis of those that crushing *)
(* or condensing can disturb: CuuidFields assumes it of its constants, and *)
(* an INSTANCE does not carry it over.                                     *)
(***************************************************************************)

\* The object is 16 bytes and every field keeps its width, whatever the setters
\* and makers are given.
THEOREM ObjectTypes ==
    ASSUME F!HashAssumption
    PROVE  Spec => []TypeOK
<1>1. ASSUME ObjectInv
      PROVE  TypeOK
    <2>1. uuid \in UUIDs /\ layout \in Orders /\ codec \in Orders /\ text \in Seq(Chars)
          /\ stage \in Stages /\ held = Read(uuid, layout)
        BY <1>1 DEF ObjectInv, ShapeInv, FieldsKept
    <2>2. held \in FieldTypes
        BY <2>1, ReadType
    <2>3. \A i \in 1 .. Len(text) : text[i] \in Chars
        BY <2>1, ElementOfSeq
    <2> QED
        BY <2>1, <2>2, <2>3 DEF TypeOK, FieldTypes, Orders, F!Codecs
<1> QED
    BY <1>1, ObjectInvariant, PTL

\* Whatever was written to an object, in whatever order, each getter reads what
\* was last put into its field.
THEOREM FieldsKeptHolds ==
    ASSUME F!HashAssumption
    PROVE  Spec => []FieldsKept
<1>1. ASSUME ObjectInv
      PROVE  FieldsKept
    BY <1>1 DEF ObjectInv
<1> QED
    BY <1>1, ObjectInvariant, PTL

\* is_valid and the constructor take the same texts.
THEOREM ValidAgreesHolds == Spec => []ValidAgrees
<1>1. ValidAgrees
    BY SameFormat DEF ValidAgrees
<1> QED
    BY <1>1, PTL

\* A text that was taken is the print of the object, but for case, and every
\* object's print is taken for that object.
THEOREM TextRoundTripsHolds ==
    ASSUME F!HashAssumption
    PROVE  Spec => []TextRoundTrips
<1>1. ASSUME ObjectInv
      PROVE  TextRoundTrips
    <2>1. uuid \in UUIDs /\ text \in Seq(Chars)
        BY <1>1 DEF ObjectInv, ShapeInv
    <2>2. Parses(to_string(uuid)) /\ Parsed(to_string(uuid)) = uuid
        BY <2>1, ToStringIs, PrintIsTaken
    <2>3. stage = "parsed" => to_string(uuid) = LowerCase(text) \o <<>>
        BY <1>1, <2>1, TakenIsPrinted DEF ObjectInv, ParsedInv
    <2> QED
        BY <2>2, <2>3 DEF TextRoundTrips
<1> QED
    BY <1>1, ObjectInvariant, PTL

\* Objects of one version laid out as v6 are in the order of their times.
LEMMA V6Before ==
    ASSUME NEW u \in UUIDs, NEW v \in UUIDs, u[13] = v[13],
           from_v6_bytes(u).time < from_v6_bytes(v).time
    PROVE  Before(u, v)
<1>1. PICK d : InV6(u, d) /\ from_v6_bytes(u).time = Value(d)
    BY TimeOfV6
<1>2. PICK e : InV6(v, e) /\ from_v6_bytes(v).time = Value(e)
    BY TimeOfV6
<1>3. d \in Word(15) /\ e \in Word(15) /\ Value(d) < Value(e) /\ 15 \in Nat
    BY <1>1, <1>2 DEF InV6
<1>4. PICK k \in 1 .. 15 : d[k] < e[k] /\ \A i \in 1 .. k - 1 : d[i] = e[i]
    BY <1>3, ValueOrder
<1> DEFINE p == IF k <= 12 THEN k ELSE k + 1
<1>5. u[p] = d[k] /\ v[p] = e[k] /\ p \in 1 .. 16
    <2>1. CASE k <= 12
        <3>1. k \in 1 .. 12
            BY <2>1
        <3> QED
            BY <1>1, <1>2, <2>1, <3>1 DEF InV6
    <2>2. CASE ~(k <= 12)
        <3>1. k \in 13 .. 15
            BY <2>2
        <3> QED
            BY <1>1, <1>2, <2>2, <3>1 DEF InV6
    <2> QED
        BY <2>1, <2>2
<1>6. \A i \in 1 .. p - 1 : u[i] = v[i]
    <2> TAKE i \in 1 .. p - 1
    <2>1. CASE i <= 12
        <3>1. i \in 1 .. k - 1 /\ i \in 1 .. 12
            BY <2>1
        <3>2. d[i] = e[i] /\ u[i] = d[i] /\ v[i] = e[i]
            BY <1>1, <1>2, <1>4, <3>1 DEF InV6
        <3> QED
            BY <3>2
    <2>2. CASE i = 13
        BY <2>2
    <2>3. CASE i > 13
        <3>1. i - 1 \in 1 .. k - 1 /\ i - 1 \in 13 .. 15 /\ (i - 1) + 1 = i
            BY <2>3
        <3>2. d[i - 1] = e[i - 1] /\ u[(i - 1) + 1] = d[i - 1] /\ v[(i - 1) + 1] = e[i - 1]
            BY <1>1, <1>2, <1>4, <3>1 DEF InV6
        <3> QED
            BY <3>1, <3>2
    <2> QED
        BY <2>1, <2>2, <2>3
<1> HIDE DEF p
<1>7. SubSeq(u, 1, p - 1) = SubSeq(v, 1, p - 1)
    <2> DEFINE a == SubSeq(u, 1, p - 1)
               b == SubSeq(v, 1, p - 1)
    <2>1. u \in [1 .. 32 -> Digit] /\ v \in [1 .. 32 -> Digit] /\ 32 \in Nat
          /\ 1 \in 1 .. 32 + 1 /\ p - 1 \in 1 - 1 .. 32
        BY <1>5 DEF UUIDs
    <2>2. Parted(a, u, 1, p - 1, Digit) /\ Parted(b, v, 1, p - 1, Digit)
        BY <2>1, Part
    <2>3. (p - 1) - 1 + 1 = p - 1 /\ \A i \in 1 .. p - 1 : 1 + i - 1 = i
        BY <1>5
    <2> HIDE DEF a, b
    <2>4. /\ a \in [1 .. p - 1 -> Digit] /\ b \in [1 .. p - 1 -> Digit]
          /\ \A i \in 1 .. p - 1 : a[i] = u[i] /\ b[i] = v[i]
        BY <2>2, <2>3 DEF Parted
    <2>5. a = b
        <3> DEFINE I == 1 .. p - 1
        <3>1. a \in [I -> Digit] /\ b \in [I -> Digit]
            BY <2>4
        <3>2. \A i \in I : a[i] = b[i]
            BY <1>6, <2>4
        <3> HIDE DEF I
        <3> QED
            BY <3>1, <3>2
    <2> QED
        BY <2>5 DEF a, b
<1>8. p \in 1 .. Len(u)
    <2>1. Len(u) = 32
        <3>1. u \in [1 .. 32 -> Digit] /\ 32 \in Nat
            BY DEF UUIDs
        <3> QED
            BY <3>1, WordIsSeq
    <2> QED
        BY <1>5, <2>1
<1> QED
    BY <1>4, <1>5, <1>7, <1>8 DEF Before

\* The bytes of v6 ids sort by time, whatever their clocks and nodes.
THEOREM V6SortsByTimeHolds ==
    ASSUME F!HashAssumption
    PROVE  Spec => []V6SortsByTime
<1>1. ASSUME ObjectInv
      PROVE  V6SortsByTime
    <2> SUFFICES ASSUME layout = "v6", held.version = V6,
                        NEW t \in TimeArgs, NEW c \in ClockArgs
                 PROVE  LET other == to_v6_bytes(t, c, 0)
                        IN  /\ held.time < t % TIME_SIZE => Before(uuid, other)
                            /\ held.time > t % TIME_SIZE => Before(other, uuid)
        BY DEF V6SortsByTime
    <2> DEFINE other == to_v6_bytes(t, c, 0)
    <2>1. uuid \in UUIDs /\ held = Read(uuid, "v6")
        BY <1>1 DEF ObjectInv, ShapeInv, FieldsKept
    <2>2. uuid[13] = V6 /\ from_v6_bytes(uuid).time = held.time
        BY <2>1 DEF Read, uuid_version
    <2>3. t \in Nat /\ c \in Nat /\ 0 \in Nat
        BY Arguments
    <2>4. other \in UUIDs /\ other[13] = V6 /\ InV6(other, Digits(t, 15))
        BY <2>3, ToV6Is
    <2>5. from_v6_bytes(other).time = t % TIME_SIZE
        <3>1. 15 \in 0 .. 16
            OBVIOUS
        <3> HIDE DEF other
        <3>2. from_v6_bytes(other).time = Value(Digits(t, 15))
            BY <2>4, TimeOfV6
        <3> QED
            BY <2>3, <3>1, <3>2, ValueOfDigits, Widths
    <2>6. held.time \in Int /\ t % TIME_SIZE \in Int
        <3>1. held \in FieldTypes
            BY <2>1, ReadType DEF Orders
        <3>2. t % TIME_SIZE \in 0 .. TIME_SIZE - 1
            <4>1. t \in Int
                BY <2>3
            <4> QED
                BY <4>1, Widths, DivMod
        <3> QED
            BY <3>1, <3>2, Widths DEF FieldTypes
    <2> HIDE DEF other
    <2>7. held.time < t % TIME_SIZE => Before(uuid, other)
        BY <2>1, <2>2, <2>4, <2>5, V6Before
    <2>8. held.time > t % TIME_SIZE => Before(other, uuid)
        <3> SUFFICES ASSUME held.time > t % TIME_SIZE
                     PROVE  Before(other, uuid)
            OBVIOUS
        <3>1. from_v6_bytes(other).time < from_v6_bytes(uuid).time
            BY <2>2, <2>5, <2>6
        <3> QED
            BY <2>1, <2>2, <2>4, <3>1, V6Before
    <2> QED
        BY <2>7, <2>8 DEF other
<1> QED
    BY <1>1, ObjectInvariant, PTL

\* A condensed object is itself again under its own codec exactly if the wire
\* keeps its fields.
LEMMA OwnCodec ==
    ASSUME F!HashAssumption, NEW u \in UUIDs, Wire(u).form # "full"
    PROVE  Reread(WriterOf(u), Wire(u).content) = u <=> Kept(u)
<1> DEFINE c == WriterOf(u)
           w == Wire(u).content
           f == FieldsIn(u, c)
           g == F!Uncondense(c, w)
           r == Read(u, c)
           v == IF c = "v6" THEN V6 ELSE V1
           new == Reread(c, w)
<1>1. /\ c \in Orders /\ w = F!Condense(c, f) /\ w \in F!Contents
      /\ uuid_variant(u) = RFC /\ uuid_version(u) = v
    BY WireIs
<1>2. /\ g \in F!Fields /\ new \in UUIDs
      /\ Read(new, c) = Fields(RFC, v, g.time, g.clock, NodeNumber(g.node))
    BY <1>1, RereadIs
<1>3. Kept(u) <=> g = f
    <2>1. c \in F!Codecs /\ f \in F!Fields
        BY <1>1, FieldsInType DEF Orders, F!Codecs
    <2>2. F!Uncondense(c, F!Condense(c, f)) = f
            <=> /\ f.node.mc \/ f.time # UUID_TIME_INITIAL
                /\ f.node = F!CalculateNode(c, F!CompactOf(f, f.node.salt))
                        => F!WindowStart(F!WindowOf(f.time)) = f.time
        BY <2>1, WireKeeps
    <2>3. Kept(u)
            <=> /\ f.node.mc \/ f.time # UUID_TIME_INITIAL
                /\ f.node = F!CalculateNode(c, F!CompactOf(f, f.node.salt))
                        => F!WindowStart(F!WindowOf(f.time)) = f.time
        BY DEF Kept
    <2> QED
        BY <1>1, <2>2, <2>3
<1>4. /\ r \in FieldTypes /\ r.variant = RFC /\ r.version = v
      /\ f = [time |-> r.time, clock |-> r.clock, node |-> NodeParts(r.node)]
    <2>1. r \in FieldTypes
        BY <1>1, ReadType
    <2> QED
        BY <1>1, <2>1 DEF Read, FieldsIn
<1>5. f \in F!Fields /\ NodeNumber(f.node) = r.node
    BY <1>1, FieldsInType
<1> HIDE DEF c, w, f, g, r, v, new
<1>6. /\ g.time \in 0 .. TIME_SIZE - 1 /\ g.clock \in 0 .. CLOCK_SIZE - 1
      /\ g.node \in F!Nodes /\ NodeNumber(g.node) \in 0 .. NODE_SIZE - 1
      /\ NodeParts(NodeNumber(g.node)) = g.node
      /\ g = [time |-> g.time, clock |-> g.clock, node |-> g.node]
    <2>1. g.time \in F!Times /\ g.clock \in F!Clocks /\ g.node \in F!Nodes
          /\ g = [time |-> g.time, clock |-> g.clock, node |-> g.node]
        BY <1>2 DEF F!Fields
    <2> QED
        BY <2>1, Windows, NumberOfNode
<1>7. Read(new, c) = [variant |-> RFC, version |-> v, time |-> g.time, clock |-> g.clock,
                      node |-> NodeNumber(g.node)]
    <2>1. \A d \in Nat \ {0} : \A x \in 0 .. d - 1 : x % d = x
        <3> TAKE d \in Nat \ {0}
        <3> TAKE x \in 0 .. d - 1
        <3>1. d * 0 + x = x
            OBVIOUS
        <3> QED
            BY <3>1, DivModUnique
    <2>2. g.time % TIME_SIZE = g.time /\ g.clock % CLOCK_SIZE = g.clock
          /\ NodeNumber(g.node) % NODE_SIZE = NodeNumber(g.node)
        BY <1>6, <2>1, Widths
    <2> QED
        BY <1>2, <2>2 DEF Fields
<1>8. ASSUME g = f
      PROVE  new = u
    <2>1. Read(new, c) = r
        <3>1. r = [variant |-> r.variant, version |-> r.version, time |-> r.time,
                   clock |-> r.clock, node |-> r.node]
            BY <1>4 DEF FieldTypes
        <3>2. g.time = r.time /\ g.clock = r.clock /\ NodeNumber(g.node) = r.node
            BY <1>4, <1>5, <1>8
        <3> QED
            BY <1>4, <1>7, <3>1, <3>2
    <2> QED
        BY <1>1, <1>2, <2>1, FieldsTell DEF r
<1>9. ASSUME new = u
      PROVE  g = f
    <2>1. r = [variant |-> RFC, version |-> v, time |-> g.time, clock |-> g.clock,
               node |-> NodeNumber(g.node)]
        BY <1>7, <1>9 DEF r
    <2>2. r.time = g.time /\ r.clock = g.clock /\ r.node = NodeNumber(g.node)
        BY <2>1
    <2> QED
        BY <1>4, <1>6, <2>2
<1> QED
    BY <1>3, <1>8, <1>9 DEF new, c, w

\* What a reader gets: the object that was sent, exactly where the wire keeps its
\* fields, and under another codec an id of another version.
THEOREM DecodesToSentHolds ==
    ASSUME F!HashAssumption
    PROVE  Spec => []DecodesToSent
<1>1. ASSUME ObjectInv
      PROVE  DecodesToSent
    <2> SUFFICES ASSUME stage = "read"
                 PROVE  IF wire.form = "full" \/ codec = WriterOf(sent)
                        THEN uuid = sent <=> wire.form = "full" \/ Kept(sent)
                        ELSE uuid_version(uuid) # uuid_version(sent)
        BY DEF DecodesToSent
    <2>1. /\ sent \in UUIDs /\ codec \in Orders /\ wire = Wire(sent)
          /\ uuid = IF wire.form = "full" THEN sent ELSE Reread(codec, wire.content)
        BY <1>1 DEF ObjectInv, ShapeInv, WireInv
    <2>2. CASE wire.form = "full"
        BY <2>1, <2>2
    <2>3. CASE wire.form # "full" /\ codec = WriterOf(sent)
        <3>1. Reread(WriterOf(sent), Wire(sent).content) = sent <=> Kept(sent)
            BY <2>1, <2>3, OwnCodec
        <3> QED
            BY <2>1, <2>3, <3>1
    <2>4. CASE wire.form # "full" /\ codec # WriterOf(sent)
        <3>1. /\ wire.content \in F!Contents /\ WriterOf(sent) \in Orders
              /\ uuid_version(sent) = IF WriterOf(sent) = "v6" THEN V6 ELSE V1
            BY <2>1, <2>4, WireIs
        <3>2. Read(uuid, codec).version = IF codec = "v6" THEN V6 ELSE V1
            <4> DEFINE f == F!Uncondense(codec, wire.content)
            <4>1. uuid = Reread(codec, wire.content)
                BY <2>1, <2>4
            <4>2. Read(uuid, codec)
                    = Fields(RFC, IF codec = "v6" THEN V6 ELSE V1, f.time, f.clock,
                             NodeNumber(f.node))
                BY <2>1, <3>1, <4>1, RereadIs
            <4> QED
                BY <4>2 DEF Fields
        <3>3. uuid_version(uuid) = Read(uuid, codec).version
            BY DEF Read
        <3>4. codec = "v6" <=> WriterOf(sent) # "v6"
            BY <2>1, <2>4, <3>1 DEF Orders
        <3> QED
            BY <2>4, <3>1, <3>2, <3>3, <3>4, Bases
    <2> QED
        BY <2>2, <2>3, <2>4
<1> QED
    BY <1>1, ObjectInvariant, PTL
=============================================================================
