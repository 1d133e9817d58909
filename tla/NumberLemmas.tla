---------------------------- MODULE NumberLemmas ----------------------------
(***************************************************************************)
(* Division with remainder; and induction and recursion up to a number,    *)
(* over sets and functions instead of operators: what holds of 0 and of    *)
(* the next is stated by a set T, a step of a recursion by a function.     *)
(***************************************************************************)
EXTENDS Integers, WellFoundedInduction, TLAPS

-----------------------------------------------------------------------------
(* Division with remainder.                                                *)

\* The product of two positive widths is a positive width.
LEMMA ProductPositive ==
    ASSUME NEW a \in Nat \ {0}, NEW b \in Nat \ {0}
    PROVE  a * b \in Nat \ {0}
PROOF OBVIOUS

\* Quotient and remainder rebuild the number, also a negative one: this is
\* the wrap of an unsigned subtraction under a mask.
LEMMA DivMod ==
    ASSUME NEW n \in Int, NEW d \in Nat \ {0}
    PROVE  /\ n \div d \in Int
           /\ n % d \in 0 .. d - 1
           /\ n = d * (n \div d) + (n % d)
PROOF OBVIOUS

\* A number's quotient and remainder are the only ones that rebuild it.
LEMMA DivModUnique ==
    ASSUME NEW d \in Nat \ {0}, NEW q \in Int, NEW r \in 0 .. d - 1
    PROVE  (d * q + r) \div d = q /\ (d * q + r) % d = r
PROOF OBVIOUS

\* What dividing twice gives.
Twice(n, p, q) ==
    /\ n \div p \in Nat
    /\ (n \div p) \div q = n \div (p * q)
    /\ ((n \div p) % q) * p + (n % p) = n % (p * q)

\* All of it.
LEMMA DivTwice ==
    ASSUME NEW n \in Nat, NEW p \in Nat \ {0}, NEW q \in Nat \ {0}
    PROVE  Twice(n, p, q)
<1> DEFINE a == n \div p
           r == n % p
           b == a \div q
           s == a % q
<1>1. a \in Int /\ r \in 0 .. p - 1 /\ n = p * a + r
    BY DivMod
<1>2. a \in Nat
    <2> HIDE DEF a, r
    <2>1. SUFFICES ASSUME a <= -1
                   PROVE  FALSE
        BY <1>1
    <2>2. p * a <= -p
        BY <2>1, <1>1
    <2> QED
        BY <2>2, <1>1
<1>3. b \in Int /\ s \in 0 .. q - 1 /\ a = q * b + s
    BY <1>2, DivMod
<1> HIDE DEF a, r, b, s
<1>4. p * q \in Nat \ {0}
    BY ProductPositive
<1>5. p * s + r \in 0 .. p * q - 1
    <2>1. p * s <= p * (q - 1) /\ p * s >= 0 /\ p * (q - 1) = p * q - p
        BY <1>3
    <2>2. p * s \in Int /\ p * q \in Int
        BY <1>3
    <2> QED
        BY <2>1, <2>2, <1>1
<1>6. n = (p * q) * b + (p * s + r)
    <2>1. p * a = p * (q * b) + p * s /\ p * (q * b) = (p * q) * b
        BY <1>3
    <2>2. p * s \in Int /\ p * (q * b) \in Int
        BY <1>3
    <2> QED
        BY <2>1, <2>2, <1>1, <1>3
<1>7. n \div (p * q) = b /\ n % (p * q) = p * s + r
    <2> DEFINE d == p * q
               x == p * s + r
    <2> HIDE DEF d, x
    <2>1. d \in Nat \ {0} /\ x \in 0 .. d - 1 /\ n = d * b + x
        BY <1>4, <1>5, <1>6 DEF d, x
    <2>2. n \div d = b /\ n % d = x
        BY <2>1, <1>3, DivModUnique
    <2> QED
        BY <2>2 DEF d, x
<1> QED
    BY <1>1, <1>2, <1>3, <1>7 DEF a, r, b, s, Twice

\* A natural number has a natural quotient.
LEMMA DivNat ==
    ASSUME NEW n \in Nat, NEW p \in Nat \ {0}
    PROVE  n \div p \in Nat
<1>1. 1 \in Nat \ {0}
    OBVIOUS
<1>2. Twice(n, p, 1)
    BY <1>1, DivTwice
<1> QED
    BY <1>2 DEF Twice

\* Dividing twice is dividing by the product.
LEMMA DivDiv ==
    ASSUME NEW n \in Nat, NEW p \in Nat \ {0}, NEW q \in Nat \ {0}
    PROVE  (n \div p) \div q = n \div (p * q)
<1>1. Twice(n, p, q)
    BY DivTwice
<1> QED
    BY <1>1 DEF Twice

\* A digit taken out of the middle of a number and put before what is below it
\* makes the remainder one digit up.
LEMMA ModDigit ==
    ASSUME NEW n \in Nat, NEW p \in Nat \ {0}, NEW q \in Nat \ {0}
    PROVE  ((n \div p) % q) * p + (n % p) = n % (p * q)
<1>1. Twice(n, p, q)
    BY DivTwice
<1> QED
    BY <1>1 DEF Twice

-----------------------------------------------------------------------------
(* Up to a number.                                                         *)

\* What holds of 0 and of the next number holds up to n.
LEMMA Upwards ==
    ASSUME NEW n \in Nat, NEW T, 0 \in T, \A i \in 0 .. n - 1 : i \in T => i + 1 \in T
    PROVE  0 .. n \subseteq T
<1> DEFINE U == (0 .. n) \ T
           R == OpToRel(<, Nat)
<1> SUFFICES ASSUME U # {}
             PROVE  FALSE
    OBVIOUS
<1>1. U \subseteq Nat
    OBVIOUS
<1>2. \E m \in U : \A j \in U : ~(<<j, m>> \in R)
    <2> HIDE DEF U, R
    <2>1. IsWellFoundedOn(R, Nat)
        BY NatLessThanWellFounded DEF R
    <2>2. \E m : m \in U
        OBVIOUS
    <2> QED
        BY <1>1, <2>1, <2>2, WFMin
<1>3. PICK m \in U : \A j \in U : ~(<<j, m>> \in R)
    BY <1>2
<1>4. \A j \in U : ~(j < m)
    BY <1>1, <1>3 DEF OpToRel
<1> HIDE DEF R
<1>5. m # 0 /\ m - 1 \in 0 .. n - 1
    BY <1>3
<1>6. m - 1 \in T
    BY <1>4, <1>5
<1>7. m - 1 + 1 \in T
    BY <1>5, <1>6
<1> QED
    BY <1>3, <1>7

\* f runs through n steps within S, from z on.
Runs(f, n, S, z, step) ==
    /\ f \in [0 .. n -> S]
    /\ f[0] = z
    /\ \A i \in 1 .. n : f[i] = step[i][f[i - 1]]

\* A recursion of n steps within a set has a function.
LEMMA Recursion ==
    ASSUME NEW n \in Nat, NEW S, NEW z \in S, NEW step \in [1 .. n -> [S -> S]]
    PROVE  \E f : Runs(f, n, S, z, step)
<1> DEFINE Upto(f, k) == /\ f \in [0 .. k -> S]
                         /\ f[0] = z
                         /\ \A i \in 1 .. k : f[i] = step[i][f[i - 1]]
           T == { k \in Nat : \E f : Upto(f, k) }
<1>1. 0 \in T
    <2>1. Upto([i \in 0 .. 0 |-> z], 0)
        OBVIOUS
    <2> QED
        BY <2>1
<1>2. ASSUME NEW k \in 0 .. n - 1, k \in T
      PROVE  k + 1 \in T
    <2>1. PICK f : Upto(f, k)
        BY <1>2
    <2> DEFINE g == [i \in 0 .. k + 1 |-> IF i = k + 1 THEN step[i][f[k]] ELSE f[i]]
    <2>2. k + 1 \in 1 .. n /\ k \in Nat
        OBVIOUS
    <2>3. \A i \in 0 .. k : f[i] \in S
        BY <2>1
    <2>4. step[k + 1][f[k]] \in S
        BY <2>2, <2>3
    <2>5. g \in [0 .. k + 1 -> S]
        BY <2>2, <2>3, <2>4
    <2>6. g[0] = z
        BY <2>1, <2>2
    <2>7. \A i \in 1 .. k + 1 : g[i] = step[i][g[i - 1]]
        BY <2>1, <2>2
    <2> HIDE DEF g
    <2>8. Upto(g, k + 1)
        BY <2>5, <2>6, <2>7
    <2> HIDE DEF Upto
    <2> QED
        BY <2>2, <2>8
<1>3. n \in T
    <2> HIDE DEF T
    <2>1. 0 .. n \subseteq T
        BY <1>1, <1>2, Upwards
    <2> QED
        BY <2>1
<1> QED
    BY <1>3 DEF Runs
=============================================================================
