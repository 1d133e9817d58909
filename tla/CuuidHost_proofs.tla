-------------------------- MODULE CuuidHost_proofs --------------------------
(***************************************************************************)
(* What the processes of a host can and cannot do to each other's ids, for *)
(* any number of processes, calls and restarts, any mint and any widths.   *)
(***************************************************************************)
EXTENDS CuuidHost, CuuidFields_proofs, FiniteSetTheorems

\* What Append does to a sequence, and to nothing else.
LEMMA AppendFacts ==
    ASSUME NEW S, NEW q \in Seq(S), NEW e \in S
    PROVE  /\ Append(q, e) \in Seq(S)
           /\ Len(q) \in Nat
           /\ Len(Append(q, e)) = Len(q) + 1
           /\ \A i \in 1 .. Len(q) : Append(q, e)[i] = q[i]
           /\ Append(q, e)[Len(q) + 1] = e
PROOF OBVIOUS

\* The elements of a sequence over a set are in the set.
LEMMA ElementType ==
    ASSUME NEW S, NEW q \in Seq(S)
    PROVE  Len(q) \in Nat /\ \A i \in 1 .. Len(q) : q[i] \in S
PROOF OBVIOUS

-----------------------------------------------------------------------------
(* One call.                                                               *)

\* Both sources give a time past their last, and only they go past what is asked.
LEMMA ClaimFacts ==
    ASSUME NEW asked \in Nat, NEW last \in Nat
    PROVE  /\ Claim(asked, last) \in Nat
           /\ last < Claim(asked, last)
           /\ asked <= Claim(asked, last)
           /\ Claim(asked, last) = asked \/ Claim(asked, last) = last + 1
BY DEF Claim

\* Masking a stamp to the field does not make it greater.
LEMMA MaskLess ==
    ASSUME NEW n \in Nat
    PROVE  n % TIME_SIZE \in Nat /\ n % TIME_SIZE <= n
<1> DEFINE q == n \div TIME_SIZE
           r == n % TIME_SIZE
<1>1. q \in Int /\ r \in Nat /\ r < TIME_SIZE /\ n = TIME_SIZE * q + r
    BY TimeSize, DivMod
<1>2. TIME_SIZE \in Nat \ {0}
    BY TimeSize
<1> HIDE DEF q, r
<1>3. q \in Nat
    BY <1>1, <1>2
<1>4. TIME_SIZE * q \in Nat
    BY <1>2, <1>3
<1> QED
    BY <1>1, <1>4 DEF r

\* What is condensed for a call is the compact content of the fields it claimed, or
\* these fields under a node no reader would rebuild.
LEMMA WireOfCall ==
    ASSUME NEW codec \in Codecs, NEW f \in [time : Nat, clock : Clocks, node : {Node}]
    PROVE  /\ Condense(codec, Crush(codec, f)) = CompactOf(f, SaltOf(Node))
           /\ Condense(codec, f) = Expanded(Rebase(f.time), f.clock, Node)
           /\ CompactOf(f, SaltOf(Node)) \in Contents
           /\ Expanded(Rebase(f.time), f.clock, Node) \in Contents
<1>1. /\ f.time \in Nat /\ f.clock \in Clocks /\ f.node = Node
      /\ Node \in Nodes /\ ~Node.mc
    BY HostAssumption
<1>2. Condense(codec, Crush(codec, f)) = CompactOf(f, SaltOf(Node))
    BY <1>1, CrushedRoundTrips
<1>3. CompactOf(f, SaltOf(Node)) \in Contents
    BY <1>1, SaltOfType, CompactOfType
<1>4. Node # CalculateNode(codec, CompactOf(f, Node.salt))
    BY <1>1 DEF CalculateNode, MulticastOnly
<1>5. Condense(codec, f) = Expanded(Rebase(f.time), f.clock, Node)
    BY <1>1, <1>4 DEF Condense
<1>6. Expanded(Rebase(f.time), f.clock, Node) \in Contents
    BY <1>1, RebaseType DEF Expanded, Contents
<1> QED
    BY <1>2, <1>3, <1>5, <1>6

\* What a call does: it appends an id e of its process and life, with a mint that
\* was never given, and leaves statics g.
Called(p, e, g) ==
    LET s == statics[p] IN
    /\ e.process = p /\ e.life = life[p] /\ life' = life
    /\ issued' = Append(issued, e)
    /\ e.mint \notin minted
    /\ minted' = minted \cup {e.mint}
    /\ statics' = [statics EXCEPT ![p] = g]
    /\ g.clock_seq = e.seq
    /\ s.clock_seq \in Clocks => e.seq = s.clock_seq
    /\ s.last < g.last
    /\ g.last = e.mint.time \/ (g.last = s.last + 1 /\ s.last # 0)
    /\ e.codec = "v1" => e.claim = g.last /\ g.last6 = s.last6
    /\ e.codec = "v6" =>
        /\ e.claim = g.last6 /\ s.last6 < g.last6
        /\ g.last6 <= g.last \/ (g.last6 = s.last6 + 1 /\ s.last6 # 0)
    /\ Written(e)

\* Every call does that.
LEMMA GenerateIsCalled ==
    ASSUME TypeOK, NEW p \in Processes, Generate(p)
    PROVE  \E e \in Ids,
              g \in [last : Nat, clock_seq : Clocks, last6 : Nat] : Called(p, e, g)
<1> DEFINE s == statics[p]
<1>1. PICK m \in Mints, r \in Requests :
          LET stamp == Claim(m.time, s.last)
              seq == Pinned(s, m)
              claim == IF r.codec = "v6" THEN Claim(stamp % TIME_SIZE, s.last6) ELSE stamp
              f == [time  |-> IF r.codec = "v6" THEN claim ELSE stamp % TIME_SIZE,
                    clock |-> seq, node |-> Node]
              crushed == r.codec = "v6" \/ r.compact
              id == IF crushed THEN Crush(r.codec, f) ELSE f
          IN  /\ CanMint(m)
              /\ minted' = minted \cup {m}
              /\ statics' = [statics EXCEPT ![p] =
                      [last |-> stamp, clock_seq |-> seq,
                       last6 |-> IF r.codec = "v6" THEN claim ELSE s.last6]]
              /\ issued' = Append(issued,
                      [process |-> p, life |-> life[p], codec |-> r.codec,
                       crushed |-> crushed, mint |-> m, claim |-> claim, seq |-> seq,
                       wire |-> Condense(r.codec, id)])
    BY DEF Generate
<1> DEFINE stamp == Claim(m.time, s.last)
           seq == Pinned(s, m)
           masked == stamp % TIME_SIZE
           claim == IF r.codec = "v6" THEN Claim(masked, s.last6) ELSE stamp
           f == [time  |-> IF r.codec = "v6" THEN claim ELSE masked,
                 clock |-> seq, node |-> Node]
           crushed == r.codec = "v6" \/ r.compact
           id == IF crushed THEN Crush(r.codec, f) ELSE f
           g == [last |-> stamp, clock_seq |-> seq,
                 last6 |-> IF r.codec = "v6" THEN claim ELSE s.last6]
           e == [process |-> p, life |-> life[p], codec |-> r.codec,
                 crushed |-> crushed, mint |-> m, claim |-> claim, seq |-> seq,
                 wire |-> Condense(r.codec, id)]
<1>2. /\ r.codec \in Codecs /\ r.compact \in BOOLEAN
      /\ m.time \in Nat /\ m.time # 0 /\ m.clock \in Clocks
    BY HostAssumption DEF Times
<1>3. /\ s.last \in Nat /\ s.last6 \in Nat /\ s.clock_seq \in Clocks \cup {-1}
      /\ life[p] \in Nat
    BY DEF TypeOK
<1>4. /\ seq \in Clocks
      /\ s.clock_seq \in Clocks => seq = s.clock_seq
    BY <1>2, <1>3 DEF Pinned, Clocks
<1>5. /\ stamp \in Nat /\ s.last < stamp
      /\ stamp = m.time \/ (stamp = s.last + 1 /\ s.last # 0)
    BY <1>2, <1>3 DEF Claim
<1>6. masked \in Nat /\ masked <= stamp
    BY <1>5, MaskLess
<1>7. r.codec = "v6" =>
        /\ claim \in Nat /\ s.last6 < claim
        /\ claim <= stamp \/ (claim = s.last6 + 1 /\ s.last6 # 0)
    <2>1. /\ Claim(masked, s.last6) \in Nat
          /\ s.last6 < Claim(masked, s.last6)
          /\ Claim(masked, s.last6) = masked \/ Claim(masked, s.last6) = s.last6 + 1
        BY <1>3, <1>6, ClaimFacts
    <2>2. 1 <= stamp
        BY <1>3, <1>5
    <2> HIDE DEF masked, stamp
    <2> QED
        BY <2>1, <2>2, <1>3, <1>5, <1>6
<1>8. /\ r.codec = "v1" => claim = stamp
      /\ claim \in Nat /\ claim > 0
    BY <1>2, <1>3, <1>5, <1>7 DEF Codecs
<1>9. f \in [time : Nat, clock : Clocks, node : {Node}]
    BY <1>4, <1>6, <1>8
<1>10. /\ Condense(r.codec, id) =
              IF crushed THEN CompactOf(f, SaltOf(Node))
              ELSE Expanded(Rebase(f.time), f.clock, Node)
       /\ Condense(r.codec, id) \in Contents
    <2> HIDE DEF f, crushed
    <2> QED
        BY <1>2, <1>9, WireOfCall
<1>11. e \in Ids
    <2> HIDE DEF id, claim, seq
    <2> QED
        BY <1>2, <1>3, <1>4, <1>8, <1>10 DEF Ids
<1>12. g \in [last : Nat, clock_seq : Clocks, last6 : Nat]
    <2> HIDE DEF stamp, claim, seq
    <2> QED
        BY <1>3, <1>4, <1>5, <1>8
<1>13. Written(e)
    <2>1. ClaimedFields(e) = f
        <3> HIDE DEF id, seq, stamp
        <3> QED
            BY <1>2, <1>8 DEF ClaimedFields, Codecs
    <2> HIDE DEF f, id, claim, seq
    <2>2. e.wire = IF crushed THEN CompactOf(f, SaltOf(Node))
                   ELSE Expanded(Rebase(f.time), f.clock, Node)
        BY <1>10
    <2>3. f.clock = seq
        BY DEF f
    <2> QED
        BY <1>8, <2>1, <2>2, <2>3 DEF Written
<1>14. /\ CanMint(m)
       /\ minted' = minted \cup {m}
       /\ statics' = [statics EXCEPT ![p] = g]
       /\ issued' = Append(issued, e)
    BY <1>1
<1>15. life' = life
    BY DEF Generate
<1>16. Called(p, e, g)
    <2> HIDE DEF stamp, claim, seq, id, s
    <2> QED
        BY <1>2, <1>4, <1>5, <1>7, <1>8, <1>13, <1>14, <1>15
           DEF Called, CanMint, Codecs, s
<1> QED
    BY <1>11, <1>12, <1>16
-----------------------------------------------------------------------------
(* The invariant.                                                          *)

\* The calls of a life are counted by a finite set.
LEMMA OwnCount ==
    ASSUME TypeOK, NEW p
    PROVE  /\ Own(p) \subseteq Indices
           /\ IsFiniteSet(Own(p)) /\ Cardinality(Own(p)) \in Nat
           /\ Len(issued) \in Nat
<1>1. Len(issued) \in Nat
    BY ElementType DEF TypeOK
<1>2. IsFiniteSet(Indices)
    BY <1>1, FS_Interval DEF Indices
<1>3. Own(p) \subseteq Indices
    BY DEF Own
<1> QED
    BY <1>1, <1>2, <1>3, FS_Subset, FS_CardinalityType

\* What a call adds to the history and to the calls of its life, and that it leaves
\* the rest of both alone.
LEMMA HistoryStep ==
    ASSUME HostInv, NEW p \in Processes, NEW e \in Ids, NEW g, Called(p, e, g)
    PROVE  LET n == Len(issued) + 1 IN
           /\ n \in Nat \ {0} /\ n \notin Indices
           /\ Indices' = Indices \cup {n}
           /\ \A i \in Indices : i < n /\ issued'[i] = issued[i]
           /\ issued'[n] = e
           /\ issued' \in Seq(Ids)
           /\ Own(p)' = Own(p) \cup {n}
           /\ Cardinality(Own(p)') = Cardinality(Own(p)) + 1
           /\ \A q \in Processes \ {p} : Own(q)' = Own(q)
           /\ \A i \in Indices : CallsTo(i)' = CallsTo(i)
           /\ \A i \in Nat : i = n => CallsTo(i)' = Own(p)'
<1> DEFINE n == Len(issued) + 1
<1>1. /\ issued \in Seq(Ids) /\ issued' = Append(issued, e)
      /\ life' = life /\ e.process = p /\ e.life = life[p]
      /\ TypeOK
    BY DEF HostInv, TypeOK, Called
<1>2. /\ Len(issued) \in Nat /\ Len(issued') = n
      /\ issued' \in Seq(Ids)
      /\ \A i \in 1 .. Len(issued) : issued'[i] = issued[i]
      /\ issued'[n] = e
    BY <1>1, AppendFacts
<1>3. /\ n \in Nat \ {0} /\ n \notin Indices
      /\ Indices' = Indices \cup {n}
      /\ \A i \in Indices : i < n /\ issued'[i] = issued[i] /\ i \in Nat
    BY <1>2 DEF Indices
<1>4. Own(p)' = Own(p) \cup {n}
    BY <1>1, <1>2, <1>3 DEF Own
<1>5. Cardinality(Own(p)') = Cardinality(Own(p)) + 1
    <2>1. IsFiniteSet(Own(p)) /\ n \notin Own(p)
        BY <1>1, <1>3, OwnCount DEF Own
    <2> QED
        BY <2>1, <1>4, FS_AddElement
<1>6. ASSUME NEW q \in Processes \ {p}
      PROVE  Own(q)' = Own(q)
    <2>1. ASSUME NEW i \in Indices
          PROVE  i \in Own(q)' <=> i \in Own(q)
        BY <1>1, <1>3, <2>1 DEF Own
    <2>2. n \notin Own(q)' /\ Own(q)' \subseteq Indices' /\ Own(q) \subseteq Indices
        BY <1>1, <1>2 DEF Own
    <2> HIDE DEF n
    <2> QED
        BY <2>1, <2>2, <1>3
<1>7. ASSUME NEW i \in Indices
      PROVE  CallsTo(i)' = CallsTo(i)
    <2>1. \A j \in 1 .. i : j \in Indices
        BY <1>2 DEF Indices
    <2>2. \A j \in 1 .. i : issued'[j] = issued[j]
        BY <2>1, <1>3
    <2>3. issued'[i] = issued[i]
        BY <1>3
    <2> QED
        BY <2>2, <2>3 DEF CallsTo
<1>8. ASSUME NEW i \in Nat, i = n
      PROVE  CallsTo(i)' = Own(p)'
    <2>1. 1 .. i = Indices' /\ issued'[i] = e
        BY <1>2, <1>8 DEF Indices
    <2> HIDE DEF n
    <2> QED
        BY <2>1, <1>1 DEF CallsTo, Own, SameLife
<1> QED
    BY <1>2, <1>3, <1>4, <1>5, <1>6, <1>7, <1>8

\* A call keeps the invariant.
LEMMA CalledStep ==
    ASSUME HostInv, NEW p \in Processes, NEW e \in Ids,
           NEW g \in [last : Nat, clock_seq : Clocks, last6 : Nat], Called(p, e, g)
    PROVE  HostInv'
<1> DEFINE n == Len(issued) + 1
           s == statics[p]
<1>1. /\ n \in Nat \ {0} /\ n \notin Indices
      /\ Indices' = Indices \cup {n}
      /\ \A i \in Indices : i < n /\ issued'[i] = issued[i]
      /\ issued'[n] = e
      /\ issued' \in Seq(Ids)
      /\ Own(p)' = Own(p) \cup {n}
      /\ Cardinality(Own(p)') = Cardinality(Own(p)) + 1
      /\ \A q \in Processes \ {p} : Own(q)' = Own(q)
      /\ \A i \in Indices : CallsTo(i)' = CallsTo(i)
      /\ \A i \in Nat : i = n => CallsTo(i)' = Own(p)'
    BY HistoryStep
<1>2. /\ e.process = p /\ e.life = life[p] /\ life' = life
      /\ e.mint \notin minted /\ minted' = minted \cup {e.mint}
      /\ e.seq = g.clock_seq
      /\ s.last < g.last /\ s.last6 <= g.last6
      /\ g.last = e.mint.time \/ (g.last = s.last + 1 /\ s.last # 0)
      /\ e.codec = "v1" => e.claim = g.last /\ g.last6 = s.last6
      /\ e.codec = "v6" =>
            /\ e.claim = g.last6 /\ s.last6 < g.last6
            /\ g.last6 <= g.last \/ (g.last6 = s.last6 + 1 /\ s.last6 # 0)
      /\ Written(e)
      /\ e.codec \in Codecs
    BY DEF Called, Ids, Codecs, HostInv, TypeOK
<1>3. /\ statics' = [statics EXCEPT ![p] = g]
      /\ statics'[p] = g
      /\ \A q \in Processes \ {p} : statics'[q] = statics[q]
      /\ statics \in [Processes -> [last : Nat, clock_seq : Clocks \cup {-1}, last6 : Nat]]
      /\ s \in [last : Nat, clock_seq : Clocks \cup {-1}, last6 : Nat]
    BY DEF Called, HostInv, TypeOK
<1>4. \A i \in Indices : issued[i] \in Ids /\ i \in Nat
    BY ElementType DEF HostInv, TypeOK, Indices
<1> HIDE DEF n, s
<1>5. TypeOK'
    <2>1. g \in [last : Nat, clock_seq : Clocks \cup {-1}, last6 : Nat]
        OBVIOUS
    <2>2. statics' \in [Processes -> [last : Nat, clock_seq : Clocks \cup {-1}, last6 : Nat]]
        BY <1>3, <2>1
    <2>3. minted' \subseteq Mints
        BY <1>2 DEF HostInv, TypeOK, Ids
    <2> QED
        BY <1>1, <1>2, <2>2, <2>3 DEF HostInv, TypeOK
<1>6. WrittenInv'
    <2>1. \A i \in Indices' : Written(issued'[i])
        BY <1>1, <1>2 DEF HostInv, WrittenInv
    <2> QED
        BY <2>1 DEF WrittenInv, Written, ClaimedFields
<1>7. LifeInv'
    <2>1. life[p] \in Nat
        BY DEF HostInv, TypeOK
    <2> QED
        BY <1>1, <1>2, <2>1 DEF HostInv, LifeInv
<1>8. MintInv'
    BY <1>1, <1>2 DEF HostInv, MintInv
<1>9. \A j \in Own(p) : j \in Indices /\ issued[j].seq = g.clock_seq
    <2>1. \A j \in Own(p) : j \in Indices /\ issued[j].seq = s.clock_seq
        BY DEF HostInv, StaticsInv, Own, s
    <2>2. \A j \in Own(p) : s.clock_seq \in Clocks
        BY <2>1, <1>4 DEF Ids
    <2>3. s.clock_seq \in Clocks => g.clock_seq = s.clock_seq
        BY DEF Called, s
    <2> QED
        BY <2>1, <2>2, <2>3
<1>10. \A j \in Own(p) :
          /\ issued[j].codec = "v1" => issued[j].claim <= s.last
          /\ issued[j].codec = "v6" => issued[j].claim <= s.last6
          /\ issued[j].claim \in Nat
    BY <1>4, <1>9 DEF HostInv, StaticsInv, s, Ids
<1>11. StaticsInv'
    <2> SUFFICES ASSUME NEW q \in Processes, NEW j \in Own(q)'
                 PROVE  /\ issued'[j].seq = statics'[q].clock_seq
                        /\ issued'[j].codec = "v1" =>
                                issued'[j].claim <= statics'[q].last
                        /\ issued'[j].codec = "v6" =>
                                issued'[j].claim <= statics'[q].last6
        BY DEF StaticsInv
    <2>1. CASE q # p
        <3>1. j \in Own(q) /\ j \in Indices
            BY <1>1, <2>1 DEF Own
        <3> QED
            BY <3>1, <2>1, <1>1, <1>3 DEF HostInv, StaticsInv
    <2>2. CASE q = p /\ j = n
        BY <2>2, <1>1, <1>2, <1>3
    <2>3. CASE q = p /\ j \in Own(p)
        <3>1. issued'[j] = issued[j]
            BY <2>3, <1>1, <1>9
        <3> QED
            BY <3>1, <2>3, <1>2, <1>3, <1>9, <1>10
    <2> QED
        BY <1>1, <2>1, <2>2, <2>3
<1>12. Cardinality(Own(p)) \in Nat
    BY OwnCount DEF HostInv
<1>13. /\ e.mint.time \in Nat
       /\ \A i \in Indices : issued[i].mint.time \in Nat
    BY <1>4, HostAssumption DEF Ids, Times
<1>14. ASSUME NEW v \in {g.last, g.last6}, v # 0
       PROVE  \E j \in Own(p)' : v < issued'[j].mint.time + Cardinality(Own(p)')
    <2>1. ASSUME NEW w \in {s.last, s.last6}, w # 0
          PROVE  \E j \in Own(p)' : w + 1 < issued'[j].mint.time + Cardinality(Own(p)')
        <3>1. PICK j \in Own(p) : w < issued[j].mint.time + Cardinality(Own(p))
            BY <2>1 DEF HostInv, AheadInv, s
        <3>2. j \in Own(p)' /\ issued'[j] = issued[j] /\ issued[j].mint.time \in Nat
            BY <1>1, <1>9, <1>13
        <3>3. w + 1 < issued[j].mint.time + (Cardinality(Own(p)) + 1)
            BY <3>1, <3>2, <1>3, <1>12
        <3> QED
            BY <3>2, <3>3, <1>1
    <2>2. ASSUME g.last = e.mint.time
          PROVE  \E j \in Own(p)' : g.last < issued'[j].mint.time + Cardinality(Own(p)')
        <3>1. n \in Own(p)' /\ issued'[n] = e
            BY <1>1
        <3>2. g.last < e.mint.time + (Cardinality(Own(p)) + 1)
            BY <2>2, <1>12, <1>13
        <3> QED
            BY <3>1, <3>2, <1>1
    <2>3. ASSUME g.last # 0
          PROVE  \E j \in Own(p)' : g.last < issued'[j].mint.time + Cardinality(Own(p)')
        BY <2>1, <2>2, <1>2
    <2>4. CASE v = g.last
        BY <2>3, <2>4, <1>14
    <2>5. CASE v = g.last6 /\ v = s.last6
        <3>1. PICK j \in Own(p)' : s.last6 + 1 < issued'[j].mint.time + Cardinality(Own(p)')
            BY <2>1, <2>5, <1>14
        <3>2. issued'[j].mint.time \in Nat
            BY <1>1, <1>9, <1>13
        <3>3. s.last6 \in Nat /\ Cardinality(Own(p)') \in Nat
            BY <1>1, <1>3, <1>12
        <3>4. v < issued'[j].mint.time + Cardinality(Own(p)')
            BY <3>1, <3>2, <3>3, <2>5
        <3> QED
            BY <3>4
    <2>6. CASE v = g.last6 /\ v # s.last6 /\ g.last6 = s.last6 + 1 /\ s.last6 # 0
        BY <2>1, <2>6
    <2>7. CASE v = g.last6 /\ g.last6 <= g.last
        <3>1. g.last # 0
            BY <2>7, <1>14
        <3>2. PICK j \in Own(p)' : g.last < issued'[j].mint.time + Cardinality(Own(p)')
            BY <2>3, <3>1
        <3>3. issued'[j].mint.time \in Nat
            BY <1>1, <1>9, <1>13
        <3> QED
            BY <3>2, <3>3, <2>7, <1>1, <1>12
    <2> QED
        BY <2>4, <2>5, <2>6, <2>7, <1>2 DEF Codecs
<1>15. AheadInv'
    <2> SUFFICES ASSUME NEW q \in Processes,
                        NEW v \in {statics'[q].last, statics'[q].last6}, v # 0
                 PROVE  \E j \in Own(q)' :
                            v < issued'[j].mint.time + Cardinality(Own(q)')
        BY DEF AheadInv
    <2>1. CASE q = p
        BY <2>1, <1>3, <1>14
    <2>2. CASE q # p
        <3>1. PICK j \in Own(q) : v < issued[j].mint.time + Cardinality(Own(q))
            BY <2>2, <1>3 DEF HostInv, AheadInv
        <3>2. j \in Indices
            BY DEF Own
        <3> QED
            BY <3>1, <3>2, <2>2, <1>1
    <2> QED
        BY <2>1, <2>2
<1>16. LifeOrdered'
    <2> SUFFICES ASSUME NEW i \in Indices', NEW j \in Indices',
                        i < j, SameLife(issued'[i], issued'[j])
                 PROVE  /\ issued'[i].seq = issued'[j].seq
                        /\ issued'[i].codec = issued'[j].codec =>
                                issued'[i].claim < issued'[j].claim
        BY DEF LifeOrdered, SameLife
    <2>1. CASE j \in Indices
        <3>1. i \in Indices
            BY <2>1, <1>1, <1>4
        <3> QED
            BY <2>1, <3>1, <1>1 DEF HostInv, LifeOrdered
    <2>2. CASE j = n
        <3>1. i \in Indices
            BY <2>2, <1>1
        <3>2. i \in Own(p) /\ issued'[i] = issued[i] /\ issued'[j] = e
            BY <2>2, <3>1, <1>1, <1>2 DEF Own, SameLife
        <3>3. issued[i].codec = e.codec => issued[i].claim < e.claim
            BY <3>2, <1>2, <1>3, <1>10 DEF Codecs
        <3> QED
            BY <3>2, <3>3, <1>2, <1>9
    <2> QED
        BY <1>1, <2>1, <2>2
<1>17. NeverFarAhead'
    <2> SUFFICES ASSUME NEW i \in Indices'
                 PROVE  \E j \in CallsTo(i)' :
                            issued'[i].claim
                                < issued'[j].mint.time + Cardinality(CallsTo(i)')
        BY DEF NeverFarAhead
    <2>1. CASE i \in Indices
        <3>1. PICK j \in CallsTo(i) :
                  issued[i].claim < issued[j].mint.time + Cardinality(CallsTo(i))
            BY <2>1 DEF HostInv, NeverFarAhead
        <3>2. j \in Indices
            <4>1. Len(issued) \in Nat /\ i \in 1 .. Len(issued)
                BY <2>1, OwnCount DEF HostInv, Indices
            <4> QED
                BY <4>1 DEF CallsTo, Indices
        <3> QED
            BY <2>1, <3>1, <3>2, <1>1
    <2>2. CASE i = n
        <3>1. e.claim \in {g.last, g.last6} /\ e.claim # 0
            BY <1>2 DEF Codecs, Written
        <3>2. \E j \in Own(p)' : e.claim < issued'[j].mint.time + Cardinality(Own(p)')
            BY <3>1, <1>14
        <3> QED
            BY <3>2, <2>2, <1>1
    <2> QED
        BY <1>1, <2>1, <2>2
<1> QED
    BY <1>5, <1>6, <1>7, <1>8, <1>11, <1>15, <1>16, <1>17 DEF HostInv
\* So does a restart: the new life has no calls, and statics that gave no time.
LEMMA RestartStep ==
    ASSUME HostInv, NEW p \in Processes, Restart(p)
    PROVE  HostInv'
<1>1. /\ life' = [life EXCEPT ![p] = @ + 1]
      /\ statics' = [statics EXCEPT ![p] = Fresh]
      /\ minted' = minted /\ issued' = issued
    BY DEF Restart
<1>2. /\ life \in [Processes -> Nat]
      /\ statics \in [Processes -> [last : Nat, clock_seq : Clocks \cup {-1}, last6 : Nat]]
      /\ TypeOK
    BY DEF HostInv, TypeOK
<1>3. \A i \in Indices : issued[i] \in Ids
    BY <1>2, ElementType DEF TypeOK, Indices
<1>4. TypeOK'
    <2>1. Fresh \in [last : Nat, clock_seq : Clocks \cup {-1}, last6 : Nat]
        BY DEF Fresh
    <2> QED
        BY <2>1, <1>1, <1>2 DEF TypeOK
<1>5. WrittenInv' /\ MintInv' /\ LifeOrdered' /\ NeverFarAhead'
    BY <1>1 DEF HostInv, WrittenInv, Written, ClaimedFields, MintInv, LifeOrdered,
                NeverFarAhead, CallsTo, SameLife, Indices
<1>6. LifeInv'
    <2> SUFFICES ASSUME NEW i \in Indices
                 PROVE  issued[i].life <= life'[issued[i].process]
        BY <1>1 DEF LifeInv, Indices
    <2>1. issued[i].process \in Processes /\ issued[i].life \in Nat
        BY <1>3 DEF Ids
    <2>2. issued[i].life <= life[issued[i].process]
        BY DEF HostInv, LifeInv
    <2> QED
        BY <2>1, <2>2, <1>1, <1>2
<1>7. Own(p)' = {}
    <2>1. ASSUME NEW i \in Indices, issued[i].process = p
          PROVE  issued[i].life # life'[p]
        <3>1. issued[i].life \in Nat /\ issued[i].life <= life[p]
            BY <2>1, <1>3 DEF HostInv, LifeInv, Ids
        <3> QED
            BY <3>1, <1>1, <1>2
    <2> QED
        BY <2>1, <1>1 DEF Own, Indices
<1>8. \A q \in Processes \ {p} : Own(q)' = Own(q) /\ statics'[q] = statics[q]
    BY <1>1, <1>2 DEF Own, Indices
<1>9. statics'[p] = Fresh
    BY <1>1, <1>2
<1>10. StaticsInv'
    <2> SUFFICES ASSUME NEW q \in Processes, NEW j \in Own(q)'
                 PROVE  /\ issued[j].seq = statics'[q].clock_seq
                        /\ issued[j].codec = "v1" => issued[j].claim <= statics'[q].last
                        /\ issued[j].codec = "v6" => issued[j].claim <= statics'[q].last6
        BY <1>1 DEF StaticsInv
    <2>1. q # p
        BY <1>7
    <2> QED
        BY <2>1, <1>8 DEF HostInv, StaticsInv
<1>11. AheadInv'
    <2> SUFFICES ASSUME NEW q \in Processes,
                        NEW v \in {statics'[q].last, statics'[q].last6}, v # 0
                 PROVE  \E j \in Own(q)' :
                            v < issued[j].mint.time + Cardinality(Own(q)')
        BY <1>1 DEF AheadInv
    <2>1. q # p
        BY <1>9 DEF Fresh
    <2> QED
        BY <2>1, <1>8 DEF HostInv, AheadInv
<1> QED
    BY <1>4, <1>5, <1>6, <1>10, <1>11 DEF HostInv

\* Before the first call nothing is issued.
LEMMA HostInit == Init => HostInv
<1> SUFFICES ASSUME Init
             PROVE  HostInv
    OBVIOUS
<1>1. Len(issued) = 0 /\ Indices = {} /\ issued \in Seq(Ids)
    BY DEF Init, Indices
<1>2. TypeOK
    BY <1>1 DEF Init, TypeOK, Fresh
<1>3. WrittenInv /\ LifeInv /\ MintInv /\ LifeOrdered /\ NeverFarAhead
    BY <1>1 DEF WrittenInv, LifeInv, MintInv, LifeOrdered, NeverFarAhead
<1>4. StaticsInv
    BY <1>1 DEF StaticsInv, Own
<1>5. AheadInv
    BY DEF AheadInv, Init, Fresh
<1> QED
    BY <1>2, <1>3, <1>4, <1>5 DEF HostInv

\* The invariant holds of every host.
THEOREM HostInvariant == Spec => []HostInv
<1>1. ASSUME HostInv, [Next]_vars
      PROVE  HostInv'
    <2>1. ASSUME NEW p \in Processes, Generate(p)
          PROVE  HostInv'
        <3>1. TypeOK
            BY <1>1 DEF HostInv
        <3>2. PICK e \in Ids, g \in [last : Nat, clock_seq : Clocks, last6 : Nat] :
                  Called(p, e, g)
            BY <2>1, <3>1, GenerateIsCalled
        <3> QED
            BY <1>1, <3>2, CalledStep
    <2>2. ASSUME NEW p \in Processes, Restart(p)
          PROVE  HostInv'
        BY <1>1, <2>2, RestartStep
    <2>3. CASE UNCHANGED vars
        <3>1. UNCHANGED statics /\ UNCHANGED life /\ UNCHANGED minted /\ UNCHANGED issued
            BY <2>3 DEF vars
        <3>2. TypeOK' /\ WrittenInv' /\ LifeInv' /\ MintInv'
            BY <1>1, <3>1 DEF HostInv, TypeOK, WrittenInv, Written, ClaimedFields,
                              LifeInv, MintInv, Indices
        <3>3. LifeOrdered' /\ NeverFarAhead'
            BY <1>1, <3>1 DEF HostInv, LifeOrdered, NeverFarAhead, CallsTo, SameLife,
                              Indices
        <3>4. \A p : Own(p)' = Own(p)
            BY <3>1 DEF Own, Indices
        <3>5. StaticsInv'
            BY <1>1, <3>1, <3>4 DEF HostInv, StaticsInv
        <3>6. AheadInv'
            BY <1>1, <3>1, <3>4 DEF HostInv, AheadInv
        <3> QED
            BY <3>2, <3>3, <3>5, <3>6 DEF HostInv
    <2> QED
        BY <1>1, <2>1, <2>2, <2>3 DEF Next
<1> QED
    BY <1>1, HostInit, PTL DEF Spec

\* A process runs ahead of its newest mint by at most its calls, for any number of
\* processes and restarts, any clock and any mix of the two codecs.
THEOREM NeverFarAheadHolds == Spec => []NeverFarAhead
<1>1. HostInv => NeverFarAhead
    BY DEF HostInv
<1> QED
    BY <1>1, HostInvariant, PTL

-----------------------------------------------------------------------------
(* Duplicates.                                                             *)

\* Two claims in range are condensed as two times of which neither is 0, within the
\* range of the field, and equal only if the claims are.
LEMMA ClaimsInField ==
    ASSUME NEW a \in Ids, NEW b \in Ids, a.claim > 0, b.claim > 0,
           a.codec = b.codec, InRange(a, b)
    PROVE  LET x == ClaimedFields(a).time
               y == ClaimedFields(b).time
           IN  /\ x \in Nat \ {0} /\ y \in Nat \ {0}
               /\ x < y + TIME_SIZE /\ y < x + TIME_SIZE
               /\ x = y => a.claim = b.claim
<1>1. /\ a.claim \in Nat /\ b.claim \in Nat /\ a.codec \in Codecs
      /\ a.claim < b.claim + TIME_SIZE /\ b.claim < a.claim + TIME_SIZE
      /\ a.codec = "v1" => a.claim % TIME_SIZE # 0 /\ b.claim % TIME_SIZE # 0
      /\ TIME_SIZE \in Nat \ {0}
    BY TimeSize DEF Ids, InRange
<1>2. CASE a.codec = "v6"
    BY <1>1, <1>2 DEF ClaimedFields
<1>3. CASE a.codec = "v1"
    <2> DEFINE x == a.claim % TIME_SIZE
               y == b.claim % TIME_SIZE
    <2>1. ClaimedFields(a).time = x /\ ClaimedFields(b).time = y
        BY <1>3 DEF ClaimedFields
    <2>2. x \in Times /\ y \in Times /\ x # 0 /\ y # 0
        BY <1>1, <1>3, MaskType
    <2>3. x = y => a.claim = b.claim
        BY <1>1, ModApart
    <2> HIDE DEF x, y
    <2>4. /\ x \in Nat \ {0} /\ y \in Nat \ {0}
          /\ x < y + TIME_SIZE /\ y < x + TIME_SIZE
        BY <2>2, <1>1 DEF Times
    <2> QED
        BY <2>1, <2>3, <2>4
<1> QED
    BY <1>1, <1>2, <1>3 DEF Codecs

\* Two ids of one codec, both with the clock sequence they have in common or not
\* both crushed, have one wire only if they claim one time and carry one sequence.
LEMMA WireTells ==
    ASSUME NEW a \in Ids, NEW b \in Ids, Written(a), Written(b),
           a.codec = b.codec, InRange(a, b), a.wire = b.wire,
           ~(a.crushed /\ b.crushed /\ a.seq # b.seq)
    PROVE  a.claim = b.claim /\ a.seq = b.seq
<1> DEFINE f == ClaimedFields(a)
           g == ClaimedFields(b)
<1>1. /\ f.time \in Nat \ {0} /\ g.time \in Nat \ {0}
      /\ f.time < g.time + TIME_SIZE /\ g.time < f.time + TIME_SIZE
      /\ f.time = g.time => a.claim = b.claim
    BY ClaimsInField DEF Written
<1>2. f.clock = a.seq /\ g.clock = b.seq /\ a.seq \in Clocks
    BY DEF ClaimedFields, Ids
<1>3. /\ a.wire = IF a.crushed THEN CompactOf(f, SaltOf(Node))
                  ELSE Expanded(Rebase(f.time), a.seq, Node)
      /\ b.wire = IF b.crushed THEN CompactOf(g, SaltOf(Node))
                  ELSE Expanded(Rebase(g.time), b.seq, Node)
    BY DEF Written
<1> HIDE DEF f, g
<1>4. CASE a.crushed /\ b.crushed
    <2>1. CompactOf(f, SaltOf(Node)) = CompactOf(g, SaltOf(Node))
        BY <1>3, <1>4
    <2>2. f.clock \in Clocks /\ g.clock = f.clock
        BY <1>2, <1>4
    <2>3. f.time = g.time
        BY <2>1, <2>2, <1>1, CompactOfInjective
    <2> QED
        BY <2>3, <1>1, <1>4
<1>5. CASE ~a.crushed /\ ~b.crushed
    <2>1. Expanded(Rebase(f.time), a.seq, Node) = Expanded(Rebase(g.time), b.seq, Node)
        BY <1>3, <1>5
    <2>2. Rebase(f.time) = Rebase(g.time) /\ a.seq = b.seq
        BY <2>1 DEF Expanded
    <2> QED
        BY <2>2, <1>1, RebaseInjective
<1>6. CASE (a.crushed /\ ~b.crushed) \/ (~a.crushed /\ b.crushed)
    <2>1. CompactOf(f, SaltOf(Node)).compacted /\ CompactOf(g, SaltOf(Node)).compacted
        BY DEF CompactOf, Compact
    <2>2. /\ ~Expanded(Rebase(f.time), a.seq, Node).compacted
          /\ ~Expanded(Rebase(g.time), b.seq, Node).compacted
        BY DEF Expanded
    <2>3. CASE a.crushed /\ ~b.crushed
        BY <2>1, <2>2, <2>3, <1>3
    <2>4. CASE ~a.crushed /\ b.crushed
        BY <2>1, <2>2, <2>4, <1>3
    <2> QED
        BY <1>6, <2>3, <2>4
<1> QED
    BY <1>4, <1>5, <1>6

\* Whatever the processes of a host do, two of its ids have one wire only across
\* lives, and only if one was moved off its mint or the fold made two clock
\* sequences meet.
THEOREM DuplicatesNeedHolds == Spec => []DuplicatesNeed
<1>1. ASSUME HostInv
      PROVE  DuplicatesNeed
    <2> SUFFICES ASSUME NEW i \in Indices, NEW j \in Indices, i # j,
                        issued[i].codec = issued[j].codec,
                        InRange(issued[i], issued[j]),
                        issued[i].wire = issued[j].wire
                 PROVE  /\ ~SameLife(issued[i], issued[j])
                        /\ \/ Moved(issued[i]) \/ Moved(issued[j])
                           \/ /\ issued[i].crushed /\ issued[j].crushed
                              /\ issued[i].seq # issued[j].seq
        BY DEF DuplicatesNeed
    <2>1. /\ issued[i] \in Ids /\ issued[j] \in Ids
          /\ Written(issued[i]) /\ Written(issued[j])
          /\ i \in Nat /\ j \in Nat
        BY <1>1, ElementType DEF HostInv, TypeOK, WrittenInv, Indices
    <2> DEFINE met == /\ issued[i].crushed /\ issued[j].crushed
                      /\ issued[i].seq # issued[j].seq
    <2>2. ~met => issued[i].claim = issued[j].claim /\ issued[i].seq = issued[j].seq
        BY <2>1, WireTells
    <2>3. ~SameLife(issued[i], issued[j])
        <3> SUFFICES ASSUME SameLife(issued[i], issued[j])
                     PROVE  FALSE
            OBVIOUS
        <3>1. /\ issued[i].seq = issued[j].seq
              /\ issued[i].claim < issued[j].claim \/ issued[j].claim < issued[i].claim
            BY <1>1, <2>1 DEF HostInv, LifeOrdered, SameLife
        <3> QED
            BY <3>1, <2>1, <2>2 DEF Ids
    <2>4. Moved(issued[i]) \/ Moved(issued[j]) \/ met
        <3> SUFFICES ASSUME ~Moved(issued[i]), ~Moved(issued[j]), ~met
                     PROVE  FALSE
            OBVIOUS
        <3>1. /\ issued[i].mint.time = issued[j].mint.time
              /\ issued[i].mint.clock = issued[j].mint.clock
            BY <2>2 DEF Moved
        <3>2. issued[i].mint = issued[j].mint
            BY <3>1, <2>1, HostAssumption DEF Ids
        <3> QED
            BY <3>2, <1>1 DEF HostInv, MintInv
    <2> QED
        BY <2>3, <2>4
<1> QED
    BY <1>1, HostInvariant, PTL
=============================================================================
