------------------------- MODULE CuuidStream_proofs -------------------------
(***************************************************************************)
(* The bytes of a wire, for every payload: what the writer puts into the   *)
(* lead, that every reader finds its way back from there, and that wires   *)
(* of one length keep the order of their payloads.  Then whole lists.      *)
(***************************************************************************)
EXTENDS CuuidStream, NumberLemmas, SequenceTheorems, WellFoundedInduction, TLAPS

-----------------------------------------------------------------------------
(* The table.                                                              *)

\* The rows of the table, one by one.
LEMMA TableRows ==
    /\ VL[0] = Room(28, 4, 28, 4)
    /\ VL[1] = Room(24, 4, 24, 4)
    /\ VL[2] = Room(20, 4, 20, 4)
    /\ VL[3] = Room(16, 4, 16, 4)
    /\ VL[4] = Room(4, 4, 64, 64)
    /\ VL[5] = Room(10, 2, 160, 32)
    /\ VL[6] = Room(8, 2, 128, 32)
    /\ VL[7] = Room(2, 1, 32, 16)
    /\ VL[8] = Room(3, 1, 48, 16)
    /\ VL[9] = Room(12, 1, 192, 16)
    /\ VL[10] = Room(13, 1, 208, 16)
    /\ VL[11] = Room(14, 1, 224, 16)
    /\ VL[12] = Room(15, 1, 240, 16)
BY DEF VL, VLRows

\* A length has the leads of its short room and those of its long one.
LeadIn(n, lead, first, last, wide, end) ==
    Matches(n, lead) <=> lead \in first .. last \/ lead \in wide .. end

\* The leads that match an entry: no lead matches two.
LEMMA Leads ==
    ASSUME NEW lead \in Bytes
    PROVE  /\ LeadIn(0, lead, 28, 31, 28, 31)
           /\ LeadIn(1, lead, 24, 27, 24, 27)
           /\ LeadIn(2, lead, 20, 23, 20, 23)
           /\ LeadIn(3, lead, 16, 19, 16, 19)
           /\ LeadIn(4, lead, 4, 7, 64, 127)
           /\ LeadIn(5, lead, 10, 11, 160, 191)
           /\ LeadIn(6, lead, 8, 9, 128, 159)
           /\ LeadIn(7, lead, 2, 2, 32, 47)
           /\ LeadIn(8, lead, 3, 3, 48, 63)
           /\ LeadIn(9, lead, 12, 12, 192, 207)
           /\ LeadIn(10, lead, 13, 13, 208, 223)
           /\ LeadIn(11, lead, 14, 14, 224, 239)
           /\ LeadIn(12, lead, 15, 15, 240, 255)
<1> lead \in Int /\ 0 <= lead /\ lead <= 255
    BY DEF Bytes
<1> USE TableRows DEF LeadIn, Matches, Variant, Room
<1>0. LeadIn(0, lead, 28, 31, 28, 31)
    BY SMTT(60)
<1>1. LeadIn(1, lead, 24, 27, 24, 27)
    BY SMTT(60)
<1>2. LeadIn(2, lead, 20, 23, 20, 23)
    BY SMTT(60)
<1>3. LeadIn(3, lead, 16, 19, 16, 19)
    BY SMTT(60)
<1>4. LeadIn(4, lead, 4, 7, 64, 127)
    BY SMTT(60)
<1>5. LeadIn(5, lead, 10, 11, 160, 191)
    BY SMTT(60)
<1>6. LeadIn(6, lead, 8, 9, 128, 159)
    BY SMTT(60)
<1>7. LeadIn(7, lead, 2, 2, 32, 47)
    BY SMTT(60)
<1>8. LeadIn(8, lead, 3, 3, 48, 63)
    BY SMTT(60)
<1>9. LeadIn(9, lead, 12, 12, 192, 207)
    BY SMTT(60)
<1>10. LeadIn(10, lead, 13, 13, 208, 223)
    BY SMTT(60)
<1>11. LeadIn(11, lead, 14, 14, 224, 239)
    BY SMTT(60)
<1>12. LeadIn(12, lead, 15, 15, 240, 255)
    BY SMTT(60)
<1> HIDE DEF LeadIn, Matches, Variant, Room
<1> QED
    BY <1>0, <1>1, <1>2, <1>3, <1>4, <1>5, <1>6, <1>7, <1>8, <1>9, <1>10, <1>11, <1>12
\* The entries a lead can match.
Rows == 0 .. 12

\* The one entry a lead can match.
RowFor(lead) ==
    IF lead \in 28 .. 31 THEN 0 ELSE IF lead \in 24 .. 27 THEN 1
    ELSE IF lead \in 20 .. 23 THEN 2 ELSE IF lead \in 16 .. 19 THEN 3
    ELSE IF lead \in 4 .. 7 \cup 64 .. 127 THEN 4
    ELSE IF lead \in 10 .. 11 \cup 160 .. 191 THEN 5
    ELSE IF lead \in 8 .. 9 \cup 128 .. 159 THEN 6
    ELSE IF lead \in {2} \cup 32 .. 47 THEN 7
    ELSE IF lead \in {3} \cup 48 .. 63 THEN 8
    ELSE IF lead \in {12} \cup 192 .. 207 THEN 9
    ELSE IF lead \in {13} \cup 208 .. 223 THEN 10
    ELSE IF lead \in {14} \cup 224 .. 239 THEN 11 ELSE 12

\* A lead that matches an entry is found there, and is neither 0 nor the lead of the
\* full form.
LEMMA EntryFound ==
    ASSUME NEW lead \in Bytes, NEW n \in Rows, Matches(n, lead)
    PROVE  Known(lead) /\ EntryOf(lead) = n /\ lead \notin {0, FULL_LEAD}
<1>1. lead \in Int /\ n \in 0 .. 12
    BY DEF Bytes, Rows
<1>2. ASSUME NEW m \in Rows, Matches(m, lead)
      PROVE  m = RowFor(lead) /\ lead \notin {0, 1}
    <2>1. m \in 0 .. 12
        BY DEF Rows
    <2>2. CASE m \in 0 .. 3
        BY <1>1, <1>2, <2>2, Leads DEF LeadIn, RowFor
    <2>3. CASE m \in 4 .. 6
        BY <1>1, <1>2, <2>3, Leads DEF LeadIn, RowFor
    <2>4. CASE m \in 7 .. 9
        BY <1>1, <1>2, <2>4, Leads DEF LeadIn, RowFor
    <2>5. CASE m \in 10 .. 12
        BY <1>1, <1>2, <2>5, Leads DEF LeadIn, RowFor
    <2> QED
        BY <2>1, <2>2, <2>3, <2>4, <2>5
<1>3. \A m \in Rows : Matches(m, lead) => m = n
    BY <1>2
<1>4. lead \notin {0, 1}
    BY <1>2
<1>5. \A m \in 0 .. n - 1 : ~Matches(m, lead)
    BY <1>3 DEF Rows
<1>6. EntryOf(lead) = n
    BY <1>3, <1>5 DEF EntryOf, Rows
<1> QED
    BY <1>4, <1>6 DEF Known, FULL_LEAD, Rows

\* What the lead of an entry holds for the byte it is merged with.
LeadOf(n, b) ==
    IF b < VL[n].short.room THEN VL[n].short.tag + b ELSE VL[n].long.tag + b

\* The shape of a row: a tag is a multiple of its room, the leads of the short room
\* have no bit in their high half unless both rooms are one, those of the long room
\* have, and are bytes.
RowShape(row) ==
    /\ row.short.room \in Nat \ {0} /\ row.long.room \in Nat \ {0}
    /\ row.short.room <= row.long.room
    /\ \E q \in Nat : row.short.tag = row.short.room * q /\ row.long.tag = row.long.room * q
    /\ row.short.tag \in Nat /\ row.long.tag \in Nat
    /\ row.short.tag <= row.long.tag
    /\ row.short.tag + row.short.room <= 16 \/ row.short = row.long
    /\ row.long.tag >= 16
    /\ row.long.tag + row.long.room <= 256

\* Every row has that shape.
LEMMA RowShapes == \A n \in Rows : RowShape(VL[n])
<1> DEFINE Quotient == <<7, 6, 5, 4, 1, 5, 4, 2, 3, 12, 13, 14, 15>>
<1> SUFFICES ASSUME NEW n \in Rows
             PROVE  RowShape(VL[n])
    OBVIOUS
<1>1. n \in {0, 1, 2, 3, 4, 5, 6, 7, 8, 9, 10, 11, 12}
    BY DEF Rows
<1>2. /\ Quotient[n + 1] \in Nat
      /\ VL[n].short.tag = VL[n].short.room * Quotient[n + 1]
      /\ VL[n].long.tag = VL[n].long.room * Quotient[n + 1]
    BY <1>1, TableRows DEF Room
<1> HIDE DEF Quotient
<1>3. /\ VL[n].short.room \in Nat \ {0} /\ VL[n].long.room \in Nat \ {0}
      /\ VL[n].short.room <= VL[n].long.room
      /\ VL[n].short.tag \in Nat /\ VL[n].long.tag \in Nat
      /\ VL[n].short.tag <= VL[n].long.tag
    BY <1>1, TableRows DEF Room
<1>4. VL[n].short.tag + VL[n].short.room <= 16 \/ VL[n].short = VL[n].long
    BY <1>1, TableRows DEF Room
<1>5. VL[n].long.tag >= 16 /\ VL[n].long.tag + VL[n].long.room <= 256
    BY <1>1, TableRows DEF Room
<1> QED
    BY <1>2, <1>3, <1>4, <1>5 DEF RowShape

\* A number's remainder is the only one that rebuilds it.
LEMMA Remainder ==
    ASSUME NEW d \in Nat \ {0}, NEW q \in Nat, NEW r \in Nat, r < d
    PROVE  (d * q + r) % d = r
PROOF OBVIOUS

\* The rooms of an entry: a lead for each byte that fits, which the reader finds at
\* this entry and takes the byte from.
LEMMA LeadHolds ==
    ASSUME NEW n \in Rows, NEW b \in Nat, b < VL[n].long.room
    PROVE  /\ LeadOf(n, b) \in Bytes
           /\ Matches(n, LeadOf(n, b))
           /\ LeadOf(n, b) % Variant(n, LeadOf(n, b)).room = b
<1> DEFINE lead == LeadOf(n, b)
           row == IF b < VL[n].short.room THEN VL[n].short ELSE VL[n].long
<1>1. RowShape(VL[n])
    BY RowShapes
<1>2. lead = row.tag + b /\ b < row.room /\ row.room \in Nat \ {0} /\ row.tag \in Nat
    BY <1>1 DEF LeadOf, RowShape
<1>3. Variant(n, lead) = row
    BY <1>1 DEF LeadOf, RowShape, Variant
<1>4. lead \in Bytes
    <2>1. row.tag + row.room <= 256
        BY <1>1 DEF RowShape
    <2> HIDE DEF lead, row
    <2>2. row.room \in Nat /\ row.tag \in Nat /\ b < row.room
        BY <1>2
    <2>3. row.tag + b \in Nat /\ row.tag + b < 256
        BY <2>1, <2>2
    <2>4. row.tag + b \in 0 .. 255
        BY <2>3
    <2> QED
        BY <2>4, <1>2 DEF Bytes
<1>5. PICK q \in Nat : row.tag = row.room * q
    BY <1>1 DEF RowShape
<1> HIDE DEF lead, row
<1>6. lead % row.room = b
    BY <1>2, <1>5, Remainder
<1>7. lead - (lead % row.room) = row.tag
    BY <1>2, <1>6
<1> QED
    BY <1>3, <1>4, <1>6, <1>7 DEF Matches, lead

\* The leads of an entry grow with the byte.
LEMMA LeadGrows ==
    ASSUME NEW n \in Rows, NEW a \in Nat, NEW b \in Nat, a < b, b < VL[n].long.room
    PROVE  LeadOf(n, a) < LeadOf(n, b)
<1>1. RowShape(VL[n])
    BY RowShapes
<1> QED
    BY <1>1 DEF LeadOf, RowShape
-----------------------------------------------------------------------------
(* The wire of one payload.                                                *)

\* A function on the first 16 numbers is a sequence of 16.
LEMMA SixteenBytes ==
    ASSUME NEW w, w \in [1 .. 16 -> Bytes]
    PROVE  w \in Seq(Bytes) /\ Len(w) = 16
<1>1. w \in Seq(Bytes)
    BY SeqDef
<1> QED
    BY <1>1, LenProperties

\* A payload is a sequence of 16 bytes.
LEMMA PayloadSeq ==
    ASSUME NEW w, w \in [1 .. PAYLOAD -> Bytes]
    PROVE  w \in Seq(Bytes) /\ Len(w) = 16
<1>1. w \in [1 .. 16 -> Bytes]
    BY DEF PAYLOAD
<1> QED
    BY <1>1, SixteenBytes

\* The writer's loop stops at the first byte that is not zero, or at the last it
\* may drop.
LEMMA FirstKeptFacts ==
    ASSUME NEW w \in [1 .. PAYLOAD -> Bytes]
    PROVE  /\ FirstKept(w) \in 1 .. 13
           /\ \A j \in 1 .. FirstKept(w) - 1 : w[j] = 0
           /\ w[FirstKept(w)] # 0 \/ FirstKept(w) = 13
<1> DEFINE T == { i \in 1 .. 13 : w[i] # 0 \/ i = 13 }
           R == OpToRel(<, Nat)
<1>1. T \subseteq Nat /\ 13 \in T
    OBVIOUS
<1>2. \E i \in T : \A j \in T : ~(<<j, i>> \in R)
    <2> HIDE DEF T, R
    <2>1. IsWellFoundedOn(R, Nat)
        BY NatLessThanWellFounded DEF R
    <2> QED
        BY <1>1, <2>1, WFMin
<1>3. PICK i \in T : \A j \in T : ~(<<j, i>> \in R)
    BY <1>2
<1>4. \A j \in T : ~(j < i)
    BY <1>1, <1>3 DEF OpToRel
<1>5. /\ i \in 1 .. 13
      /\ \A j \in 1 .. i - 1 : w[j] = 0
      /\ w[i] # 0 \/ i = 13
    BY <1>4
<1> QED
    BY <1>5 DEF FirstKept, PAYLOAD, MIN_WIRE

\* f is b and then the bytes of w behind h.
Headed(f, b, w, h) ==
    /\ f \in Seq(Bytes)
    /\ Len(f) = 17 - h
    /\ f[1] = b
    /\ \A p \in 2 .. 17 - h : f[p] = w[p + h - 1]

\* A byte and the rest of a payload, byte by byte.
LEMMA HeadAndTail ==
    ASSUME NEW w \in [1 .. PAYLOAD -> Bytes], NEW h \in 1 .. 13, NEW b \in Bytes
    PROVE  Headed(<<b>> \o SubSeq(w, h + 1, PAYLOAD), b, w, h)
<1>1. w \in [1 .. 16 -> Bytes]
    BY DEF PAYLOAD
<1>2. \A j \in h + 1 .. 16 : w[j] \in Bytes
    <2> SUFFICES ASSUME NEW j \in h + 1 .. 16
                 PROVE  w[j] \in Bytes
        OBVIOUS
    <2>1. j \in 1 .. 16
        OBVIOUS
    <2> QED
        BY <1>1, <2>1
<1> DEFINE t == SubSeq(w, h + 1, 16)
<1>3. /\ t \in Seq(Bytes) /\ Len(t) = 16 - h
      /\ \A p \in 1 .. 16 - h : t[p] = w[h + p]
    <2>1. /\ t \in Seq(Bytes)
          /\ Len(t) = IF h + 1 <= 16 THEN 16 - (h + 1) + 1 ELSE 0
          /\ \A p \in 1 .. 16 - (h + 1) + 1 : t[p] = w[h + 1 + p - 1]
        BY <1>2, SubSeqProperties
    <2> HIDE DEF t
    <2> QED
        BY <2>1
<1> HIDE DEF t
<1> DEFINE f == <<b>> \o t
<1>4. /\ f \in Seq(Bytes) /\ Len(f) = 17 - h
      /\ f[1] = b
      /\ \A p \in 2 .. 17 - h : f[p] = t[p - 1]
    BY <1>3
<1>5. \A p \in 2 .. 17 - h : f[p] = w[p + h - 1]
    <2> SUFFICES ASSUME NEW p \in 2 .. 17 - h
                 PROVE  f[p] = w[p + h - 1]
        OBVIOUS
    <2>1. p - 1 \in 1 .. 16 - h /\ h + (p - 1) = p + h - 1
        OBVIOUS
    <2> QED
        BY <2>1, <1>3, <1>4
<1> QED
    BY <1>4, <1>5 DEF t, PAYLOAD, Headed

\* A byte of a payload is a number.
LEMMA ByteOf ==
    ASSUME NEW w \in [1 .. PAYLOAD -> Bytes], NEW i \in 1 .. 13
    PROVE  w[i] \in Nat /\ w[i] \in Bytes /\ 13 - i \in Rows
<1>1. i \in 1 .. PAYLOAD /\ 13 - i \in Rows
    BY DEF PAYLOAD, Rows
<1>2. w[i] \in Bytes
    BY <1>1
<1>3. \A b \in Bytes : b \in Nat
    BY DEF Bytes
<1> QED
    BY <1>1, <1>2, <1>3

\* Whatever branch the writer takes, a wire is a lead that holds one byte of the
\* payload, with nothing but zeros before it, and then the bytes after it.
WireAt(w, h) ==
    /\ h \in 1 .. 13
    /\ w[h] < VL[13 - h].long.room
    /\ \A j \in 1 .. h - 1 : w[j] = 0
    /\ Frame(w) = <<LeadOf(13 - h, w[h])>> \o SubSeq(w, h + 1, PAYLOAD)

\* Every payload has such a wire: where the first byte kept has no room under the
\* tag, the lead holds the zero before it, and there is one.
LEMMA FrameForm ==
    ASSUME NEW w, PayloadOK(w)
    PROVE  \E h \in 1 .. 13 : WireAt(w, h)
<1> DEFINE i == FirstKept(w)
           n == 13 - i
<1>1. w \in [1 .. PAYLOAD -> Bytes] /\ w[1] < 8
    BY DEF PayloadOK
<1>2. /\ i \in 1 .. 13
      /\ \A j \in 1 .. i - 1 : w[j] = 0
    BY <1>1, FirstKeptFacts
<1>3. Frame(w) = IF w[i] < VL[n].short.room
                 THEN <<VL[n].short.tag + w[i]>> \o SubSeq(w, i + 1, PAYLOAD)
                 ELSE IF w[i] < VL[n].long.room
                 THEN <<VL[n].long.tag + w[i]>> \o SubSeq(w, i + 1, PAYLOAD)
                 ELSE <<VL[n + 1].short.tag>> \o SubSeq(w, i, PAYLOAD)
    <2>1. PAYLOAD - MIN_WIRE + 1 - FirstKept(w) = n
        BY <1>2 DEF PAYLOAD, MIN_WIRE
    <2> QED
        BY <2>1 DEF Frame, Spill
<1> HIDE DEF i
<1>4. n \in Rows /\ w[i] \in Nat
    BY <1>1, <1>2, ByteOf
<1>5. CASE w[i] < VL[n].long.room
    <2>1. Frame(w) = <<LeadOf(n, w[i])>> \o SubSeq(w, i + 1, PAYLOAD)
        <3>1. w[i] < VL[n].short.room => LeadOf(n, w[i]) = VL[n].short.tag + w[i]
            BY DEF LeadOf
        <3>2. ~(w[i] < VL[n].short.room) => LeadOf(n, w[i]) = VL[n].long.tag + w[i]
            BY DEF LeadOf
        <3> QED
            BY <1>3, <1>5, <3>1, <3>2
    <2> QED
        BY <2>1, <1>2, <1>5 DEF WireAt
<1>6. CASE ~(w[i] < VL[n].long.room)
    <2>1. ~(w[i] < VL[n].short.room)
        BY <1>4, <1>6, RowShapes DEF RowShape
    <2>2. i # 1
        <3> SUFFICES ASSUME i = 1
                     PROVE  FALSE
            OBVIOUS
        <3>1. VL[n].long.room = 16
            BY TableRows DEF Room
        <3> QED
            BY <3>1, <1>1, <1>4, <1>6
    <2> DEFINE h == i - 1
    <2>3. h \in 1 .. 13 /\ 13 - h = n + 1 /\ 13 - h \in Rows /\ h + 1 = i
        BY <1>2, <2>2 DEF Rows
    <2>4. w[h] = 0
        BY <1>2, <2>2
    <2>5. RowShape(VL[n + 1])
        BY <2>3, RowShapes
    <2>6. LeadOf(n + 1, 0) = VL[n + 1].short.tag /\ 0 < VL[n + 1].long.room
        BY <2>5 DEF LeadOf, RowShape
    <2>7. Frame(w) = <<LeadOf(13 - h, w[h])>> \o SubSeq(w, h + 1, PAYLOAD)
        BY <1>3, <1>6, <2>1, <2>3, <2>4, <2>6
    <2>8. \A j \in 1 .. h - 1 : w[j] = 0
        BY <1>2
    <2> QED
        BY <2>3, <2>4, <2>6, <2>7, <2>8 DEF WireAt
<1> QED
    BY <1>5, <1>6

\* Where a wire's lead is, its length and its bytes.
WireHas(w, h, lead) ==
    /\ h \in 1 .. 13 /\ 13 - h \in Rows
    /\ w[h] \in Nat /\ w[h] < VL[13 - h].long.room
    /\ lead \in Bytes /\ Matches(13 - h, lead)
    /\ lead % Variant(13 - h, lead).room = w[h]
    /\ Headed(Frame(w), lead, w, h)

\* Every wire has them.
LEMMA WireBytes ==
    ASSUME NEW w, PayloadOK(w), NEW h, WireAt(w, h)
    PROVE  WireHas(w, h, LeadOf(13 - h, w[h]))
<1>1. w \in [1 .. PAYLOAD -> Bytes] /\ h \in 1 .. 13
    BY DEF PayloadOK, WireAt
<1>2. 13 - h \in Rows /\ w[h] \in Nat /\ w[h] < VL[13 - h].long.room
    BY <1>1, ByteOf DEF WireAt
<1> DEFINE n == 13 - h
           lead == LeadOf(n, w[h])
<1>3. lead \in Bytes /\ Matches(n, lead) /\ lead % Variant(n, lead).room = w[h]
    <2> HIDE DEF n
    <2> QED
        BY <1>2, LeadHolds DEF n
<1>4. Frame(w) = <<lead>> \o SubSeq(w, h + 1, PAYLOAD)
    BY DEF WireAt
<1> HIDE DEF lead, n
<1>5. Headed(<<lead>> \o SubSeq(w, h + 1, PAYLOAD), lead, w, h)
    BY <1>1, <1>3, HeadAndTail, Zenon
<1>6. Headed(Frame(w), lead, w, h)
    BY <1>4, <1>5, Zenon
<1> QED
    BY <1>1, <1>2, <1>3, <1>6, Zenon DEF lead, n, WireHas

\* No condensed wire begins with 0 or with the lead of the full form.
LEMMA LeadSafe ==
    ASSUME NEW w, PayloadOK(w)
    PROVE  Frame(w)[1] \notin {0, FULL_LEAD}
<1>1. PICK h \in 1 .. 13 : WireAt(w, h)
    BY FrameForm
<1> DEFINE lead == LeadOf(13 - h, w[h])
<1>2. WireHas(w, h, lead)
    BY <1>1, WireBytes, Zenon
<1> HIDE DEF lead
<1>3. Frame(w)[1] = lead /\ lead \in Bytes /\ 13 - h \in Rows /\ Matches(13 - h, lead)
    BY <1>2, Zenon DEF WireHas, Headed
<1> QED
    BY <1>3, EntryFound, Zenon

\* A wire is read back to its payload and its length, whatever bytes follow it.
THEOREM HeadReadsBack ==
    ASSUME NEW w, PayloadOK(w), NEW x \in Seq(Bytes)
    PROVE  /\ WireLength(Frame(w) \o x) = Len(Frame(w))
           /\ Unframe(Frame(w) \o x) = w
           /\ ~BadWire(Frame(w) \o x)
<1>1. PICK h \in 1 .. 13 : WireAt(w, h)
    BY FrameForm
<1> DEFINE f == Frame(w)
           s == f \o x
           lead == LeadOf(13 - h, w[h])
<1>2. /\ 13 - h \in Rows /\ lead \in Bytes /\ Matches(13 - h, lead)
      /\ lead % Variant(13 - h, lead).room = w[h]
      /\ f \in Seq(Bytes) /\ Len(f) = 17 - h /\ f[1] = lead
      /\ \A p \in 2 .. 17 - h : f[p] = w[p + h - 1]
    <2>1. WireHas(w, h, lead)
        BY <1>1, WireBytes, Zenon
    <2> QED
        BY <2>1, Zenon DEF WireHas, Headed
<1>3. Known(lead) /\ EntryOf(lead) = 13 - h
    BY <1>2, EntryFound
<1>4. w \in [1 .. 16 -> Bytes] /\ \A j \in 1 .. h - 1 : w[j] = 0
    BY <1>1 DEF PayloadOK, PAYLOAD, WireAt
<1> HIDE DEF f, lead
<1>5. /\ s \in Seq(Bytes) /\ Len(s) = 17 - h + Len(x) /\ Len(x) \in Nat
      /\ s[1] = lead
      /\ \A p \in 2 .. 17 - h : s[p] = w[p + h - 1]
    BY <1>2
<1> HIDE DEF s
<1>6. WireLength(s) = 17 - h
    BY <1>3, <1>5 DEF WireLength, MIN_WIRE
<1>7. ~BadWire(s)
    <2>1. 17 - h \in Nat /\ Len(s) >= 17 - h /\ Len(s) \in Nat
        BY <1>5
    <2>2. ~(Len(s) < WireLength(s))
        BY <1>6, <2>1
    <2> QED
        BY <2>2, Zenon DEF BadWire
<1>8. Unframe(s) = w
    <2> DEFINE z == Zeros(h - 1)
               t == SubSeq(s, 2, 17 - h)
               u == z \o <<w[h]>> \o t
    <2>1. Unframe(s) = u
        <3>1. PAYLOAD - WireLength(s) = h - 1 /\ WireLength(s) - MIN_WIRE = 13 - h
            BY <1>6 DEF PAYLOAD, MIN_WIRE
        <3> QED
            BY <3>1, <1>2, <1>5, <1>6 DEF Unframe
    <2>2. z \in Seq(Bytes) /\ Len(z) = h - 1 /\ \A p \in 1 .. h - 1 : z[p] = 0
        BY DEF Zeros, Bytes
    <2>3. /\ t \in Seq(Bytes) /\ Len(t) = 16 - h
          /\ \A p \in 1 .. 16 - h : t[p] = w[p + h]
        BY <1>5
    <2>4. w[h] \in Bytes
        BY <1>4
    <2> HIDE DEF z, t
    <2> DEFINE one == <<w[h]>>
               l == z \o one
    <2>5. one \in Seq(Bytes) /\ Len(one) = 1 /\ one[1] = w[h]
        BY <2>4
    <2> HIDE DEF one
    <2>6. /\ l \in Seq(Bytes) /\ Len(l) = h
          /\ \A p \in 1 .. h : l[p] = w[p]
        <3>1. /\ l \in Seq(Bytes)
              /\ Len(l) = Len(z) + Len(one)
              /\ \A p \in 1 .. Len(z) + Len(one) :
                    l[p] = IF p <= Len(z) THEN z[p] ELSE one[p - Len(z)]
            BY <2>2, <2>5, ConcatProperties
        <3> HIDE DEF l
        <3>2. Len(z) + Len(one) = h /\ Len(z) = h - 1
            BY <2>2, <2>5
        <3>3. ASSUME NEW p \in 1 .. h
              PROVE  l[p] = w[p]
            <4>1. l[p] = IF p <= h - 1 THEN z[p] ELSE one[p - (h - 1)]
                BY <3>1, <3>2
            <4>2. CASE p <= h - 1
                <5>1. p \in 1 .. h - 1
                    BY <4>2
                <5> QED
                    BY <4>1, <4>2, <5>1, <2>2, <1>4
            <4>3. CASE p = h
                <5>1. h - (h - 1) = 1 /\ ~(h <= h - 1)
                    OBVIOUS
                <5> QED
                    BY <4>1, <4>3, <5>1, <2>5
            <4> QED
                BY <4>2, <4>3
        <3> QED
            BY <3>1, <3>2, <3>3
    <2> HIDE DEF l
    <2>7. /\ u \in Seq(Bytes) /\ Len(u) = 16
          /\ \A p \in 1 .. 16 : u[p] = w[p]
        <3>1. /\ u \in Seq(Bytes)
              /\ Len(u) = Len(l) + Len(t)
              /\ \A p \in 1 .. Len(l) + Len(t) :
                    u[p] = IF p <= Len(l) THEN l[p] ELSE t[p - Len(l)]
            BY <2>3, <2>6, ConcatProperties DEF l, one
        <3> HIDE DEF u
        <3>2. Len(l) + Len(t) = 16
            BY <2>3, <2>6
        <3>3. ASSUME NEW p \in 1 .. 16
              PROVE  u[p] = w[p]
            <4>1. u[p] = IF p <= h THEN l[p] ELSE t[p - h]
                BY <3>1, <3>2, <2>6
            <4>2. CASE p <= h
                <5>1. p \in 1 .. h
                    BY <4>2
                <5> QED
                    BY <4>1, <4>2, <5>1, <2>6
            <4>3. CASE p > h
                <5>1. p - h \in 1 .. 16 - h /\ p - h + h = p /\ ~(p <= h)
                    BY <4>3
                <5>2. t[p - h] = w[p - h + h]
                    BY <5>1, <2>3
                <5> QED
                    BY <4>1, <5>1, <5>2
            <4> QED
                BY <4>2, <4>3
        <3> QED
            BY <3>1, <3>2, <3>3
    <2>8. w \in Seq(Bytes) /\ Len(w) = 16
        BY <1>4, SixteenBytes
    <2> HIDE DEF u
    <2>9. u = w
        BY <2>7, <2>8, SeqEqual
    <2> QED
        BY <2>1, <2>9
<1> QED
    BY <1>2, <1>6, <1>7, <1>8 DEF s, f
\* The order of two payloads is that of their wires, if these are of one length:
\* then both leads hold the same byte of their payloads, and leads grow with it.
THEOREM WiresSort ==
    ASSUME NEW v, PayloadOK(v), NEW w, PayloadOK(w),
           Len(Frame(v)) = Len(Frame(w)), Before(v, w)
    PROVE  Before(Frame(v), Frame(w))
<1>1. PICK h \in 1 .. 13 : WireAt(v, h)
    BY FrameForm
<1>2. PICK g \in 1 .. 13 : WireAt(w, g)
    BY FrameForm
<1> DEFINE a == Frame(v)
           b == Frame(w)
           n == 13 - h
<1>3. /\ Len(a) = 17 - h /\ a[1] = LeadOf(n, v[h])
      /\ \A p \in 2 .. 17 - h : a[p] = v[p + h - 1]
      /\ n \in Rows /\ v[h] \in Nat
    <2>1. WireHas(v, h, LeadOf(n, v[h]))
        BY <1>1, WireBytes, Zenon
    <2> QED
        BY <2>1, Zenon DEF WireHas, Headed
<1>4. /\ Len(b) = 17 - g
      /\ \A p \in 2 .. 17 - g : b[p] = w[p + g - 1]
      /\ b[1] = LeadOf(13 - g, w[g])
      /\ w[g] \in Nat /\ w[g] < VL[13 - g].long.room
    <2>1. WireHas(w, g, LeadOf(13 - g, w[g]))
        BY <1>2, WireBytes, Zenon
    <2> QED
        BY <2>1, Zenon DEF WireHas, Headed
<1>5. g = h
    <2>1. Len(a) = Len(b)
        OBVIOUS
    <2> HIDE DEF a, b
    <2>2. 17 - h = 17 - g
        BY <1>3, <1>4, <2>1
    <2> QED
        BY <2>2
<1>6. /\ \A j \in 1 .. h - 1 : v[j] = 0
      /\ \A j \in 1 .. h - 1 : w[j] = 0
    BY <1>1, <1>2, <1>5 DEF WireAt
<1>7. Len(v) = 16 /\ Len(w) = 16
    BY PayloadSeq DEF PayloadOK
<1>8. PICK k \in 0 .. 15 :
          /\ \A i \in 1 .. k : v[i] = w[i]
          /\ v[k + 1] < w[k + 1]
    BY <1>7 DEF Before
<1> HIDE DEF a, b, n
<1>9. k + 1 >= h
    <2> SUFFICES ASSUME k + 1 < h
                 PROVE  FALSE
        BY <1>1
    <2>1. k + 1 \in 1 .. h - 1
        OBVIOUS
    <2>2. v[k + 1] = 0 /\ w[k + 1] = 0
        BY <2>1, <1>6
    <2> QED
        BY <2>2, <1>8
<1> DEFINE m == k + 1 - h
<1>10. m \in 0 .. 16 - h /\ m + 1 + h - 1 = k + 1
    BY <1>9
<1>11. ASSUME NEW i \in 1 .. m
       PROVE  a[i] = b[i]
    <2>1. CASE i = 1
        <3>1. h \in 1 .. k
            BY <2>1, <1>10
        <3>2. v[h] = w[h]
            BY <3>1, <1>8
        <3> QED
            BY <2>1, <3>2, <1>3, <1>4, <1>5 DEF n
    <2>2. CASE i # 1
        <3>1. i \in 2 .. 17 - h /\ i + h - 1 \in 1 .. k
            BY <2>2, <1>10
        <3>2. a[i] = v[i + h - 1] /\ b[i] = w[i + h - 1]
            BY <3>1, <1>3, <1>4, <1>5
        <3> QED
            BY <3>1, <3>2, <1>8
    <2> QED
        BY <2>1, <2>2
<1>12. a[m + 1] < b[m + 1]
    <2>1. CASE m = 0
        <3>1. k + 1 = h
            BY <2>1
        <3>2. v[h] < w[h]
            BY <3>1, <1>8
        <3>3. LeadOf(n, v[h]) < LeadOf(n, w[h])
            BY <3>2, <1>3, <1>4, <1>5, LeadGrows DEF n
        <3>4. m + 1 = 1
            BY <2>1
        <3> QED
            BY <3>3, <3>4, <1>3, <1>4, <1>5 DEF n
    <2>2. CASE m # 0
        <3>1. m + 1 \in 2 .. 17 - h
            BY <2>2, <1>10
        <3>2. a[m + 1] = v[m + 1 + h - 1] /\ b[m + 1] = w[m + 1 + h - 1]
            BY <3>1, <1>3, <1>4, <1>5
        <3> QED
            BY <3>2, <1>8, <1>10
    <2> QED
        BY <2>1, <2>2
<1>13. Before(a, b)
    <2>1. m \in 0 .. Len(a) /\ m < Len(b)
        <3>1. Len(a) = 17 - h /\ Len(b) = 17 - h
            BY <1>3, <1>4, <1>5
        <3>2. m \in 0 .. 17 - h /\ m < 17 - h
            BY <1>10
        <3> QED
            BY <3>1, <3>2
    <2> HIDE DEF m
    <2> QED
        BY <2>1, <1>11, <1>12 DEF Before
<1> QED
    BY <1>13 DEF a, b

-----------------------------------------------------------------------------
(* Of every list that is written.                                          *)

\* The ids a list can have.
AllIds ==
    [version : Versions \ {4}, payload : Payloads] \cup [version : {4}, payload : Raws]

IdsInv == codec \in Codecs /\ ids \in Seq(AllIds)

\* Only ids of the running codec, or full ones, are ever written.
LEMMA IdsInvariant == Spec => []IdsInv
<1>1. Init => IdsInv
    BY DEF Init, IdsInv
<1>2. IdsInv /\ [Next]_vars => IdsInv'
    <2> SUFFICES ASSUME IdsInv, [Next]_vars
                 PROVE  IdsInv'
        OBVIOUS
    <2>1. CASE Write
        <3>1. PICK id \in IdsFor(codec) : ids' = Append(ids, id)
            BY <2>1 DEF Write
        <3>2. id \in AllIds
            BY DEF IdsFor, AllIds, IdsInv, Codecs, Versions
        <3>3. codec' = codec
            BY <2>1 DEF Write
        <3> QED
            BY <3>1, <3>2, <3>3 DEF IdsInv
    <2>2. CASE codec' = codec /\ ids' = ids
        BY <2>2 DEF IdsInv
    <2> QED
        BY <2>1, <2>2
           DEF Next, Deliver, CheckOne, CheckEnds, ReadOne, ReadThrows, ReadEnds, Rest,
               vars
<1> QED
    BY <1>1, <1>2, PTL DEF Spec

\* The wire of an id is that of its form, of 4 to 17 bytes.
LEMMA WireForm ==
    ASSUME NEW id \in AllIds
    PROVE  /\ id.version # 4 => PayloadOK(id.payload) /\ Wire(id) = Frame(id.payload)
           /\ id.version = 4 => /\ id.payload \in [1 .. PAYLOAD -> Bytes]
                                /\ Wire(id) = <<FULL_LEAD>> \o id.payload
                                /\ Len(Wire(id)) = 17
           /\ Wire(id) \in Seq(Bytes)
           /\ Len(Wire(id)) \in 4 .. 17
<1>1. CASE id \in [version : Versions \ {4}, payload : Payloads]
    <2>1. id.version \in {1, 6} /\ PayloadOK(id.payload)
        BY <1>1, StreamAssumption DEF Versions
    <2>2. Wire(id) = Frame(id.payload)
        BY <2>1 DEF Wire
    <2>3. PICK h \in 1 .. 13 : WireAt(id.payload, h)
        BY <2>1, FrameForm
    <2>4. Frame(id.payload) \in Seq(Bytes) /\ Len(Frame(id.payload)) = 17 - h
        <3>1. WireHas(id.payload, h, LeadOf(13 - h, id.payload[h]))
            BY <2>1, <2>3, WireBytes, Zenon
        <3> QED
            BY <3>1, Zenon DEF WireHas, Headed
    <2>5. 17 - h \in 4 .. 17
        OBVIOUS
    <2> QED
        BY <2>1, <2>2, <2>4, <2>5
<1>2. CASE id \in [version : {4}, payload : Raws]
    <2>1. id.version = 4 /\ id.payload \in [1 .. PAYLOAD -> Bytes]
        BY <1>2, StreamAssumption
    <2>2. Wire(id) = <<FULL_LEAD>> \o id.payload
        BY <2>1 DEF Wire, FullFrame
    <2>3. id.payload \in Seq(Bytes) /\ Len(id.payload) = 16
        BY <2>1, PayloadSeq
    <2>4. <<FULL_LEAD>> \in Seq(Bytes) /\ Len(<<FULL_LEAD>>) = 1
        BY DEF FULL_LEAD, Bytes
    <2>5. Wire(id) \in Seq(Bytes) /\ Len(Wire(id)) = 1 + 16
        <3> DEFINE one == <<FULL_LEAD>>
        <3>1. one \in Seq(Bytes) /\ Len(one) = 1 /\ Wire(id) = one \o id.payload
            BY <2>2, <2>4
        <3> HIDE DEF one
        <3>2. /\ one \o id.payload \in Seq(Bytes)
              /\ Len(one \o id.payload) = Len(one) + Len(id.payload)
            BY <2>3, <3>1, ConcatProperties
        <3> QED
            BY <2>3, <3>1, <3>2
    <2> QED
        BY <2>1, <2>2, <2>5
<1> QED
    BY <1>1, <1>2 DEF AllIds

\* So is that of every id of a list.
LEMMA WireOf ==
    ASSUME IdsInv, NEW i \in 1 .. Len(ids)
    PROVE  /\ Condensed(i) => /\ PayloadOK(ids[i].payload)
                              /\ Wire(ids[i]) = Frame(ids[i].payload)
           /\ Wire(ids[i]) \in Seq(Bytes)
<1>1. ids[i] \in AllIds
    BY ElementOfSeq DEF IdsInv
<1> QED
    BY <1>1, WireForm DEF Condensed

\* No condensed wire starts with a byte that base59 drops or that announces a full id.
THEOREM LeadIsSafeHolds == Spec => []LeadIsSafe
<1>1. ASSUME IdsInv
      PROVE  LeadIsSafe
    BY <1>1, WireOf, LeadSafe DEF LeadIsSafe, Condensed
<1> QED
    BY <1>1, IdsInvariant, PTL

\* Every wire of every list is read back whatever wire follows it, and no further.
THEOREM HeadsReadBackHolds == Spec => []HeadsReadBack
<1>1. ASSUME IdsInv
      PROVE  HeadsReadBack
    <2> SUFFICES ASSUME NEW i \in 1 .. Len(ids), ids[i].version # 4
                 PROVE  LET wire == Wire(ids[i])
                            last == Wire(ids[Len(ids)])
                        IN  /\ Unframe(wire \o last) = ids[i].payload
                            /\ WireLength(wire \o last) = Len(wire)
                            /\ ~BadWire(wire)
        BY DEF HeadsReadBack
    <2> DEFINE wire == Wire(ids[i])
               last == Wire(ids[Len(ids)])
    <2>1. /\ PayloadOK(ids[i].payload)
          /\ wire = Frame(ids[i].payload) /\ wire \in Seq(Bytes)
        BY <1>1, WireOf DEF Condensed
    <2>2. last \in Seq(Bytes)
        <3>1. Len(ids) \in 1 .. Len(ids)
            BY <1>1, LenProperties DEF IdsInv
        <3> QED
            BY <1>1, <3>1, WireOf
    <2> HIDE DEF wire, last
    <2>3. /\ Unframe(wire \o last) = ids[i].payload
          /\ WireLength(wire \o last) = Len(wire)
        BY <2>1, <2>2, HeadReadsBack
    <2>4. ~BadWire(wire)
        <3>1. <<>> \in Seq(Bytes) /\ wire \o <<>> = wire
            BY <2>1, ConcatEmptySeq, EmptySeq
        <3>2. ~BadWire(wire \o <<>>)
            BY <2>1, <3>1, HeadReadsBack
        <3> QED
            BY <3>1, <3>2
    <2> QED
        BY <2>3, <2>4 DEF wire, last
<1> QED
    BY <1>1, IdsInvariant, PTL

\* The wires of one length sort as their payloads do.
THEOREM SortsWithinALengthHolds == Spec => []SortsWithinALength
<1>1. ASSUME IdsInv
      PROVE  SortsWithinALength
    BY <1>1, WireOf, WiresSort DEF SortsWithinALength
<1> QED
    BY <1>1, IdsInvariant, PTL

-----------------------------------------------------------------------------
(***************************************************************************)
(* A whole list, delivered in part or with junk behind it: what the reader *)
(* gets from it and where it stops, and that the checker, which goes over  *)
(* the buffer first, says the same.                                        *)
(***************************************************************************)

(* Where the ids of a list end.                                            *)

\* The ends of the ids of a list, one by one.
EndsOf(f, list) ==
    /\ f \in [0 .. Len(list) -> Nat]
    /\ f[0] = 0
    /\ \A i \in 1 .. Len(list) : f[i] = f[i - 1] + Len(Wire(list[i]))

\* Every list has ends.
LEMMA EndsExist ==
    ASSUME NEW list \in Seq(AllIds)
    PROVE  \E f : EndsOf(f, list)
<1> DEFINE N == Len(list)
           L(i) == Len(Wire(list[i]))
           step == [i \in 1 .. N |-> [x \in Nat |-> x + L(i)]]
<1>1. N \in Nat /\ \A i \in 1 .. N : L(i) \in Nat
    BY WireForm, ElementOfSeq, LenProperties
<1> HIDE DEF N, L
<1>2. step \in [1 .. N -> [Nat -> Nat]]
    BY <1>1
<1>3. PICK f \in [0 .. N -> Nat] : f[0] = 0 /\ \A i \in 1 .. N : f[i] = step[i][f[i - 1]]
    <2> HIDE DEF step
    <2>1. 0 \in Nat /\ N \in Nat
        BY <1>1
    <2>2. \E f : Runs(f, N, Nat, 0, step)
        BY <1>2, <2>1, Recursion
    <2> QED
        BY <2>2 DEF Runs
<1>4. \A i \in 1 .. N : f[i - 1] \in Nat
    BY <1>1
<1> QED
    BY <1>3, <1>4 DEF EndsOf, N, L

\* The ends do not depend on the ids behind them.
LEMMA EndsAgree ==
    ASSUME NEW n \in Nat, NEW a, NEW b, NEW f, NEW g,
           EndsOf(f, a), EndsOf(g, b), n <= Len(a), n <= Len(b),
           Len(a) \in Nat, Len(b) \in Nat, \A i \in 1 .. n : a[i] = b[i]
    PROVE  \A i \in 0 .. n : f[i] = g[i]
<1> DEFINE T == { i \in 0 .. n : f[i] = g[i] }
<1>1. 0 \in T
    BY DEF EndsOf
<1>2. ASSUME NEW i \in 0 .. n - 1, i \in T
      PROVE  i + 1 \in T
    <2>1. i + 1 \in 1 .. n /\ i + 1 \in 1 .. Len(a) /\ i + 1 \in 1 .. Len(b) /\ i + 1 - 1 = i
        OBVIOUS
    <2>2. f[i + 1] = f[i] + Len(Wire(a[i + 1])) /\ g[i + 1] = g[i] + Len(Wire(b[i + 1]))
        BY <2>1 DEF EndsOf
    <2> QED
        BY <1>2, <2>1, <2>2
<1>3. 0 .. n \subseteq T
    <2> HIDE DEF T
    <2> QED
        BY <1>1, <1>2, Upwards
<1> QED
    BY <1>3

\* Sizes gives the ends.
LEMMA SizesAreEnds ==
    ASSUME NEW list \in Seq(AllIds)
    PROVE  EndsOf(Sizes(list), list)
<1> DEFINE N == Len(list)
           Body(f) == [n \in 0 .. N |-> IF n = 0 THEN 0 ELSE f[n - 1] + Len(Wire(list[n]))]
<1>1. PICK f : EndsOf(f, list)
    BY EndsExist
<1>2. f = Body(f)
    <2>1. DOMAIN f = 0 .. N /\ f = [n \in 0 .. N |-> f[n]]
        BY <1>1 DEF EndsOf
    <2>2. \A n \in 0 .. N : f[n] = IF n = 0 THEN 0 ELSE f[n - 1] + Len(Wire(list[n]))
        BY <1>1, LenProperties DEF EndsOf
    <2> QED
        BY <2>1, <2>2
<1>3. Sizes(list) = CHOOSE g : g = Body(g)
    BY DEF Sizes
<1>4. Sizes(list) = Body(Sizes(list))
    BY <1>2, <1>3
<1> DEFINE g == Sizes(list)
<1> HIDE DEF g
<1>5. /\ g = [n \in 0 .. N |-> g[n]]
      /\ g[0] = 0
      /\ \A i \in 1 .. N : g[i] = g[i - 1] + Len(Wire(list[i]))
    <2>1. g = Body(g) /\ N \in Nat
        BY <1>4, LenProperties DEF g
    <2>2. \A n \in 0 .. N : g[n] = IF n = 0 THEN 0 ELSE g[n - 1] + Len(Wire(list[n]))
        BY <2>1, Zenon
    <2>3. g = [n \in 0 .. N |-> g[n]]
        BY <2>1, Zenon
    <2> HIDE DEF N
    <2>4. 0 \in 0 .. N /\ \A i \in 1 .. N : i \in 0 .. N /\ i # 0
        BY <2>1
    <2> QED
        BY <2>2, <2>3, <2>4, Zenon
<1>6. \A i \in 0 .. N : g[i] \in Nat
    <2> DEFINE T == { i \in 0 .. N : g[i] \in Nat }
    <2>1. N \in Nat /\ 0 \in T
        BY <1>5, LenProperties
    <2>2. ASSUME NEW i \in 0 .. N - 1, i \in T
          PROVE  i + 1 \in T
        <3>1. i + 1 \in 1 .. N /\ i + 1 - 1 = i
            BY <2>1
        <3>2. Len(Wire(list[i + 1])) \in Nat
            BY <3>1, WireForm, ElementOfSeq
        <3>4. \A j \in 1 .. N : g[j] = g[j - 1] + Len(Wire(list[j]))
            BY <1>5
        <3>5. g[i + 1] = g[i + 1 - 1] + Len(Wire(list[i + 1]))
            BY <3>1, <3>4
        <3>3. g[i + 1] \in Nat
            BY <2>2, <3>1, <3>2, <3>5
        <3> QED
            BY <3>1, <3>3
    <2>3. 0 .. N \subseteq T
        <3> HIDE DEF T, N
        <3> QED
            BY <2>1, <2>2, Upwards
    <2> QED
        BY <2>3
<1> QED
    BY <1>5, <1>6 DEF EndsOf, g
-----------------------------------------------------------------------------
(* One id at the head of a buffer.                                         *)

\* As far as both go, s holds the bytes of the wire.
Begins(s, wire) == \A p \in 1 .. Len(wire) : p <= Len(s) => s[p] = wire[p]

\* The first byte of a condensed wire gives its length, even to a reader that
\* has only a part of it.
LEMMA LengthFromLead ==
    ASSUME NEW w, PayloadOK(w), NEW s, s[1] = Frame(w)[1]
    PROVE  WireLength(s) = Len(Frame(w)) /\ s[1] # FULL_LEAD
<1>1. PICK h \in 1 .. 13 : WireAt(w, h)
    BY FrameForm
<1> DEFINE lead == LeadOf(13 - h, w[h])
<1>2. /\ 13 - h \in Rows /\ lead \in Bytes /\ Matches(13 - h, lead)
      /\ Len(Frame(w)) = 17 - h /\ Frame(w)[1] = lead
    <2>1. WireHas(w, h, lead)
        BY <1>1, WireBytes, Zenon
    <2> QED
        BY <2>1, Zenon DEF WireHas, Headed
<1> HIDE DEF lead
<1>3. Known(lead) /\ EntryOf(lead) = 13 - h /\ lead # FULL_LEAD
    BY <1>2, EntryFound
<1>4. WireLength(s) = 13 - h + MIN_WIRE
    BY <1>2, <1>3 DEF WireLength
<1> QED
    BY <1>2, <1>3, <1>4 DEF MIN_WIRE

\* What begins with all of a sequence is that sequence and what follows.
LEMMA Split ==
    ASSUME NEW s \in Seq(Bytes), NEW t \in Seq(Bytes), Len(t) <= Len(s), Begins(s, t)
    PROVE  \E x \in Seq(Bytes) : s = t \o x
<1> DEFINE x == SubSeq(s, Len(t) + 1, Len(s))
<1>1. /\ Len(s) \in Nat /\ Len(t) \in Nat
      /\ \A p \in 1 .. Len(s) : s[p] \in Bytes
    BY LenProperties, ElementOfSeq
<1>2. /\ x \in Seq(Bytes)
      /\ Len(x) = Len(s) - Len(t)
      /\ \A p \in 1 .. Len(x) : x[p] = s[p + Len(t)]
    BY <1>1
<1> HIDE DEF x
<1> DEFINE u == t \o x
<1>3. /\ u \in Seq(Bytes)
      /\ Len(u) = Len(t) + Len(x)
      /\ \A p \in 1 .. Len(t) + Len(x) : u[p] = IF p <= Len(t) THEN t[p] ELSE x[p - Len(t)]
    BY <1>2, ConcatProperties
<1> HIDE DEF u
<1>4. Len(u) = Len(s)
    BY <1>1, <1>2, <1>3
<1>5. ASSUME NEW p \in 1 .. Len(s)
      PROVE  u[p] = s[p]
    <2>1. CASE p <= Len(t)
        BY <2>1, <1>1, <1>2, <1>3 DEF Begins
    <2>2. CASE p > Len(t)
        <3>1. p - Len(t) \in 1 .. Len(x) /\ p - Len(t) + Len(t) = p /\ ~(p <= Len(t))
            BY <2>2, <1>1, <1>2
        <3>2. u[p] = x[p - Len(t)]
            BY <3>1, <1>1, <1>2, <1>3
        <3> QED
            BY <3>1, <3>2, <1>2
    <2> QED
        BY <2>1, <2>2, <1>1
<1>6. u = s
    BY <1>3, <1>4, <1>5, SeqEqual
<1> QED
    BY <1>2, <1>6 DEF u

\* The ids of either codec are among all.
LEMMA IdsAreIds ==
    ASSUME NEW c \in Codecs
    PROVE  /\ IdsFor(c) \subseteq AllIds
           /\ \A id \in IdsFor(c) : id.version \in {c, 4}
BY DEF IdsFor, AllIds, Codecs, Versions

\* At the beginning of a wire the reader throws if, and only if, the wire is cut;
\* otherwise it takes the id that was written, and all of its bytes.
THEOREM HeadIsRead ==
    ASSUME codec \in Codecs, NEW id \in IdsFor(codec), NEW s \in Seq(Bytes),
           s # <<>>, Begins(s, Wire(id))
    PROVE  /\ Throws(s) <=> Len(s) < Len(Wire(id))
           /\ ~Throws(s) => ReadId(s) = id /\ Taken(s) = Len(Wire(id))
<1>1. /\ id \in AllIds
      /\ Wire(id) \in Seq(Bytes)
      /\ Len(Wire(id)) \in 4 .. 17
      /\ Len(s) \in Nat \ {0}
    BY IdsAreIds, WireForm, EmptySeq
<1>2. s[1] = Wire(id)[1]
    BY <1>1 DEF Begins
<1>3. CASE id.version # 4
    <2> DEFINE w == id.payload
    <2>1. /\ PayloadOK(w) /\ Wire(id) = Frame(w)
          /\ id = [version |-> codec, payload |-> w]
        BY <1>1, <1>3, WireForm DEF IdsFor
    <2>2. WireLength(s) = Len(Wire(id)) /\ s[1] # FULL_LEAD
        BY <1>2, <2>1, LengthFromLead
    <2>3. Throws(s) <=> Len(s) < Len(Wire(id))
        <3>1. ~IsFull(s) /\ BadWire(s) = (Len(s) < Len(Wire(id)))
            BY <2>2 DEF IsFull, BadWire
        <3>2. Len(s) < 2 => Len(s) < Len(Wire(id))
            <4>1. \A m \in Nat, n \in 4 .. 17 : m < 2 => m < n
                OBVIOUS
            <4> QED
                BY <1>1, <4>1, Zenon
        <3>3. Throws(s) = IF GoesToV6(s) THEN BadWire(s)
                          ELSE IF Len(s) < 2 THEN TRUE ELSE BadWire(s)
            BY <3>1, Zenon DEF Throws
        <3> QED
            BY <3>1, <3>2, <3>3, Zenon
    <2>4. ASSUME ~Throws(s)
          PROVE  ReadId(s) = id /\ Taken(s) = Len(Wire(id))
        <3>1. PICK x \in Seq(Bytes) : s = Wire(id) \o x
            BY <1>1, <2>3, <2>4, Split
        <3>2. Unframe(s) = w
            BY <3>1, <2>1, HeadReadsBack
        <3>3. ~IsFull(s) /\ (GoesToV6(s) <=> codec = 6)
            BY <2>2 DEF IsFull, GoesToV6
        <3> QED
            BY <3>2, <3>3, <2>1, <2>2 DEF ReadId, Taken, Codecs
    <2> QED
        BY <2>3, <2>4
<1>4. CASE id.version = 4
    <2> DEFINE r == id.payload
    <2>1. /\ r \in [1 .. PAYLOAD -> Bytes]
          /\ Wire(id) = <<FULL_LEAD>> \o r
          /\ Len(Wire(id)) = 17
          /\ id = [version |-> 4, payload |-> r]
        BY <1>1, <1>4, WireForm DEF IdsFor
    <2>2. r \in Seq(Bytes) /\ Len(r) = 16
        BY <2>1, PayloadSeq
    <2> HIDE DEF r
    <2>3. Wire(id)[1] = FULL_LEAD /\ \A p \in 2 .. 17 : Wire(id)[p] = r[p - 1]
        <3> DEFINE one == <<FULL_LEAD>>
        <3>1. one \in Seq(Bytes) /\ Len(one) = 1 /\ one[1] = FULL_LEAD
            BY DEF FULL_LEAD, Bytes
        <3> HIDE DEF one
        <3>2. \A p \in 1 .. Len(one) + Len(r) :
                 (one \o r)[p] = IF p <= Len(one) THEN one[p] ELSE r[p - Len(one)]
            BY <2>2, <3>1, ConcatProperties
        <3>3. Wire(id) = one \o r
            BY <2>1 DEF one
        <3>4. \A p \in 1 .. 17 : Wire(id)[p] = IF p <= 1 THEN one[p] ELSE r[p - 1]
            <4>1. Len(one) + Len(r) = 17 /\ Len(one) = 1
                BY <3>1, <2>2
            <4> QED
                BY <4>1, <3>2, <3>3
        <3> QED
            BY <3>1, <3>4
    <2>4. IsFull(s)
        BY <1>2, <2>3 DEF IsFull, GoesToV6
    <2>5. Throws(s) <=> Len(s) < Len(Wire(id))
        BY <1>1, <2>1, <2>4 DEF Throws, IsFull, PAYLOAD
    <2>6. ASSUME ~Throws(s)
          PROVE  ReadId(s) = id /\ Taken(s) = Len(Wire(id))
        <3> DEFINE t == SubSeq(s, 2, 17)
        <3>1. Len(s) >= 17
            BY <2>1, <2>5, <2>6, <1>1
        <3>2. t \in Seq(Bytes) /\ Len(t) = 16 /\ \A p \in 1 .. 16 : t[p] = s[p + 1]
            <4>1. \A p \in 2 .. 17 : s[p] \in Bytes
                BY <3>1, ElementOfSeq, LenProperties
            <4>2. /\ t \in Seq(Bytes)
                  /\ Len(t) = IF 2 <= 17 THEN 17 - 2 + 1 ELSE 0
                  /\ \A p \in 1 .. 17 - 2 + 1 : t[p] = s[2 + p - 1]
                BY <4>1, SubSeqProperties
            <4> HIDE DEF t
            <4>3. \A p \in 1 .. 16 : 2 + p - 1 = p + 1
                OBVIOUS
            <4> QED
                BY <4>2, <4>3
        <3> HIDE DEF t
        <3>3. \A p \in 1 .. 16 : t[p] = r[p]
            <4> SUFFICES ASSUME NEW p \in 1 .. 16
                         PROVE  t[p] = r[p]
                OBVIOUS
            <4>1. p + 1 \in 2 .. 17 /\ p + 1 - 1 = p /\ p + 1 <= Len(s)
                BY <3>1, <1>1
            <4>2. s[p + 1] = Wire(id)[p + 1]
                <5>1. p + 1 \in 1 .. Len(Wire(id))
                    BY <2>1
                <5> QED
                    BY <4>1, <5>1 DEF Begins
            <4>3. Wire(id)[p + 1] = r[p]
                <5> DEFINE q == p + 1
                <5>1. q \in 2 .. 17 /\ q - 1 = p
                    BY <4>1
                <5> HIDE DEF q
                <5>2. Wire(id)[q] = r[q - 1]
                    BY <2>3, <5>1
                <5>3. Wire(id)[q] = r[p]
                    BY <5>1, <5>2
                <5> QED
                    BY <5>3 DEF q
            <4> QED
                BY <4>2, <4>3, <3>2
        <3>4. t = r
            BY <3>2, <3>3, <2>2, SeqEqual
        <3>5. ReadId(s) = [version |-> 4, payload |-> t] /\ Taken(s) = 17
            BY <2>4 DEF ReadId, Taken, PAYLOAD, t
        <3> QED
            BY <3>4, <3>5, <2>1 DEF r
    <2> QED
        BY <2>5, <2>6
<1> QED
    BY <1>3, <1>4

\* The lead of a wire is looked up in the table, which has 13 entries.
LEMMA EntryOfKnown ==
    ASSUME NEW lead \in Bytes, Known(lead)
    PROVE  EntryOf(lead) \in Rows
BY EntryFound DEF Known, Rows

\* The two copies of the length rule agree: the checker passes what the reader takes,
\* and refuses what it throws on.  What is taken is there.
THEOREM HeadIsChecked ==
    ASSUME codec \in Codecs, NEW s \in Seq(Bytes), s # <<>>
    PROVE  /\ ~Throws(s) <=> WellFormedHead(s)
           /\ ~Throws(s) => /\ Taken(s) = CheckedLength(s)
                            /\ Taken(s) \in 1 .. Len(s)
           /\ ~Throws(s) /\ ~IsFull(s) => Known(s[1])
<1>1. Len(s) \in Nat \ {0} /\ s[1] \in Bytes
    BY EmptySeq, ElementOfSeq
<1>2. Known(s[1]) => EntryOf(s[1]) \in 0 .. 12
    BY <1>1, EntryOfKnown DEF Rows
<1>3. CASE s[1] = FULL_LEAD
    BY <1>1, <1>3
       DEF Throws, WellFormedHead, CheckedLength, Taken, IsFull, GoesToV6, PAYLOAD
<1>4. CASE s[1] # FULL_LEAD
    <2>1. ~IsFull(s) /\ CheckedLength(s) = WireLength(s) /\ Taken(s) = WireLength(s)
        BY <1>4 DEF IsFull, CheckedLength, WireLength, Taken
    <2>2. WireLength(s) \in Nat /\ WireLength(s) >= 2
        BY <1>1, <1>2 DEF WireLength, MIN_WIRE
    <2>3. Throws(s) <=> Len(s) < WireLength(s)
        BY <1>1, <2>1, <2>2 DEF Throws, BadWire
    <2>4. ~Known(s[1]) => WireLength(s) = Len(s) + 1
        BY DEF WireLength
    <2> QED
        BY <1>1, <2>1, <2>2, <2>3, <2>4 DEF WellFormedHead
<1> QED
    BY <1>3, <1>4
-----------------------------------------------------------------------------
(* The invariants.                                                         *)

\* What the reader can make of any bytes.
PayloadsRead ==
    { Unframe(s) : s \in Seq(Bytes) } \cup { SubSeq(s, 2, 1 + PAYLOAD) : s \in Seq(Bytes) }

IdsRead == [version : Versions, payload : PayloadsRead]

\* The types, and that nothing is checked or read before it is delivered.
TypesInv ==
    /\ codec \in Codecs
    /\ ids \in Seq(IdsFor(codec))
    /\ bytes \in Seq(Bytes)
    /\ checked \in 0 .. Len(bytes)
    /\ valid \in BOOLEAN
    /\ pos \in 0 .. Len(bytes)
    /\ out \in Seq(IdsRead)
    /\ phase \in Phases
    /\ phase = "writing" => checked = 0
    /\ phase \in {"writing", "checking"} => pos = 0 /\ out = <<>>

\* The buffer holds the wires of the ids one after the other, as far as it goes.
WrittenInv ==
    /\ phase = "writing" => Len(bytes) = Size(Len(ids))
    /\ \A i \in 1 .. Len(ids) : \A p \in 1 .. Len(Wire(ids[i])) :
          Size(i - 1) + p <= Len(bytes) => bytes[Size(i - 1) + p] = Wire(ids[i])[p]

\* The reader is at the end of the last id it delivered, while there are any.
ReadInv ==
    /\ \A i \in 1 .. Len(out) : i <= Len(ids) => out[i] = ids[i]
    /\ Len(out) <= Len(ids) => pos = Size(Len(out))
    /\ Len(out) > Len(ids) => pos > Size(Len(ids))
    /\ phase = "done" => pos = Len(bytes)
    /\ phase = "thrown" => pos # Len(bytes) /\ Throws(From(pos))

\* The checker refuses what it stops at, or there is nothing left.
VerdictInv ==
    phase \in {"reading", "done", "thrown"} =>
        /\ valid = (checked = Len(bytes))
        /\ checked # Len(bytes) => ~WellFormedHead(From(checked))

\* What follows the first n bytes of a buffer.
After(b, n) == SubSeq(b, n + 1, Len(b))

\* A walk over a buffer from head to head, in k steps.
Walk(f, k, b) ==
    /\ k \in Nat
    /\ f \in [0 .. k -> 0 .. Len(b)]
    /\ f[0] = 0
    /\ \A i \in 1 .. k :
          /\ f[i - 1] # Len(b)
          /\ WellFormedHead(After(b, f[i - 1]))
          /\ f[i] = f[i - 1] + CheckedLength(After(b, f[i - 1]))

Reached(b, n) == \E f, k : Walk(f, k, b) /\ f[k] = n

\* Checker and reader walk over the same heads.
WalkInv == Reached(bytes, checked) /\ Reached(bytes, pos)

\* The ends grow, by the wires.
LEMMA SizesGrow ==
    ASSUME NEW list \in Seq(AllIds)
    PROVE  /\ \A n \in 0 .. Len(list) : Sizes(list)[n] \in Nat
           /\ Sizes(list)[0] = 0
           /\ \A i \in 1 .. Len(list) :
                /\ Len(Wire(list[i])) \in 4 .. 17
                /\ Sizes(list)[i] = Sizes(list)[i - 1] + Len(Wire(list[i]))
           /\ \A m \in 0 .. Len(list) : \A n \in m .. Len(list) :
                Sizes(list)[m] <= Sizes(list)[n]
<1> DEFINE f == Sizes(list)
           N == Len(list)
<1>1. EndsOf(f, list) /\ N \in Nat
    BY SizesAreEnds, LenProperties
<1>2. \A i \in 1 .. N : Len(Wire(list[i])) \in 4 .. 17
    BY WireForm, ElementOfSeq
<1> HIDE DEF f
<1>3. /\ \A n \in 0 .. N : f[n] \in Nat
      /\ f[0] = 0
      /\ \A i \in 1 .. N : f[i] = f[i - 1] + Len(Wire(list[i]))
    BY <1>1 DEF EndsOf
<1>4. ASSUME NEW m \in 0 .. N
      PROVE  \A n \in m .. N : f[m] <= f[n]
    <2> DEFINE T == { n \in 0 .. N : n >= m => f[m] <= f[n] }
    <2>1. 0 \in T
        BY <1>1, <1>3
    <2>2. ASSUME NEW i \in 0 .. N - 1, i \in T
          PROVE  i + 1 \in T
        <3>1. i + 1 \in 1 .. N /\ i + 1 - 1 = i /\ i \in 0 .. N
            BY <1>1
        <3>2. f[i + 1] = f[i] + Len(Wire(list[i + 1])) /\ Len(Wire(list[i + 1])) \in Nat
            BY <3>1, <1>3, <1>2
        <3>3. f[i] \in Nat /\ f[m] \in Nat
            BY <3>1, <1>3
        <3>4. f[i] <= f[i + 1]
            BY <3>2, <3>3
        <3>5. CASE m <= i
            BY <3>1, <3>2, <3>3, <3>4, <3>5, <2>2
        <3>6. CASE m = i + 1
            BY <3>1, <3>2, <3>3, <3>6
        <3>7. CASE m > i + 1
            BY <3>1, <3>7
        <3> QED
            BY <3>1, <3>5, <3>6, <3>7
    <2>3. 0 .. N \subseteq T
        <3> HIDE DEF T, N
        <3> QED
            BY <1>1, <2>1, <2>2, Upwards
    <2> QED
        BY <2>3, <1>1
<1> QED
    BY <1>2, <1>3, <1>4 DEF f

\* Another id takes its bytes behind those of the others.
LEMMA SizesOfAppend ==
    ASSUME NEW list \in Seq(AllIds), NEW id \in AllIds
    PROVE  /\ Append(list, id) \in Seq(AllIds)
           /\ Len(Append(list, id)) = Len(list) + 1
           /\ Len(list) \in Nat
           /\ Append(list, id)[Len(list) + 1] = id
           /\ \A i \in 1 .. Len(list) : Append(list, id)[i] = list[i]
           /\ \A i \in 0 .. Len(list) : Sizes(Append(list, id))[i] = Sizes(list)[i]
           /\ Sizes(Append(list, id))[Len(list) + 1] = Sizes(list)[Len(list)] + Len(Wire(id))
<1> DEFINE longer == Append(list, id)
           N == Len(list)
<1>1. /\ longer \in Seq(AllIds) /\ Len(longer) = N + 1 /\ N \in Nat
      /\ longer[N + 1] = id /\ \A i \in 1 .. N : longer[i] = list[i]
    BY AppendProperties, LenProperties
<1> HIDE DEF longer
<1>2. EndsOf(Sizes(list), list) /\ EndsOf(Sizes(longer), longer)
    BY <1>1, SizesAreEnds
<1>3. \A i \in 0 .. N : Sizes(list)[i] = Sizes(longer)[i]
    <2>1. /\ N \in Nat /\ N <= Len(list) /\ N <= Len(longer)
          /\ Len(list) \in Nat /\ Len(longer) \in Nat
          /\ \A i \in 1 .. N : list[i] = longer[i]
        BY <1>1
    <2> HIDE DEF N
    <2> QED
        BY <1>2, <2>1, EndsAgree
<1>4. Sizes(longer)[N + 1] = Sizes(longer)[N] + Len(Wire(id))
    <2>1. N + 1 \in 1 .. Len(longer) /\ N + 1 - 1 = N
        BY <1>1
    <2> QED
        BY <1>1, <1>2, <2>1 DEF EndsOf
<1> QED
    BY <1>1, <1>3, <1>4 DEF longer

\* What is left of a buffer is a sequence of bytes.
LEMMA AfterIs ==
    ASSUME NEW b \in Seq(Bytes), NEW n \in 0 .. Len(b)
    PROVE  /\ After(b, n) \in Seq(Bytes)
           /\ Len(After(b, n)) = Len(b) - n
           /\ \A p \in 1 .. Len(b) - n : After(b, n)[p] = b[n + p]
           /\ n # Len(b) => After(b, n) # <<>>
<1>1. Len(b) \in Nat
    BY LenProperties
<1>2. /\ After(b, n) \in Seq(Bytes)
      /\ Len(After(b, n)) = Len(b) - n
      /\ \A p \in 1 .. Len(b) - n : After(b, n)[p] = b[n + p]
    <2>1. \A p \in n + 1 .. Len(b) : b[p] \in Bytes
        BY ElementOfSeq
    <2> QED
        BY <1>1, <2>1 DEF After
<1>3. n # Len(b) => After(b, n) # <<>>
    <2>1. n # Len(b) => Len(After(b, n)) # 0
        BY <1>1, <1>2
    <2> QED
        BY <2>1, EmptySeq
<1> QED
    BY <1>2, <1>3

\* A reader that does not throw takes bytes that are there.
LEMMA TakenIsThere ==
    ASSUME TypesInv, pos # Len(bytes), ~Throws(From(pos))
    PROVE  pos + Taken(From(pos)) \in 1 .. Len(bytes)
<1> DEFINE s == From(pos)
<1>1. s \in Seq(Bytes) /\ s # <<>> /\ Len(s) = Len(bytes) - pos
    BY AfterIs DEF TypesInv, From, After
<1>2. Taken(s) \in 1 .. Len(s)
    BY <1>1, HeadIsChecked DEF TypesInv
<1> HIDE DEF s
<1>3. Len(bytes) \in Nat /\ pos \in Nat
    BY LenProperties DEF TypesInv
<1> QED
    BY <1>1, <1>2, <1>3 DEF s

\* The same of the checker.
LEMMA CheckedIsThere ==
    ASSUME TypesInv, checked # Len(bytes), WellFormedHead(From(checked))
    PROVE  checked + CheckedLength(From(checked)) \in 1 .. Len(bytes)
<1> DEFINE s == From(checked)
<1>1. s \in Seq(Bytes) /\ s # <<>> /\ Len(s) = Len(bytes) - checked
    BY AfterIs DEF TypesInv, From, After
<1>2. CheckedLength(s) \in 1 .. Len(s)
    BY <1>1, HeadIsChecked DEF TypesInv
<1> HIDE DEF s
<1>3. Len(bytes) \in Nat /\ checked \in Nat
    BY LenProperties DEF TypesInv
<1> QED
    BY <1>1, <1>2, <1>3 DEF s

\* What the reader appends is an id read from bytes.
LEMMA ReadIdType ==
    ASSUME NEW s \in Seq(Bytes)
    PROVE  ReadId(s) \in IdsRead
BY DEF ReadId, IdsRead, PayloadsRead, Versions

\* Every step keeps the types.
LEMMA TypesStep ==
    ASSUME TypesInv, [Next]_vars
    PROVE  TypesInv'
<1>0. Len(bytes) \in Nat
    BY LenProperties DEF TypesInv
<1>1. CASE Write
    <2>1. PICK id \in IdsFor(codec) : ids' = Append(ids, id) /\ bytes' = bytes \o Wire(id)
        BY <1>1 DEF Write
    <2>2. UNCHANGED <<codec, checked, valid, pos, out, phase>>
        BY <1>1 DEF Write
    <2>3. Wire(id) \in Seq(Bytes) /\ Len(Wire(id)) \in Nat
        BY IdsAreIds, WireForm DEF TypesInv
    <2>4. bytes' \in Seq(Bytes) /\ Len(bytes') = Len(bytes) + Len(Wire(id))
        BY <2>1, <2>3, ConcatProperties DEF TypesInv
    <2>5. ids' \in Seq(IdsFor(codec'))
        BY <2>1, <2>2, AppendProperties DEF TypesInv
    <2>6. checked' \in 0 .. Len(bytes') /\ pos' \in 0 .. Len(bytes')
        BY <1>0, <2>2, <2>3, <2>4 DEF TypesInv
    <2> QED
        BY <2>2, <2>4, <2>5, <2>6 DEF TypesInv
<1>2. CASE Deliver
    <2>1. UNCHANGED <<codec, ids, checked, valid, pos, out>> /\ phase' = "checking"
        BY <1>2 DEF Deliver
    <2>2. checked = 0 /\ pos = 0 /\ out = <<>>
        BY <1>2 DEF Deliver, TypesInv
    <2>3. bytes' \in Seq(Bytes)
        <3>1. CASE \E n \in 0 .. Len(bytes) : bytes' = SubSeq(bytes, 1, n)
            <4>1. PICK n \in 0 .. Len(bytes) : bytes' = SubSeq(bytes, 1, n)
                BY <3>1
            <4>2. \A p \in 1 .. n : bytes[p] \in Bytes
                BY <1>0, ElementOfSeq DEF TypesInv
            <4> QED
                BY <4>1, <4>2
        <3>2. CASE \E j \in Junk : bytes' = bytes \o j
            BY <3>2, StreamAssumption, ConcatProperties DEF TypesInv
        <3> QED
            BY <1>2, <3>1, <3>2 DEF Deliver
    <2>4. 0 \in 0 .. Len(bytes')
        BY <2>3, LenProperties
    <2> QED
        BY <2>1, <2>2, <2>3, <2>4 DEF TypesInv, Phases
<1>3. CASE CheckOne
    <2>1. checked' \in 0 .. Len(bytes')
        BY <1>3, CheckedIsThere DEF CheckOne
    <2> QED
        BY <1>3, <2>1 DEF CheckOne, TypesInv
<1>4. CASE CheckEnds
    BY <1>4 DEF CheckEnds, TypesInv, Phases
<1>5. CASE ReadOne
    <2>1. pos' \in 0 .. Len(bytes')
        BY <1>5, TakenIsThere DEF ReadOne
    <2>2. From(pos) \in Seq(Bytes)
        BY AfterIs DEF TypesInv, From, After
    <2>3. out' \in Seq(IdsRead)
        BY <1>5, <2>2, ReadIdType, AppendProperties DEF ReadOne, TypesInv
    <2> QED
        BY <1>5, <2>1, <2>3 DEF ReadOne, TypesInv
<1>6. CASE ReadThrows
    BY <1>6 DEF ReadThrows, TypesInv, Phases
<1>7. CASE ReadEnds
    BY <1>7 DEF ReadEnds, TypesInv, Phases
<1>8. CASE UNCHANGED vars
    BY <1>8 DEF vars, TypesInv
<1> QED
    BY <1>1, <1>2, <1>3, <1>4, <1>5, <1>6, <1>7, <1>8 DEF Next, Rest

\* The buffer of every state is made of the wires of its ids: a step that writes puts
\* one behind them, one that delivers cuts the buffer or adds to it.
LEMMA WrittenStep ==
    ASSUME TypesInv, WrittenInv, [Next]_vars
    PROVE  WrittenInv'
<1>0. /\ Len(bytes) \in Nat /\ Len(ids) \in Nat
      /\ ids \in Seq(AllIds)
    <2>1. IdsFor(codec) \subseteq AllIds
        BY IdsAreIds DEF TypesInv
    <2>2. ids \in Seq(AllIds)
        BY <2>1, SeqMonotonic DEF TypesInv
    <2> QED
        BY <2>2, LenProperties DEF TypesInv
<1>1. CASE Write
    <2>1. PICK id \in IdsFor(codec) : ids' = Append(ids, id) /\ bytes' = bytes \o Wire(id)
        BY <1>1 DEF Write
    <2>2. phase = "writing" /\ phase' = "writing"
        BY <1>1 DEF Write
    <2>3. id \in AllIds /\ Wire(id) \in Seq(Bytes) /\ Len(Wire(id)) \in Nat
        BY IdsAreIds, WireForm DEF TypesInv
    <2> DEFINE N == Len(ids)
               f == Sizes(ids)
               g == Sizes(ids')
    <2>4. /\ Len(ids') = N + 1
          /\ ids'[N + 1] = id
          /\ \A i \in 1 .. N : ids'[i] = ids[i]
          /\ \A i \in 0 .. N : g[i] = f[i]
          /\ g[N + 1] = f[N] + Len(Wire(id))
        BY <1>0, <2>1, <2>3, SizesOfAppend
    <2>5. /\ Len(bytes') = Len(bytes) + Len(Wire(id))
          /\ \A p \in 1 .. Len(bytes) : bytes'[p] = bytes[p]
          /\ \A p \in 1 .. Len(Wire(id)) : bytes'[Len(bytes) + p] = Wire(id)[p]
        <3> DEFINE x == Wire(id)
        <3>1. /\ Len(bytes') = Len(bytes) + Len(x)
              /\ \A p \in 1 .. Len(bytes) + Len(x) :
                    bytes'[p] = IF p <= Len(bytes) THEN bytes[p] ELSE x[p - Len(bytes)]
            BY <2>1, <2>3, ConcatProperties DEF TypesInv
        <3>2. Len(x) \in Nat
            BY <2>3
        <3> HIDE DEF x
        <3>3. \A p \in 1 .. Len(bytes) : bytes'[p] = bytes[p]
            BY <3>1, <3>2, <1>0
        <3>4. ASSUME NEW p \in 1 .. Len(x)
              PROVE  bytes'[Len(bytes) + p] = x[p]
            <4>1. /\ Len(bytes) + p \in 1 .. Len(bytes) + Len(x)
                  /\ ~(Len(bytes) + p <= Len(bytes))
                  /\ Len(bytes) + p - Len(bytes) = p
                BY <3>2, <1>0
            <4> QED
                BY <4>1, <3>1
        <3> QED
            BY <3>1, <3>3, <3>4 DEF x
    <2>6. Len(bytes) = f[N]
        BY <2>2 DEF WrittenInv, Size
    <2>7. /\ \A n \in 0 .. N : f[n] \in Nat
          /\ \A i \in 1 .. N : Len(Wire(ids[i])) \in Nat /\ f[i] = f[i - 1] + Len(Wire(ids[i]))
          /\ \A i \in 0 .. N : f[i] <= f[N]
        BY <1>0, SizesGrow
    <2>8. ASSUME NEW i \in 1 .. N + 1, NEW p \in 1 .. Len(Wire(ids'[i]))
          PROVE  bytes'[g[i - 1] + p] = Wire(ids'[i])[p]
        <3> HIDE DEF f, g, N
        <3>1. CASE i = N + 1
            <4>1. g[i - 1] = Len(bytes) /\ ids'[i] = id
                BY <3>1, <2>4, <2>6, <1>0 DEF N
            <4> QED
                BY <4>1, <2>5
        <3>2. CASE i # N + 1
            <4>1. i \in 1 .. N /\ i - 1 \in 0 .. N
                BY <3>2, <1>0 DEF N
            <4>2. ids'[i] = ids[i] /\ g[i - 1] = f[i - 1]
                BY <4>1, <2>4
            <4>3. p \in 1 .. Len(Wire(ids[i]))
                BY <4>2
            <4>4. f[i - 1] + p \in 1 .. Len(bytes)
                <5>1. /\ f[i - 1] \in Nat /\ f[i] \in Nat /\ f[i] <= Len(bytes)
                      /\ f[i] = f[i - 1] + Len(Wire(ids[i])) /\ Len(Wire(ids[i])) \in Nat
                    BY <4>1, <2>6, <2>7
                <5> QED
                    BY <4>3, <5>1, <1>0
            <4>5. bytes[f[i - 1] + p] = Wire(ids[i])[p]
                BY <4>1, <4>3, <4>4 DEF WrittenInv, Size, f, N
            <4> QED
                BY <4>2, <4>4, <4>5, <2>5
        <3> QED
            BY <3>1, <3>2
    <2>9. Len(bytes') = g[N + 1]
        BY <2>4, <2>5, <2>6
    <2> QED
        BY <2>4, <2>8, <2>9 DEF WrittenInv, Size
<1>2. CASE Deliver
    <2>1. ids' = ids /\ phase = "writing" /\ phase' = "checking"
        BY <1>2 DEF Deliver
    <2> DEFINE N == Len(ids)
               f == Sizes(ids)
    <2>2. /\ \A n \in 0 .. N : f[n] \in Nat
          /\ \A i \in 1 .. N : Len(Wire(ids[i])) \in Nat /\ f[i] = f[i - 1] + Len(Wire(ids[i]))
          /\ \A i \in 0 .. N : f[i] <= f[N]
        BY <1>0, SizesGrow
    <2>3. Len(bytes) = f[N]
        BY <2>1 DEF WrittenInv, Size
    <2>4. \A p \in 1 .. Len(bytes) : p <= Len(bytes') => bytes'[p] = bytes[p]
        <3>1. CASE \E n \in 0 .. Len(bytes) : bytes' = SubSeq(bytes, 1, n)
            <4>1. PICK n \in 0 .. Len(bytes) : bytes' = SubSeq(bytes, 1, n)
                BY <3>1
            <4>2. Len(bytes') = n /\ \A p \in 1 .. n : bytes'[p] = bytes[p]
                BY <4>1, <1>0 DEF TypesInv
            <4> QED
                BY <4>2, <1>0
        <3>2. CASE \E j \in Junk : bytes' = bytes \o j
            <4>1. PICK j \in Junk : bytes' = bytes \o j
                BY <3>2
            <4>2. j \in Seq(Bytes) /\ Len(j) \in Nat
                BY StreamAssumption, LenProperties
            <4>3. \A p \in 1 .. Len(bytes) + Len(j) :
                      bytes'[p] = IF p <= Len(bytes) THEN bytes[p] ELSE j[p - Len(bytes)]
                <5>1. bytes \in Seq(Bytes)
                    BY DEF TypesInv
                <5>2. \A p \in 1 .. Len(bytes) + Len(j) :
                         (bytes \o j)[p] =
                            IF p <= Len(bytes) THEN bytes[p] ELSE j[p - Len(bytes)]
                    BY <4>2, <5>1, ConcatProperties
                <5> QED
                    BY <4>1, <5>2, Zenon
            <4>4. Len(bytes) \in Nat
                BY LenProperties DEF TypesInv
            <4>5. \A p \in 1 .. Len(bytes) : p \in 1 .. Len(bytes) + Len(j) /\ p <= Len(bytes)
                BY <4>2, <4>4
            <4> QED
                BY <4>3, <4>5, Zenon
        <3> QED
            BY <1>2, <3>1, <3>2 DEF Deliver
    <2>5. ASSUME NEW i \in 1 .. N, NEW p \in 1 .. Len(Wire(ids[i])),
                 f[i - 1] + p <= Len(bytes')
          PROVE  bytes'[f[i - 1] + p] = Wire(ids[i])[p]
        <3> HIDE DEF f
        <3>1. i \in 1 .. N /\ i - 1 \in 0 .. N
            BY <1>0
        <3>2. f[i - 1] + p \in 1 .. Len(bytes)
            <4>1. /\ f[i - 1] \in Nat /\ f[i] \in Nat /\ f[i] <= Len(bytes)
                  /\ f[i] = f[i - 1] + Len(Wire(ids[i])) /\ Len(Wire(ids[i])) \in Nat
                BY <3>1, <2>2, <2>3
            <4> QED
                BY <4>1, <1>0
        <3>3. bytes[f[i - 1] + p] = Wire(ids[i])[p]
            <4>1. f[i - 1] + p <= Len(bytes)
                BY <3>2
            <4> QED
                BY <4>1 DEF WrittenInv, Size, f
        <3> QED
            BY <3>2, <3>3, <2>4, <2>5
    <2> QED
        BY <2>1, <2>5 DEF WrittenInv, Size
<1>3. CASE /\ UNCHANGED <<ids, bytes>>
           /\ phase' = "writing" => phase = "writing"
    BY <1>3 DEF WrittenInv, Size
<1> QED
    BY <1>1, <1>2, <1>3
       DEF Next, CheckOne, CheckEnds, ReadOne, ReadThrows, ReadEnds, Rest, vars

\* While there are ids to deliver, the reader is at the wire of the next one.
LEMMA AtTheNext ==
    ASSUME TypesInv, WrittenInv, ReadInv, Len(out) < Len(ids), pos # Len(bytes)
    PROVE  LET next == Len(out) + 1
               s == From(pos)
           IN  /\ next \in 1 .. Len(ids) /\ next - 1 = Len(out)
               /\ ids[next] \in IdsFor(codec)
               /\ ids \in Seq(AllIds)
               /\ s \in Seq(Bytes) /\ s # <<>> /\ Len(s) = Len(bytes) - pos
               /\ Begins(s, Wire(ids[next]))
<1> DEFINE next == Len(out) + 1
           s == From(pos)
<1>1. /\ Len(out) \in Nat /\ Len(ids) \in Nat /\ Len(bytes) \in Nat
      /\ pos \in 0 .. Len(bytes)
    BY LenProperties DEF TypesInv
<1>2. next \in 1 .. Len(ids) /\ next - 1 = Len(out) /\ ids[next] \in IdsFor(codec)
    <2>1. next \in 1 .. Len(ids) /\ next - 1 = Len(out)
        BY <1>1
    <2> QED
        BY <2>1, ElementOfSeq DEF TypesInv
<1>3. ids \in Seq(AllIds)
    BY IdsAreIds, SeqMonotonic DEF TypesInv
<1>4. /\ s \in Seq(Bytes) /\ s # <<>> /\ Len(s) = Len(bytes) - pos
      /\ \A p \in 1 .. Len(bytes) - pos : s[p] = bytes[pos + p]
    BY AfterIs DEF TypesInv, From, After
<1>5. pos = Size(next - 1)
    BY <1>1, <1>2 DEF ReadInv
<1>6. ASSUME NEW p \in 1 .. Len(Wire(ids[next])), p <= Len(s)
      PROVE  s[p] = Wire(ids[next])[p]
    <2>1. Len(Wire(ids[next])) \in Nat
        BY <1>2, <1>3, WireForm, ElementOfSeq
    <2> HIDE DEF s, next
    <2>2. p \in 1 .. Len(bytes) - pos /\ pos + p <= Len(bytes)
        BY <1>1, <1>4, <1>6, <2>1
    <2>3. bytes[Size(next - 1) + p] = Wire(ids[next])[p]
        BY <1>2, <1>5, <2>2 DEF WrittenInv
    <2> QED
        BY <1>4, <1>5, <2>2, <2>3
<1> QED
    BY <1>2, <1>3, <1>4, <1>6 DEF Begins

\* A step of the reader delivers the next id, or, when all are delivered, something
\* of the junk, and goes past what it delivers.
LEMMA ReadOneStep ==
    ASSUME TypesInv, WrittenInv, ReadInv, ReadOne
    PROVE  ReadInv'
<1> DEFINE next == Len(out) + 1
           s == From(pos)
<1>1. /\ pos # Len(bytes) /\ ~Throws(s)
      /\ out' = Append(out, ReadId(s)) /\ pos' = pos + Taken(s)
      /\ UNCHANGED <<codec, ids, bytes, phase>> /\ phase = "reading"
    BY DEF ReadOne
<1>2. Len(out) \in Nat /\ Len(ids) \in Nat /\ Len(bytes) \in Nat /\ pos \in Nat
    BY LenProperties DEF TypesInv
<1>3. /\ Len(out') = Len(out) + 1
      /\ \A i \in 1 .. Len(out) : out'[i] = out[i]
      /\ out'[Len(out) + 1] = ReadId(s)
    <2>1. s \in Seq(Bytes)
        BY AfterIs DEF TypesInv, From, After
    <2>2. ReadId(s) \in IdsRead
        BY <2>1, ReadIdType
    <2> QED
        BY <1>1, <2>2, AppendProperties DEF TypesInv
<1>4. s \in Seq(Bytes) /\ s # <<>>
    BY <1>1, AfterIs DEF TypesInv, From, After
<1>5. Taken(s) \in Nat \ {0}
    <2>1. Taken(s) \in 1 .. Len(s)
        BY <1>1, <1>4, HeadIsChecked DEF TypesInv
    <2>2. Len(s) \in Nat
        BY <1>4, LenProperties
    <2> HIDE DEF s
    <2> QED
        BY <2>1, <2>2
<1>6. ids \in Seq(AllIds)
    BY IdsAreIds, SeqMonotonic DEF TypesInv
<1>7. \A n \in 0 .. Len(ids) : Size(n) \in Nat
    BY <1>6, SizesGrow DEF Size
<1>8. \A n : Size(n)' = Size(n)
    BY <1>1 DEF Size
<1>9. CASE Len(out) < Len(ids)
    <2>1. /\ next \in 1 .. Len(ids) /\ next - 1 = Len(out)
          /\ ids[next] \in IdsFor(codec)
          /\ Begins(s, Wire(ids[next]))
        BY <1>1, <1>9, AtTheNext
    <2>2. ReadId(s) = ids[next] /\ Taken(s) = Len(Wire(ids[next]))
        BY <1>1, <1>4, <2>1, HeadIsRead DEF TypesInv
    <2>3. Size(next) = Size(next - 1) + Len(Wire(ids[next]))
        BY <1>6, <2>1, SizesGrow DEF Size
    <2>4. pos' = Size(next)
        BY <1>1, <1>9, <2>1, <2>2, <2>3 DEF ReadInv
    <2> HIDE DEF s
    <2>5. Len(out') = next /\ Len(out') <= Len(ids)
        BY <1>3, <2>1
    <2>6. \A i \in 1 .. Len(out') : i <= Len(ids) => out'[i] = ids[i]
        BY <1>2, <1>3, <2>1, <2>2 DEF ReadInv
    <2>7. ~(Len(out') > Len(ids))
        BY <1>2, <2>1, <2>5
    <2>8. pos' = Size(Len(out'))
        BY <2>4, <2>5
    <2> HIDE DEF next
    <2> QED
        BY <1>1, <2>6, <2>7, <2>8 DEF ReadInv, Size
<1>10. CASE Len(out) >= Len(ids)
    <2> HIDE DEF s
    <2>1. pos >= Size(Len(ids)) /\ Size(Len(ids)) \in Nat
        <3>1. Len(ids) \in 0 .. Len(ids)
            BY <1>2
        <3>2. CASE Len(out) = Len(ids)
            BY <3>1, <3>2, <1>2, <1>7 DEF ReadInv
        <3>3. CASE Len(out) > Len(ids)
            BY <3>1, <3>3, <1>2, <1>7 DEF ReadInv
        <3> QED
            BY <3>2, <3>3, <1>2, <1>10
    <2>2. pos' > Size(Len(ids))
        BY <1>1, <1>2, <1>5, <2>1
    <2>3. Len(out') > Len(ids) /\ ~(Len(out') <= Len(ids))
        BY <1>2, <1>3, <1>10
    <2>4. \A i \in 1 .. Len(out') : i <= Len(ids) => out'[i] = ids[i]
        <3> SUFFICES ASSUME NEW i \in 1 .. Len(out'), i <= Len(ids)
                     PROVE  out'[i] = ids[i]
            OBVIOUS
        <3>1. i \in 1 .. Len(out)
            BY <1>2, <1>3, <1>10
        <3> QED
            BY <3>1, <1>3 DEF ReadInv
    <2> QED
        BY <1>1, <2>2, <2>3, <2>4 DEF ReadInv, Size
<1> QED
    BY <1>2, <1>9, <1>10

\* The other steps leave the reader where it is.
LEMMA ReadStep ==
    ASSUME TypesInv, WrittenInv, ReadInv, [Next]_vars
    PROVE  ReadInv'
<1>1. CASE Write \/ Deliver
    <2>1. /\ phase = "writing" /\ phase' \in {"writing", "checking"}
          /\ UNCHANGED <<pos, out>>
        BY <1>1 DEF Write, Deliver
    <2>2. pos = 0 /\ out = <<>>
        BY <2>1 DEF TypesInv
    <2>3. TypesInv'
        BY TypesStep
    <2>4. ids' \in Seq(AllIds)
        <3>1. codec' \in Codecs /\ ids' \in Seq(IdsFor(codec'))
            BY <2>3 DEF TypesInv
        <3> QED
            BY <3>1, IdsAreIds, SeqMonotonic
    <2>5. Sizes(ids')[0] = 0 /\ Len(ids') \in Nat
        BY <2>4, SizesGrow, LenProperties
    <2>6. Len(out') = 0 /\ pos' = 0
        BY <2>1, <2>2
    <2>7. pos' = Sizes(ids')[Len(out')] /\ ~(Len(out') > Len(ids'))
        BY <2>5, <2>6
    <2>8. \A i \in 1 .. Len(out') : FALSE
        BY <2>6
    <2> QED
        BY <2>1, <2>7, <2>8 DEF ReadInv, Size
<1>2. CASE ReadOne
    BY <1>2, ReadOneStep
<1>3. CASE ReadThrows
    BY <1>3 DEF ReadThrows, ReadInv, Size, Throws, From, GoesToV6, IsFull
<1>4. CASE ReadEnds
    BY <1>4 DEF ReadEnds, ReadInv, Size
<1>5. CASE UNCHANGED <<codec, ids, bytes, pos, out>> /\ phase' \in {phase, "checking", "reading"}
    BY <1>5 DEF ReadInv, Size, Throws, From, GoesToV6, IsFull
<1> QED
    BY <1>1, <1>2, <1>3, <1>4, <1>5 DEF Next, CheckOne, CheckEnds, Rest, vars

\* The verdict is given once, where the checker stops.
LEMMA VerdictStep ==
    ASSUME VerdictInv, [Next]_vars
    PROVE  VerdictInv'
<1>1. CASE phase' \in {"writing", "checking"}
    BY <1>1 DEF VerdictInv
<1>2. CASE CheckEnds
    BY <1>2 DEF CheckEnds, VerdictInv, From
<1>3. CASE /\ UNCHANGED <<bytes, checked, valid>>
           /\ phase \in {"reading", "done", "thrown"}
    BY <1>3 DEF VerdictInv, From
<1>4. CASE UNCHANGED <<bytes, checked, valid, phase>>
    BY <1>4 DEF VerdictInv, From
<1> QED
    BY <1>1, <1>2, <1>3, <1>4
       DEF Next, Write, Deliver, CheckOne, ReadOne, ReadThrows, ReadEnds, Rest, vars

\* A walk may be of no step.
LEMMA WalkStarts ==
    ASSUME NEW b \in Seq(Bytes)
    PROVE  Reached(b, 0)
<1> DEFINE f == [i \in 0 .. 0 |-> 0]
<1>1. Len(b) \in Nat
    BY LenProperties
<1>2. Walk(f, 0, b) /\ f[0] = 0
    BY <1>1 DEF Walk
<1> QED
    BY <1>2 DEF Reached

\* A walk goes on over a head that is good.
LEMMA WalkGoesOn ==
    ASSUME NEW b \in Seq(Bytes), NEW n, Reached(b, n), n # Len(b),
           WellFormedHead(After(b, n)),
           n + CheckedLength(After(b, n)) \in 0 .. Len(b)
    PROVE  Reached(b, n + CheckedLength(After(b, n)))
<1> DEFINE m == n + CheckedLength(After(b, n))
<1>1. PICK f, k : Walk(f, k, b) /\ f[k] = n
    BY DEF Reached
<1> DEFINE g == [i \in 0 .. k + 1 |-> IF i = k + 1 THEN m ELSE f[i]]
<1>2. k \in Nat /\ \A i \in 0 .. k : f[i] \in 0 .. Len(b)
    BY <1>1 DEF Walk
<1>3. m \in 0 .. Len(b)
    OBVIOUS
<1> HIDE DEF m
<1>4. g \in [0 .. k + 1 -> 0 .. Len(b)] /\ g[0] = 0 /\ g[k + 1] = m /\ k + 1 \in Nat
    BY <1>1, <1>2, <1>3 DEF Walk
<1>5. ASSUME NEW i \in 1 .. k + 1
      PROVE  /\ g[i - 1] # Len(b)
             /\ WellFormedHead(After(b, g[i - 1]))
             /\ g[i] = g[i - 1] + CheckedLength(After(b, g[i - 1]))
    <2>1. CASE i = k + 1
        <3>1. g[i - 1] = n /\ g[i] = m
            BY <2>1, <1>1, <1>2
        <3> QED
            BY <3>1 DEF m
    <2>2. CASE i # k + 1
        <3>1. i \in 1 .. k /\ g[i - 1] = f[i - 1] /\ g[i] = f[i]
            BY <2>2, <1>2
        <3> QED
            BY <3>1, <1>1 DEF Walk
    <2> QED
        BY <2>1, <2>2
<1> HIDE DEF g
<1>6. Walk(g, k + 1, b) /\ g[k + 1] = m
    BY <1>4, <1>5 DEF Walk
<1> QED
    BY <1>6 DEF Reached, m

\* A walk has nothing to go on over at n.
Stuck(b, n) == n = Len(b) \/ ~WellFormedHead(After(b, n))

\* A walk is part of every walk that is stuck.
LEMMA WalkWithin ==
    ASSUME NEW b, NEW f, NEW k, NEW g, NEW j,
           Walk(f, k, b), Walk(g, j, b), Stuck(b, g[j])
    PROVE  k <= j /\ f[k] = g[k]
<1> DEFINE T == { i \in 0 .. k : i <= j /\ f[i] = g[i] }
<1>1. k \in Nat /\ j \in Nat
    BY DEF Walk
<1>2. 0 \in T
    BY <1>1 DEF Walk
<1>3. ASSUME NEW i \in 0 .. k - 1, i \in T
      PROVE  i + 1 \in T
    <2>1. i + 1 \in 1 .. k /\ i + 1 - 1 = i
        BY <1>1
    <2>2. /\ f[i] # Len(b)
          /\ WellFormedHead(After(b, f[i]))
          /\ f[i + 1] = f[i] + CheckedLength(After(b, f[i]))
        BY <2>1 DEF Walk
    <2>3. i # j
        BY <1>3, <2>2 DEF Stuck
    <2>4. i + 1 \in 1 .. j
        BY <1>1, <1>3, <2>3
    <2>5. g[i + 1] = g[i] + CheckedLength(After(b, g[i]))
        BY <2>1, <2>4 DEF Walk
    <2> QED
        BY <1>1, <1>3, <2>1, <2>2, <2>4, <2>5
<1>4. 0 .. k \subseteq T
    <2> HIDE DEF T
    <2> QED
        BY <1>1, <1>2, <1>3, Upwards
<1> QED
    BY <1>1, <1>4

\* There is one place where a walk over a buffer can be stuck.
LEMMA WalksMeet ==
    ASSUME NEW b, NEW m, NEW n, Reached(b, m), Reached(b, n), Stuck(b, m), Stuck(b, n)
    PROVE  m = n
<1>1. PICK f, k : Walk(f, k, b) /\ f[k] = m
    BY DEF Reached
<1>2. PICK g, j : Walk(g, j, b) /\ g[j] = n
    BY DEF Reached
<1>3. k <= j /\ f[k] = g[k] /\ j <= k
    BY <1>1, <1>2, WalkWithin
<1>4. k = j
    BY <1>1, <1>2, <1>3 DEF Walk
<1> QED
    BY <1>1, <1>2, <1>3, <1>4

\* The steps of the checker and those of the reader are steps of one walk.
LEMMA WalkStep ==
    ASSUME TypesInv, WalkInv, [Next]_vars
    PROVE  WalkInv'
<1>1. CASE Write \/ Deliver
    <2>1. phase = "writing" /\ checked' = checked /\ pos' = pos
        BY <1>1 DEF Write, Deliver
    <2>2. checked' = 0 /\ pos' = 0
        BY <2>1 DEF TypesInv
    <2>3. bytes' \in Seq(Bytes)
        BY TypesStep DEF TypesInv
    <2> QED
        BY <2>2, <2>3, WalkStarts DEF WalkInv
<1>2. CASE CheckOne
    <2>1. checked + CheckedLength(From(checked)) \in 1 .. Len(bytes)
        BY <1>2, CheckedIsThere DEF CheckOne
    <2>2. Reached(bytes, checked')
        BY <1>2, <2>1, WalkGoesOn DEF CheckOne, TypesInv, WalkInv, From, After
    <2> QED
        BY <1>2, <2>2 DEF CheckOne, WalkInv
<1>3. CASE ReadOne
    <2> DEFINE s == From(pos)
    <2>1. /\ pos # Len(bytes) /\ ~Throws(s) /\ pos' = pos + Taken(s)
          /\ UNCHANGED <<bytes, checked>>
        BY <1>3 DEF ReadOne
    <2>2. s \in Seq(Bytes) /\ s # <<>>
        BY <2>1, AfterIs DEF TypesInv, From, After
    <2>3. WellFormedHead(s) /\ Taken(s) = CheckedLength(s)
        BY <2>1, <2>2, HeadIsChecked DEF TypesInv
    <2>4. pos' \in 1 .. Len(bytes)
        BY <2>1, TakenIsThere
    <2>5. Reached(bytes, pos')
        <3>1. s = After(bytes, pos)
            BY DEF From, After
        <3> HIDE DEF s
        <3>2. pos + CheckedLength(After(bytes, pos)) \in 0 .. Len(bytes)
            BY <2>1, <2>3, <2>4, <3>1
        <3>3. Reached(bytes, pos + CheckedLength(After(bytes, pos)))
            BY <2>1, <2>3, <3>1, <3>2, WalkGoesOn DEF TypesInv, WalkInv
        <3> QED
            BY <2>1, <2>3, <3>1, <3>3
    <2> QED
        BY <2>1, <2>5 DEF WalkInv
<1>4. CASE UNCHANGED <<bytes, checked, pos>>
    BY <1>4 DEF WalkInv
<1> QED
    BY <1>1, <1>2, <1>3, <1>4 DEF Next, CheckEnds, ReadThrows, ReadEnds, Rest, vars

-----------------------------------------------------------------------------
(* What is checked of every list, for every list.                          *)

ListInv == TypesInv /\ WrittenInv /\ ReadInv /\ VerdictInv /\ WalkInv

\* The conjuncts together are inductive.
LEMMA ListInvariant == Spec => []ListInv
<1>1. Init => ListInv
    <2> SUFFICES ASSUME Init
                 PROVE  ListInv
        OBVIOUS
    <2>1. /\ codec \in Codecs /\ ids = <<>> /\ bytes = <<>> /\ checked = 0 /\ valid = TRUE
          /\ pos = 0 /\ out = <<>> /\ phase = "writing"
        BY DEF Init
    <2>2. TypesInv
        BY <2>1 DEF TypesInv, Phases
    <2>3. Sizes(ids)[0] = 0 /\ Len(ids) = 0 /\ Len(bytes) = 0 /\ Len(out) = 0
        <3>1. ids \in Seq(AllIds)
            BY <2>1
        <3> QED
            BY <2>1, <3>1, SizesGrow
    <2>4. WrittenInv
        BY <2>1, <2>3 DEF WrittenInv, Size
    <2>5. ReadInv
        BY <2>1, <2>3 DEF ReadInv, Size
    <2>6. VerdictInv
        BY <2>1 DEF VerdictInv
    <2>7. WalkInv
        BY <2>1, <2>2, WalkStarts DEF WalkInv, TypesInv
    <2> QED
        BY <2>2, <2>4, <2>5, <2>6, <2>7 DEF ListInv
<1>2. ListInv /\ [Next]_vars => ListInv'
    BY TypesStep, WrittenStep, ReadStep, VerdictStep, WalkStep DEF ListInv
<1> QED
    BY <1>1, <1>2, PTL DEF Spec

\* Neither the checker nor the reader runs past the end of the buffer.
THEOREM ListTypes == Spec => []TypeOK
<1>1. ASSUME ListInv
      PROVE  TypeOK
    <2>1. TypesInv
        BY <1>1 DEF ListInv
    <2>2. \A i \in 1 .. Len(ids) : ids[i].version \in {codec, 4}
        BY <2>1, ElementOfSeq, IdsAreIds DEF TypesInv
    <2>3. \A i \in 1 .. Len(bytes) : bytes[i] \in Bytes
        BY <2>1, ElementOfSeq DEF TypesInv
    <2> QED
        BY <2>1, <2>2, <2>3 DEF TypesInv, TypeOK
<1> QED
    BY <1>1, ListInvariant, PTL

\* Cut or followed by junk, a list gives the ids that were written, in order.
THEOREM ReadsWhatWasWrittenHolds == Spec => []ReadsWhatWasWritten
<1>1. ASSUME ListInv
      PROVE  ReadsWhatWasWritten
    <2>1. ASSUME Len(out) > Len(ids)
          PROVE  JunkFollows
        <3>1. pos > Size(Len(ids)) /\ pos \in 0 .. Len(bytes)
            BY <1>1, <2>1 DEF ListInv, ReadInv, TypesInv
        <3>2. Size(Len(ids)) \in Nat /\ Len(bytes) \in Nat /\ Len(ids) \in Nat
            <4>1. ids \in Seq(AllIds) /\ Len(ids) \in Nat /\ Len(bytes) \in Nat
                BY <1>1, IdsAreIds, SeqMonotonic, LenProperties DEF ListInv, TypesInv
            <4> QED
                BY <4>1, SizesGrow DEF Size
        <3>3. phase # "writing"
            <4>1. out # <<>>
                BY <2>1, <3>2
            <4> QED
                BY <4>1, <1>1 DEF ListInv, TypesInv
        <3> QED
            BY <3>1, <3>2, <3>3 DEF JunkFollows
    <2> QED
        BY <1>1, <2>1 DEF ListInv, ReadInv, ReadsWhatWasWritten
<1> QED
    BY <1>1, ListInvariant, PTL

\* A reader that stops has delivered every id that is whole, and is where the last of
\* them ends.
THEOREM StopsAtTheCutHolds == Spec => []StopsAtTheCut
<1>1. ASSUME ListInv, Over
      PROVE  /\ phase = "done" <=> pos = Len(bytes)
             /\ IF JunkFollows
                THEN Len(out) >= Len(ids) /\ pos >= Size(Len(ids))
                ELSE /\ pos = Size(Len(out))
                     /\ Len(out) < Len(ids) => Len(bytes) < Size(Len(out) + 1)
    <2>1. TypesInv /\ WrittenInv /\ ReadInv
        BY <1>1 DEF ListInv
    <2>2. /\ ids \in Seq(AllIds) /\ Len(ids) \in Nat /\ Len(bytes) \in Nat /\ Len(out) \in Nat
          /\ pos \in 0 .. Len(bytes)
        BY <2>1, IdsAreIds, SeqMonotonic, LenProperties DEF TypesInv
    <2>3. /\ \A n \in 0 .. Len(ids) : Size(n) \in Nat
          /\ \A i \in 1 .. Len(ids) :
                /\ Len(Wire(ids[i])) \in 4 .. 17
                /\ Size(i) = Size(i - 1) + Len(Wire(ids[i]))
          /\ \A n \in 0 .. Len(ids) : Size(n) <= Size(Len(ids))
        BY <2>2, SizesGrow DEF Size
    <2>4. phase = "done" <=> pos = Len(bytes)
        BY <1>1, <2>1 DEF ReadInv, Over
    <2>5. ASSUME Len(out) < Len(ids)
          PROVE  /\ pos = Size(Len(out))
                 /\ Len(bytes) < Size(Len(out) + 1)
                 /\ Size(Len(out) + 1) <= Size(Len(ids))
        <3> DEFINE next == Len(out) + 1
        <3>1. next \in 1 .. Len(ids) /\ next - 1 = Len(out)
            BY <2>2, <2>5
        <3>2. pos = Size(Len(out))
            BY <2>1, <2>2, <2>5 DEF ReadInv
        <3>3. /\ Size(next) = pos + Len(Wire(ids[next]))
              /\ Len(Wire(ids[next])) \in 4 .. 17
              /\ Size(next) <= Size(Len(ids))
            BY <2>3, <3>1, <3>2
        <3>4. CASE pos = Len(bytes)
            <4>1. Len(bytes) < Size(next)
                <5> HIDE DEF next
                <5>1. \A m \in Nat, n \in 4 .. 17 : m < m + n
                    OBVIOUS
                <5> QED
                    BY <2>2, <3>3, <3>4, <5>1, Zenon
            <4> QED
                BY <3>2, <3>3, <4>1
        <3>5. CASE pos # Len(bytes)
            <4> DEFINE s == From(pos)
            <4>1. phase = "thrown" /\ Throws(s)
                BY <1>1, <2>1, <2>4, <3>5 DEF Over, ReadInv
            <4>2. /\ ids[next] \in IdsFor(codec)
                  /\ s \in Seq(Bytes) /\ s # <<>> /\ Len(s) = Len(bytes) - pos
                  /\ Begins(s, Wire(ids[next]))
                BY <2>1, <2>5, <3>5, AtTheNext
            <4>3. Len(s) < Len(Wire(ids[next]))
                BY <2>1, <4>1, <4>2, HeadIsRead DEF TypesInv
            <4> HIDE DEF s, next
            <4>4. Len(bytes) < Size(next)
                BY <2>2, <3>3, <4>2, <4>3
            <4> QED
                BY <3>2, <3>3, <4>4 DEF next
        <3> QED
            BY <3>4, <3>5
    <2>6. CASE JunkFollows
        <3>1. Len(bytes) > Size(Len(ids))
            BY <2>6 DEF JunkFollows
        <3>2. Len(out) >= Len(ids)
            <4> SUFFICES ASSUME Len(out) < Len(ids)
                         PROVE  FALSE
                BY <2>2
            <4>1. /\ Len(bytes) < Size(Len(out) + 1)
                  /\ Size(Len(out) + 1) <= Size(Len(ids))
                  /\ Len(out) + 1 \in 0 .. Len(ids) /\ Len(ids) \in 0 .. Len(ids)
                BY <2>2, <2>5
            <4>2. Size(Len(out) + 1) \in Nat /\ Size(Len(ids)) \in Nat
                BY <2>3, <4>1
            <4> QED
                BY <2>2, <3>1, <4>1, <4>2
        <3>3. pos >= Size(Len(ids))
            <4>1. Size(Len(ids)) \in Nat
                BY <2>2, <2>3
            <4>2. CASE Len(out) = Len(ids)
                BY <2>1, <2>2, <4>1, <4>2 DEF ReadInv
            <4>3. CASE Len(out) > Len(ids)
                BY <2>1, <2>2, <4>1, <4>3 DEF ReadInv
            <4> QED
                BY <2>2, <3>2, <4>2, <4>3
        <3> QED
            BY <2>4, <2>6, <3>2, <3>3
    <2>7. CASE ~JunkFollows
        <3>1. ~(Len(bytes) > Size(Len(ids)))
            BY <1>1, <2>7 DEF JunkFollows, Over
        <3>2. Len(out) <= Len(ids)
            <4> SUFFICES ASSUME Len(out) > Len(ids)
                         PROVE  FALSE
                BY <2>2
            <4>1. pos > Size(Len(ids)) /\ Size(Len(ids)) \in Nat
                BY <2>1, <2>2, <2>3 DEF ReadInv
            <4> QED
                BY <2>2, <3>1, <4>1
        <3>3. pos = Size(Len(out))
            BY <2>1, <3>2 DEF ReadInv
        <3> QED
            BY <2>4, <2>5, <2>7, <3>3
    <2> QED
        BY <2>6, <2>7
<1>2. ASSUME ListInv
      PROVE  StopsAtTheCut
    BY <1>1, <1>2 DEF StopsAtTheCut
<1> QED
    BY <1>2, ListInvariant, PTL

\* The two readings of the length rule agree on every buffer.
THEOREM CheckerAgreesHolds == Spec => []CheckerAgrees
<1>1. ASSUME ListInv, Over
      PROVE  (valid <=> phase = "done") /\ checked = pos
    <2>1. TypesInv /\ ReadInv /\ VerdictInv /\ WalkInv
        BY <1>1 DEF ListInv
    <2>2. Stuck(bytes, checked)
        BY <1>1, <2>1 DEF VerdictInv, Over, Stuck, From, After
    <2>3. Stuck(bytes, pos)
        <3>1. CASE phase = "done"
            BY <2>1, <3>1 DEF ReadInv, Stuck
        <3>2. CASE phase = "thrown"
            <4> DEFINE s == From(pos)
            <4>1. pos # Len(bytes) /\ Throws(s)
                BY <2>1, <3>2 DEF ReadInv
            <4>2. s \in Seq(Bytes) /\ s # <<>>
                BY <2>1, <4>1, AfterIs DEF TypesInv, From, After
            <4>3. ~WellFormedHead(s)
                BY <2>1, <4>1, <4>2, HeadIsChecked DEF TypesInv
            <4> QED
                BY <4>3 DEF Stuck, From, After
        <3> QED
            BY <1>1, <3>1, <3>2 DEF Over
    <2>4. checked = pos
        BY <2>1, <2>2, <2>3, WalksMeet DEF WalkInv
    <2>5. phase = "done" <=> pos = Len(bytes)
        BY <1>1, <2>1 DEF ReadInv, Over
    <2>6. valid = (checked = Len(bytes))
        BY <1>1, <2>1 DEF VerdictInv, Over
    <2> QED
        BY <2>4, <2>5, <2>6
<1>2. ASSUME ListInv
      PROVE  CheckerAgrees
    BY <1>1, <1>2 DEF CheckerAgrees
<1> QED
    BY <1>2, ListInvariant, PTL

\* No reader that does not throw has looked past the end of the table.
THEOREM LooksUpKnownHolds == Spec => []LooksUpKnown
<1>1. ASSUME ListInv
      PROVE  LooksUpKnown
    <2>1. codec \in Codecs /\ From(pos) \in Seq(Bytes)
        BY <1>1, AfterIs DEF ListInv, TypesInv, From, After
    <2> QED
        BY <2>1, HeadIsChecked DEF LooksUpKnown
<1> QED
    BY <1>1, ListInvariant, PTL
=============================================================================
