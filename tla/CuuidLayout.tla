---------------------------- MODULE CuuidLayout ----------------------------
(***************************************************************************)
(* The 16 bytes of a UUID object and its text: where v1 and v6 put a time, *)
(* a clock sequence and a node, which neighbours share a byte with them,   *)
(* and the 36 characters they are printed to and parsed from.              *)
(*                                                                         *)
(* A UUID is a sequence of 32 digits, two to a byte; a digit has BASE      *)
(* values, 16 in the code.  Every shift and mask of the code falls between *)
(* two digits, except in byte 8, whose high digit holds the variant (its   *)
(* high half) and the top of the clock sequence.  Digits truncates a wider *)
(* number as those masks do.  A module without variables.                  *)
(***************************************************************************)
EXTENDS Integers, SequencesExt

CONSTANTS
    BASE,           \* values of a digit
    VARIANTS,       \* values of the variant's part of a digit, 4 in the code
    V1, V6          \* the digits of versions 1 and 6

CLOCK_TOP == BASE \div VARIANTS     \* values of the clock's part of that digit

RFC == VARIANTS \div 2              \* the variant 10 of RFC 4122, 0x80 in its byte

ASSUME LayoutAssumption ==
    /\ BASE \in Nat \ {0} /\ VARIANTS \in Nat \ {0}
    /\ BASE % 2 = 0 /\ VARIANTS % 2 = 0 /\ BASE % VARIANTS = 0
    /\ {V1, V6} \subseteq 1 .. BASE - 1 /\ V1 # V6

TIME_DIGITS == 15
NODE_DIGITS == 12

Digit == 0 .. BASE - 1

UUIDs == [1 .. 32 -> Digit]

\* What a digit with k others behind it counts.
Power[k \in 0 .. 16] == IF k = 0 THEN 1 ELSE Power[k - 1] * BASE

\* The low k digits of a number, most significant first, and back.
Digits(n, k) == [i \in 1 .. k |-> (n \div Power[k - i]) % BASE]

Value(digits) ==
    LET value[k \in 0 .. Len(digits)] ==
            IF k = 0 THEN 0 ELSE value[k - 1] * BASE + digits[k]
    IN  value[Len(digits)]

Empty == [i \in 1 .. 32 |-> 0] \o <<>>

-----------------------------------------------------------------------------
(***************************************************************************)
(* The v1 getters and setters: time_low (4 bytes), time_mid (2), version   *)
(* and time_hi (2), variant and clock sequence (2), node (6).              *)
(***************************************************************************)
uuid1_time(u) == Value(SubSeq(u, 14, 16) \o SubSeq(u, 9, 12) \o SubSeq(u, 1, 8))
uuid1_clock_seq(u) == Value(<<u[17] % CLOCK_TOP>> \o SubSeq(u, 18, 20))
uuid1_node(u) == Value(SubSeq(u, 21, 32))
uuid_variant(u) == u[17] \div CLOCK_TOP
uuid_version(u) == u[13]

\* The middle of v1's order: the version shares its byte with the high digit.
TimeFirstLow(time, version) ==
    LET d == Digits(time, TIME_DIGITS)
    IN  SubSeq(d, 8, 15) \o SubSeq(d, 4, 7) \o <<version>> \o SubSeq(d, 1, 3)

SetTime(u, time) == TimeFirstLow(time, u[13]) \o SubSeq(u, 17, 32)

SetNode(u, node) == SubSeq(u, 1, 20) \o Digits(node, NODE_DIGITS)

\* Mutant: the top of a wider clock runs into the variant.
VariantAndClockUnmasked(variant, clock) ==
    <<variant * CLOCK_TOP + (clock \div Power[3])>> \o Digits(clock, 3)

VariantAndClock(variant, clock) ==
    <<variant * CLOCK_TOP + ((clock \div Power[3]) % CLOCK_TOP)>> \o Digits(clock, 3)

SetClockSeq(u, clock) ==
    SubSeq(u, 1, 16) \o VariantAndClock(u[17] \div CLOCK_TOP, clock) \o SubSeq(u, 21, 32)

\* Mutant: the top of the clock sequence is not put back.
SetVariantOverClock(u, high) ==
    [u EXCEPT ![17] = (high \div CLOCK_TOP) * CLOCK_TOP]

\* Takes a byte, of which high is the high digit, and keeps the variant's bits.
SetVariant(u, high) ==
    [u EXCEPT ![17] = (high \div CLOCK_TOP) * CLOCK_TOP + (u[17] % CLOCK_TOP)]

SetVersion(u, version) == [u EXCEPT ![13] = version % BASE]

\* The constructor that takes bytes in little-endian order.
Byte(u, i) == SubSeq(u, 2 * i + 1, 2 * i + 2)

FromBytes(u, little_endian) ==
    IF little_endian
    THEN Byte(u, 3) \o Byte(u, 2) \o Byte(u, 1) \o Byte(u, 0) \o Byte(u, 5)
            \o Byte(u, 4) \o Byte(u, 7) \o Byte(u, 6) \o SubSeq(u, 17, 32)
    ELSE u

\* Mutant: the clock sequence is written first, and the node over it.
CondensedLayoutNodeLast(time, clock, node) ==
    TimeFirstLow(time, V1) \o Digits(node, 16)

\* unserialise_condensed lays the fields out itself: the node over the last
\* eight bytes, then variant and clock over the first two of them.
CondensedLayout(time, clock, node) ==
    LET u == TimeFirstLow(time, V1) \o Digits(node, 16)
    IN  SubSeq(u, 1, 16)
            \o <<RFC * CLOCK_TOP + (clock \div Power[3])>> \o Digits(clock, 3)
            \o SubSeq(u, 21, 32)

-----------------------------------------------------------------------------
(***************************************************************************)
(* The v6 order: the time high digits first, around the version.           *)
(***************************************************************************)
\* Mutant: the time in v1's order.
ToV6BytesLowFirst(time, clock, node) ==
    TimeFirstLow(time, V6) \o VariantAndClock(RFC, clock) \o Digits(node, NODE_DIGITS)

to_v6_bytes(time, clock, node) ==
    LET d == Digits(time, TIME_DIGITS)
    IN  SubSeq(d, 1, 12) \o <<V6>> \o SubSeq(d, 13, 15)
            \o VariantAndClock(RFC, clock) \o Digits(node, NODE_DIGITS)

from_v6_bytes(u) ==
    [time  |-> Value(SubSeq(u, 1, 12) \o SubSeq(u, 14, 16)),
     clock |-> uuid1_clock_seq(u),
     node  |-> uuid1_node(u)]

-----------------------------------------------------------------------------
(***************************************************************************)
(* The text.  A character is a digit in lower case, one in upper case, a   *)
(* dash, or any other.                                                     *)
(***************************************************************************)
DASH == -1
OTHER_CHAR == -2

Upper(d) == BASE + d

Chars == 0 .. 2 * BASE - 1 \cup {DASH, OTHER_CHAR}

UUID_LENGTH == 36

\* chars::hexdigit: the value of a character, or one no digit has.
hexdigit(c) == IF c \in 0 .. 2 * BASE - 1 THEN c % BASE ELSE BASE

\* chars::hexdec: two digits, or -1.
hexdec(high, low) ==
    IF hexdigit(high) < BASE /\ hexdigit(low) < BASE
    THEN hexdigit(high) * BASE + hexdigit(low)
    ELSE -1

\* Bytes 4, 6, 8 and 10 begin a group; PairAt is where a byte's two characters are.
GroupStarts == {4, 6, 8, 10}

PairAt(i) == 2 * i + 1 + Cardinality({ g \in GroupStarts : g <= i })

\* Mutant: two groups change places.
ToStringClockFirst(u) ==
    SubSeq(u, 1, 8) \o <<DASH>> \o SubSeq(u, 13, 16) \o <<DASH>> \o SubSeq(u, 9, 12)
        \o <<DASH>> \o SubSeq(u, 17, 20) \o <<DASH>> \o SubSeq(u, 21, 32)

to_string(u) ==
    SubSeq(u, 1, 8) \o <<DASH>> \o SubSeq(u, 9, 12) \o <<DASH>> \o SubSeq(u, 13, 16)
        \o <<DASH>> \o SubSeq(u, 17, 20) \o <<DASH>> \o SubSeq(u, 21, 32)

\* uuid_to_bytes: whether it takes a text, or throws, and what it takes it for.
Parses(s) ==
    /\ Len(s) = UUID_LENGTH
    /\ \A i \in 0 .. 15 : hexdec(s[PairAt(i)], s[PairAt(i) + 1]) >= 0
    /\ \A g \in GroupStarts : s[PairAt(g) - 1] = DASH

Parsed(s) ==
    LET byte(i) == hexdec(s[PairAt(i)], s[PairAt(i) + 1])
    IN  [n \in 1 .. 32 |-> IF n % 2 = 1 THEN byte(n \div 2) \div BASE
                           ELSE byte((n \div 2) - 1) % BASE] \o <<>>

\* is_valid, which spells the same format out character by character.
HexRuns == (1 .. 8) \cup (10 .. 13) \cup (15 .. 18) \cup (20 .. 23) \cup (25 .. 36)

\* Mutant: text may follow.
IsValidPrefix(s) ==
    /\ Len(s) >= UUID_LENGTH
    /\ \A i \in HexRuns : hexdigit(s[i]) < BASE
    /\ \A i \in {9, 14, 19, 24} : s[i] = DASH

is_valid(s) ==
    /\ Len(s) = UUID_LENGTH
    /\ \A i \in HexRuns : hexdigit(s[i]) < BASE
    /\ \A i \in {9, 14, 19, 24} : s[i] = DASH
=============================================================================
