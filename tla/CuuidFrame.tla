----------------------------- MODULE CuuidFrame -----------------------------
(***************************************************************************)
(* The bytes of a wire.  UUIDCondenser::serialise packs the contents into  *)
(* two 64-bit words (the payload, 16 bytes, most significant first), drops *)
(* the leading zero bytes but never goes below four, and folds the length  *)
(* into the bits left free at the top of the first byte, or into a byte of *)
(* its own when they are not free.  UUIDCondenser::unserialise undoes it;  *)
(* UUID::is_serialised carries a second copy of the length rule.           *)
(*                                                                         *)
(* A payload is a sequence of 16 bytes: what the bits mean is the business *)
(* of CuuidFields.  A module without variables.                            *)
(***************************************************************************)
EXTENDS Integers, Sequences

Bytes == 0 .. 255

PAYLOAD == 16           \* the two packed words
MIN_WIRE == 4           \* "must be at least 4 bytes long"

(***************************************************************************)
(* The table VL: for a wire of n + 4 bytes, the tag of the first byte and  *)
(* the room the mask leaves under it, in the short and the long variant.   *)
(* Every mask is a run of high bits, so that with room = 256 - mask        *)
(*    b & mask = 0   is   b < room                                         *)
(*    b | tag        is   b + tag       (for b < room)                     *)
(*    l & mask       is   l - l % room                                     *)
(***************************************************************************)
Room(shortTag, shortRoom, longTag, longRoom) ==
    [short |-> [tag |-> shortTag, room |-> shortRoom],
     long  |-> [tag |-> longTag, room |-> longRoom]]

VLRows ==
    << Room( 28, 4,  28,  4),
       Room( 24, 4,  24,  4),
       Room( 20, 4,  20,  4),
       Room( 16, 4,  16,  4),
       Room(  4, 4,  64, 64),
       Room( 10, 2, 160, 32),
       Room(  8, 2, 128, 32),
       Room(  2, 1,  32, 16),
       Room(  3, 1,  48, 16),
       Room( 12, 1, 192, 16),
       Room( 13, 1, 208, 16),
       Room( 14, 1, 224, 16),
       Room( 15, 1, 240, 16) >>

VL == [n \in 0 .. 12 |-> VLRows[n + 1]]

(***************************************************************************)
(* Writing.                                                                *)
(***************************************************************************)
Zeros(n) == [i \in 1 .. n |-> 0]

\* The first byte kept: the first that is not zero, or the last four.
FirstKept(w) ==
    CHOOSE i \in 1 .. PAYLOAD - MIN_WIRE + 1 :
        /\ \A j \in 1 .. i - 1 : w[j] = 0
        /\ w[i] # 0 \/ i = PAYLOAD - MIN_WIRE + 1

\* Mutants of the byte of its own: without a tag, with the tag of the length
\* before it was added, with a long tag.
SpillUntagged(w, i, n) == <<0>> \o SubSeq(w, i, PAYLOAD)
SpillShortOfOne(w, i, n) == <<VL[n].short.tag>> \o SubSeq(w, i, PAYLOAD)
SpillLongTag(w, i, n) == <<VL[n + 1].long.tag>> \o SubSeq(w, i, PAYLOAD)

Spill(w, i, n) == <<VL[n + 1].short.tag>> \o SubSeq(w, i, PAYLOAD)

Frame(w) ==
    LET i == FirstKept(w)
        n == PAYLOAD - MIN_WIRE + 1 - i
        Tagged(row) == <<row.tag + w[i]>> \o SubSeq(w, i + 1, PAYLOAD)
    IN  IF w[i] < VL[n].short.room THEN Tagged(VL[n].short)
        ELSE IF w[i] < VL[n].long.room THEN Tagged(VL[n].long)
        ELSE Spill(w, i, n)

\* serialise_full: a lead byte of its own, then the raw bytes.
FULL_LEAD == 1

FullFrame(raw) == <<FULL_LEAD>> \o raw

(***************************************************************************)
(* Reading.  A lead byte with a bit in its high half is looked up in the   *)
(* long variants, else in the short ones; the first entry that matches     *)
(* gives the length, and none makes it one more than there is.             *)
(***************************************************************************)
Variant(n, lead) == IF lead >= 16 THEN VL[n].long ELSE VL[n].short

Matches(n, lead) ==
    lead - (lead % Variant(n, lead).room) = Variant(n, lead).tag

EntryOf(lead) ==
    CHOOSE n \in 0 .. 12 :
        /\ Matches(n, lead)
        /\ \A m \in 0 .. n - 1 : ~Matches(m, lead)

Known(lead) == \E n \in 0 .. 12 : Matches(n, lead)

\* Mutant: an unknown lead takes all there is.
WireLengthAll(s) ==
    IF Known(s[1]) THEN EntryOf(s[1]) + MIN_WIRE ELSE Len(s)

WireLength(s) ==
    IF Known(s[1]) THEN EntryOf(s[1]) + MIN_WIRE ELSE Len(s) + 1

\* Whether unserialise throws instead of reading at the head of s.
BadWire(s) == Len(s) < WireLength(s)

\* Mutant: the tag is not cleared.
UnframeTagged(s) == Zeros(PAYLOAD - WireLength(s)) \o SubSeq(s, 1, WireLength(s))

\* The payload it unpacks from the head of s otherwise.
Unframe(s) ==
    LET n == WireLength(s)
    IN  Zeros(PAYLOAD - n)
            \o <<s[1] % Variant(n - MIN_WIRE, s[1]).room>>
            \o SubSeq(s, 2, n)

\* Mutant: the lead of a full wire is not counted.
CheckedRawLength(s) ==
    IF s[1] = FULL_LEAD THEN PAYLOAD
    ELSE IF Known(s[1]) THEN EntryOf(s[1]) + MIN_WIRE
    ELSE Len(s) + 1

\* The copy of the rule in _is_serialised, which also knows the full form.
CheckedLength(s) ==
    IF s[1] = FULL_LEAD THEN 1 + PAYLOAD
    ELSE IF Known(s[1]) THEN EntryOf(s[1]) + MIN_WIRE
    ELSE Len(s) + 1

\* Mutant: the buffer is not tested to hold the length.
AnyHead(s) == Len(s) >= 2

WellFormedHead(s) == Len(s) >= 2 /\ Len(s) >= CheckedLength(s)
=============================================================================
