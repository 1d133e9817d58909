---------------------------- MODULE CuuidStream ----------------------------
(***************************************************************************)
(* A list of ids packed back to back: cuuid::serialise appends one, a part *)
(* of the bytes reaches the reader, UUID::is_serialised checks them, and   *)
(* the list form of cuuid::unserialise reads them id by id, stopping at    *)
(* the first it throws on.                                                 *)
(*                                                                         *)
(* The version nibble chooses the form on the way out; on the way in the   *)
(* running codec does, for the condensed wire carries no version.  An id   *)
(* is its version and its 16-byte payload (of a full id, its raw bytes).   *)
(***************************************************************************)
EXTENDS CuuidFrame

CONSTANTS
    Payloads,       \* payloads of condensed ids
    Raws,           \* raw bytes of other ids
    Junk,           \* bytes that may follow a list and are no part of it
    MaxIds          \* bound on the length of a list, for TLC

Versions == {1, 4, 6}       \* 4 stands for every version but 1 and 6
Codecs == {1, 6}            \* Codec::v1, Codec::v6

\* What condense can fill the two words with: 59 bits above 64, of which a
\* compact content, told by the lowest bit, uses 18 bits above 64.
IsCompact(w) == w[PAYLOAD] % 2 = 1

PayloadOK(w) ==
    /\ w \in [1 .. PAYLOAD -> Bytes]
    /\ w[1] < 8
    /\ IsCompact(w) => w[6] < 4 /\ \A i \in 1 .. 5 : w[i] = 0

ASSUME StreamAssumption ==
    /\ \A w \in Payloads : PayloadOK(w)
    /\ Raws \subseteq [1 .. PAYLOAD -> Bytes]
    /\ Junk \subseteq Seq(Bytes)
    /\ MaxIds \in Nat

VARIABLES
    codec,          \* the running codec
    ids,            \* the ids written
    bytes,          \* the bytes they were packed into, then those delivered
    checked,        \* bytes is_serialised has gone past
    valid,          \* its verdict so far
    pos,            \* bytes the reader has gone past
    out,            \* ids it has delivered
    phase           \* who is at work

vars == <<codec, ids, bytes, checked, valid, pos, out, phase>>

Phases == {"writing", "checking", "reading", "done", "thrown"}

\* Wires of the other codec are not for this reader ("Not for: wires of mixed
\* codecs", README.md:82).
IdsFor(c) ==
    [version : {c}, payload : Payloads] \cup [version : {4}, payload : Raws]

Init ==
    /\ codec \in Codecs
    /\ ids = <<>>
    /\ bytes = <<>>
    /\ checked = 0
    /\ valid = TRUE
    /\ pos = 0
    /\ out = <<>>
    /\ phase = "writing"

-----------------------------------------------------------------------------
\* cuuid::serialise, over UUID::serialise and cuuid_v6::serialise.
Wire(id) == IF id.version \in {1, 6} THEN Frame(id.payload) ELSE FullFrame(id.payload)

Write ==
    /\ phase = "writing"
    /\ Len(ids) < MaxIds
    /\ \E id \in IdsFor(codec) :
        /\ ids' = Append(ids, id)
        /\ bytes' = bytes \o Wire(id)
    /\ UNCHANGED <<codec, checked, valid, pos, out, phase>>

\* The reader may get only the beginning, or more than was written.
Deliver ==
    /\ phase = "writing"
    /\ \/ \E n \in 0 .. Len(bytes) : bytes' = SubSeq(bytes, 1, n)
       \/ \E j \in Junk : bytes' = bytes \o j
    /\ phase' = "checking"
    /\ UNCHANGED <<codec, ids, checked, valid, pos, out>>

From(n) == SubSeq(bytes, n + 1, Len(bytes))

-----------------------------------------------------------------------------
(***************************************************************************)
(* UUID::is_serialised.                                                    *)
(***************************************************************************)
\* Mutant: the pointer stays.
CheckInPlace ==
    /\ phase = "checking"
    /\ checked # Len(bytes)
    /\ WellFormedHead(From(checked))
    /\ UNCHANGED vars

CheckOne ==
    /\ phase = "checking"
    /\ checked # Len(bytes)
    /\ WellFormedHead(From(checked))
    /\ checked' = checked + CheckedLength(From(checked))
    /\ UNCHANGED <<codec, ids, bytes, valid, pos, out, phase>>

CheckEnds ==
    /\ phase = "checking"
    /\ valid' = (checked = Len(bytes))
    /\ checked # Len(bytes) => ~WellFormedHead(From(checked))
    /\ phase' = "reading"
    /\ UNCHANGED <<codec, ids, bytes, checked, pos, out>>

-----------------------------------------------------------------------------
(***************************************************************************)
(* cuuid::unserialise of one id, over UUID::unserialise and                *)
(* cuuid_v6::unserialise: whether it throws on s, what it reads, and the   *)
(* bytes it goes past.                                                     *)
(***************************************************************************)
GoesToV6(s) == codec = 6 /\ s # <<>> /\ s[1] # FULL_LEAD

IsFull(s) == ~GoesToV6(s) /\ s[1] = FULL_LEAD

Throws(s) ==
    IF GoesToV6(s) THEN BadWire(s)
    ELSE IF Len(s) < 2 THEN TRUE
    ELSE IF IsFull(s) THEN Len(s) < 1 + PAYLOAD
    ELSE BadWire(s)

\* Mutant: the lead of a full wire is not counted.
TakenRaw(s) == IF IsFull(s) THEN PAYLOAD ELSE WireLength(s)

Taken(s) == IF IsFull(s) THEN 1 + PAYLOAD ELSE WireLength(s)

ReadId(s) ==
    IF IsFull(s)
    THEN [version |-> 4, payload |-> SubSeq(s, 2, 1 + PAYLOAD)]
    ELSE [version |-> IF GoesToV6(s) THEN 6 ELSE 1, payload |-> Unframe(s)]

\* The loop of the list form.
ReadOne ==
    /\ phase = "reading"
    /\ pos # Len(bytes)
    /\ ~Throws(From(pos))
    /\ out' = Append(out, ReadId(From(pos)))
    /\ pos' = pos + Taken(From(pos))
    /\ UNCHANGED <<codec, ids, bytes, checked, valid, phase>>

ReadThrows ==
    /\ phase = "reading"
    /\ pos # Len(bytes)
    /\ Throws(From(pos))
    /\ phase' = "thrown"
    /\ UNCHANGED <<codec, ids, bytes, checked, valid, pos, out>>

ReadEnds ==
    /\ phase = "reading"
    /\ pos = Len(bytes)
    /\ phase' = "done"
    /\ UNCHANGED <<codec, ids, bytes, checked, valid, pos, out>>

Over == phase \in {"done", "thrown"}

Rest == Over /\ UNCHANGED vars

Next ==
    \/ Write
    \/ Deliver
    \/ CheckOne
    \/ CheckEnds
    \/ ReadOne
    \/ ReadThrows
    \/ ReadEnds
    \/ Rest

Spec == Init /\ [][Next]_vars

\* A call, once made, runs; nobody has to write a list or to deliver it.
FairSpec == Spec /\ WF_vars(CheckOne \/ CheckEnds \/ ReadOne \/ ReadThrows \/ ReadEnds)

-----------------------------------------------------------------------------
\* Buffers hold bytes, and neither reader nor checker runs past the end.
TypeOK ==
    /\ codec \in Codecs
    /\ \A i \in 1 .. Len(ids) : ids[i].version \in {codec, 4}
    /\ \A i \in 1 .. Len(bytes) : bytes[i] \in Bytes
    /\ checked \in 0 .. Len(bytes)
    /\ valid \in BOOLEAN
    /\ pos \in 0 .. Len(bytes)
    /\ phase \in Phases

\* The bytes the first n ids of a list take.
Sizes(list) ==
    LET size[n \in 0 .. Len(list)] ==
            IF n = 0 THEN 0 ELSE size[n - 1] + Len(Wire(list[n]))
    IN  size

Size(n) == Sizes(ids)[n]

JunkFollows == phase # "writing" /\ Len(bytes) > Size(Len(ids))

\* What is delivered is what was written, in order: a list cut anywhere never
\* yields an id that was not written, and junk after it spoils none that was.
ReadsWhatWasWritten ==
    /\ Len(out) > Len(ids) => JunkFollows
    /\ \A i \in 1 .. Len(out) : i <= Len(ids) => out[i] = ids[i]

\* When the reader stops, the position it left is the end of the last id it
\* delivered, and what remains is less than the next one: a throw leaves *ptr
\* on the incomplete id, or on the junk, and loses none before it.
StopsAtTheCut ==
    Over =>
        /\ phase = "done" <=> pos = Len(bytes)
        /\ IF JunkFollows
           THEN Len(out) >= Len(ids) /\ pos >= Size(Len(ids))
           ELSE /\ pos = Size(Len(out))
                /\ Len(out) < Len(ids) => Len(bytes) < Size(Len(out) + 1)

\* When no entry of VL matches a lead, the loop of UUIDCondenser::unserialise
\* leaves i at 13, past the table; the size test, made on a length of one more
\* than there is, is all that keeps VL[i] from being read.
LooksUpKnown ==
    LET s == From(pos)
    IN  phase = "reading" /\ s # <<>> /\ ~Throws(s) /\ ~IsFull(s) => Known(s[1])

\* is_serialised and the list reader apply two copies of the length rule and
\* two tests for short input; they agree, under either codec, on whether a
\* buffer is good and on where it goes bad.
CheckerAgrees ==
    Over => (valid <=> phase = "done") /\ checked = pos

\* A condensed wire never starts with 0, which base59 would drop (the test's
\* "base59-safe leading byte", test_v6.cc:52), nor with the lead of the full
\* form, which every reader would take it for.
LeadIsSafe ==
    \A i \in 1 .. Len(ids) :
        ids[i].version # 4 => Wire(ids[i])[1] \notin {0, FULL_LEAD}

\* Whatever follows it, a wire is read back to its own payload and no further:
\* no wire is the beginning of another.
HeadsReadBack ==
    \A i \in 1 .. Len(ids) : ids[i].version # 4 =>
        LET wire == Wire(ids[i])
            last == Wire(ids[Len(ids)])
        IN  /\ Unframe(wire \o last) = ids[i].payload
            /\ WireLength(wire \o last) = Len(wire)
            /\ ~BadWire(wire)

\* The lexicographic order of byte strings, a prefix first.
Before(a, b) ==
    \E k \in 0 .. Len(a) :
        /\ k < Len(b)
        /\ \A i \in 1 .. k : a[i] = b[i]
        /\ k = Len(a) \/ a[k + 1] < b[k + 1]

Condensed(i) == ids[i].version # 4

\* Wires of one length sort as their payloads do.
SortsWithinALength ==
    \A i, j \in 1 .. Len(ids) :
        /\ Condensed(i) /\ Condensed(j)
        /\ Len(Wire(ids[i])) = Len(Wire(ids[j]))
        /\ Before(ids[i].payload, ids[j].payload)
        => Before(Wire(ids[i]), Wire(ids[j]))

\* The top 13 of the 16 bytes of a compact payload hold only time, down to
\* four windows: payloads that differ in them were made at different times.
Earlier(v, w) ==
    /\ IsCompact(v) /\ IsCompact(w)
    /\ Before(SubSeq(v, 1, 13), SubSeq(w, 1, 13))

\* "Sorts by creation time in its condensed form" (README.md:21), of whatever
\* lengths the wires are.
SortsByTime ==
    \A i, j \in 1 .. Len(ids) :
        Condensed(i) /\ Condensed(j) /\ Earlier(ids[i].payload, ids[j].payload)
        => Before(Wire(ids[i]), Wire(ids[j]))

\* Checking and reading a buffer end: every id taken moves the pointer.
ReadingEnds == phase = "checking" ~> Over
=============================================================================
