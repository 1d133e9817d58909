---------------------------- MODULE CuuidObject ----------------------------
(***************************************************************************)
(* The UUID class over its 16 bytes: setters in any order, crushing, the   *)
(* constructors from bytes, fields and text, printing, and the two codecs  *)
(* as cuuid.hh chooses between them by what the bytes say.  CuuidLayout    *)
(* has the bytes, CuuidFields the arithmetic of the fields.                *)
(*                                                                         *)
(* The fields that should be in the object are kept beside it, as numbers; *)
(* a v6 object keeps its time in another order than a v1 object.           *)
(***************************************************************************)
EXTENDS CuuidLayout

CONSTANTS
    SALT_SIZE, UUID_TIME_INITIAL, ZeroBody, Seeds,
    ClockXor(_, _), Seed(_, _, _), Expand(_, _), LocalSalt(_),
    TimeArgs, ClockArgs, NodeArgs,  \* what setters, from_fields and make
    VariantArgs, VersionArgs,       \* are given: wider than the field, too
    ByteArgs,                       \* what the constructor from bytes is given
    CharArgs,                       \* characters an edit may put in a text
    MaxWrites,                      \* bounds for TLC: on the changes made to
    EditWithin                      \* objects, and on those before an edit,
                                    \* which is the last

TIME_SIZE == Power[TIME_DIGITS]
CLOCK_SIZE == CLOCK_TOP * Power[3]
NODE_SIZE == Power[NODE_DIGITS]

\* The low bit of a node's first byte; a body has neither it nor a salt.
MULTICAST_BIT == Power[NODE_DIGITS - 2]

Bodies == { n \in 0 .. NODE_SIZE - 1 :
                n % SALT_SIZE = 0 /\ (n \div MULTICAST_BIT) % 2 = 0 }

F == INSTANCE CuuidFields WITH WINDOWS <- TIME_SIZE \div CLOCK_SIZE

\* A node as CuuidFields has it; a wide node has a wide body.
NodeParts(n) ==
    LET mc == (n \div MULTICAST_BIT) % 2 = 1
        salt == n % SALT_SIZE
    IN  [mc |-> mc, salt |-> salt,
         body |-> n - salt - IF mc THEN MULTICAST_BIT ELSE 0]

NodeNumber(p) == p.body + p.salt + IF p.mc THEN MULTICAST_BIT ELSE 0

(***************************************************************************)
(* The bits of a salt are below the multicast bit; setters, from_fields    *)
(* and make take unsigned numbers, the constructor from bytes 16 bytes.    *)
(* The salt hashed from a node is masked, however wide the node.           *)
(***************************************************************************)
ASSUME ObjectAssumption ==
    /\ F!WidthAssumption /\ F!XorAssumption
    /\ MULTICAST_BIT % SALT_SIZE = 0
    /\ TimeArgs \cup ClockArgs \cup NodeArgs \cup VersionArgs \subseteq Nat
    /\ \A n \in NodeArgs : LocalSalt(NodeParts(n)) \in F!Salts
    /\ VariantArgs \subseteq Digit /\ ByteArgs \subseteq UUIDs /\ CharArgs \subseteq Chars

VARIABLES
    uuid,       \* the 32 digits of the object in hand
    held,       \* the fields it should have
    layout,     \* where its time stands: "v1" or "v6"
    text,       \* a printed text, edited or not
    writes,     \* changes made so far
    wire,       \* its serialised form, full or condensed
    sent,       \* the object that was serialised
    codec,      \* the codec that read it back
    stage

vars == <<uuid, held, layout, text, writes, wire, sent, codec, stage>>

Stages == {"object", "printed", "parsed", "sent", "read"}

Fields(variant, version, time, clock, node) ==
    [variant |-> variant, version |-> version,
     time |-> time % TIME_SIZE, clock |-> clock % CLOCK_SIZE, node |-> node % NODE_SIZE]

Condensed(content) == [form |-> "condensed", content |-> content]
Full(u) == [form |-> "full", bytes |-> u]

\* What the getters, or from_v6_bytes, read.
Read(u, order) ==
    [variant |-> uuid_variant(u), version |-> uuid_version(u),
     time    |-> IF order = "v6" THEN from_v6_bytes(u).time ELSE uuid1_time(u),
     clock   |-> uuid1_clock_seq(u),
     node    |-> uuid1_node(u)]

Init ==
    /\ uuid = Empty
    /\ held = Fields(0, 0, 0, 0, 0)
    /\ layout = "v1"
    /\ text = <<>>
    /\ writes = 0
    /\ wire = Full(Empty)
    /\ sent = Empty
    /\ codec = "v6"
    /\ stage = "object"

\* The object in hand becomes u; texts and wires of an older one are dropped.
Becomes(u, fields, order) ==
    /\ stage \in {"object", "parsed", "read"}
    /\ writes < MaxWrites
    /\ writes' = writes + 1
    /\ uuid' = u
    /\ held' = fields
    /\ layout' = order
    /\ text' = <<>>
    /\ wire' = Full(Empty)
    /\ sent' = Empty
    /\ codec' = "v6"
    /\ stage' = "object"

-----------------------------------------------------------------------------
(***************************************************************************)
(* The setters of UUID: each keeps its neighbours in the byte.             *)
(***************************************************************************)
PutTime ==
    \E t \in TimeArgs :
        Becomes(SetTime(uuid, t), [held EXCEPT !.time = t % TIME_SIZE], "v1")

PutClockSeq ==
    \E c \in ClockArgs :
        Becomes(SetClockSeq(uuid, c), [held EXCEPT !.clock = c % CLOCK_SIZE], layout)

PutNode ==
    \E n \in NodeArgs :
        Becomes(SetNode(uuid, n), [held EXCEPT !.node = n % NODE_SIZE], layout)

PutVariant ==
    \E d \in VariantArgs :
        Becomes(SetVariant(uuid, d), [held EXCEPT !.variant = d \div CLOCK_TOP], layout)

PutVersion ==
    \E v \in VersionArgs :
        Becomes(SetVersion(uuid, v), [held EXCEPT !.version = v % BASE], layout)

\* crush_fields on the numbers of the fields: a clock is cut by the bit field it is
\* put into, a wide node is hashed as it is.
CrushedFields(c, time, clock, node) ==
    LET f == F!Crush(c, [time |-> time, clock |-> clock % CLOCK_SIZE, node |-> NodeParts(node)])
    IN  [f EXCEPT !.node = NodeNumber(f.node)]

\* Only a version 1 of the RFC variant is crushed: three getters, three setters.
CompactCrush ==
    /\ uuid_variant(uuid) = RFC /\ uuid_version(uuid) = V1
    /\ LET f == CrushedFields("v1", uuid1_time(uuid), uuid1_clock_seq(uuid),
                              uuid1_node(uuid))
           u == SetTime(SetClockSeq(SetNode(uuid, f.node), f.clock), f.time)
       IN  Becomes(u, Fields(RFC, V1, f.time, f.clock, f.node), "v1")

\* from_fields and make of v6, neither of which checks a width.
FromFields ==
    \E t \in TimeArgs, c \in ClockArgs, n \in NodeArgs :
        Becomes(to_v6_bytes(t, c, n), Fields(RFC, V6, t, c, n), "v6")

Make ==
    \E t \in TimeArgs, c \in ClockArgs, n \in NodeArgs :
        LET f == CrushedFields("v6", t, c, n)
        IN  Becomes(to_v6_bytes(f.time, f.clock, f.node),
                    Fields(RFC, V6, f.time, f.clock, f.node), "v6")

\* The number in two bytes, or four, from byte i on, the low byte first.
TwoLowFirst(u, i) == Value(Byte(u, i)) + Power[2] * Value(Byte(u, i + 1))
FourLowFirst(u, i) == TwoLowFirst(u, i) + Power[4] * TwoLowFirst(u, i + 2)

\* The fields of a GUID, of which the first three are numbers with their low
\* byte first.
ReadLowFirst(u) ==
    LET hi == TwoLowFirst(u, 6)
    IN  [variant |-> uuid_variant(u), version |-> hi \div Power[3],
         time    |-> (hi % Power[3]) * Power[12]
                        + TwoLowFirst(u, 4) * Power[8] + FourLowFirst(u, 0),
         clock   |-> uuid1_clock_seq(u),
         node    |-> uuid1_node(u)]

\* The constructor from bytes, in network order or in that of a GUID.
Construct ==
    \E b \in ByteArgs :
        \/ Becomes(FromBytes(b, FALSE), Read(b, "v1"), "v1")
        \/ Becomes(FromBytes(b, TRUE), ReadLowFirst(b), "v1")
-----------------------------------------------------------------------------
(***************************************************************************)
(* Text: an object is printed, somebody writes the text, a constructor      *)
(* parses it or throws.                                                    *)
(***************************************************************************)
PutOut ==
    /\ stage = "object"
    /\ text' = to_string(uuid)
    /\ stage' = "printed"
    /\ UNCHANGED <<uuid, held, layout, writes, wire, sent, codec>>

\* One character is replaced, left out, put in, or changes place with the next.
Edit ==
    /\ stage = "printed" /\ writes <= EditWithin
    /\ \E i \in 1 .. Len(text), c \in CharArgs :
        text' \in {ReplaceAt(text, i, c), RemoveAt(text, i), InsertAt(text, i, c),
                   IF i = Len(text) THEN Append(text, c)
                   ELSE ReplaceAt(ReplaceAt(text, i, text[i + 1]), i + 1, text[i])}
    /\ writes' = MaxWrites
    /\ UNCHANGED <<uuid, held, layout, wire, sent, codec, stage>>

Parse ==
    /\ stage = "printed"
    /\ Parses(text)
    /\ uuid' = Parsed(text)
    /\ held' = Read(Parsed(text), layout)
    /\ stage' = "parsed"
    /\ UNCHANGED <<layout, text, writes, wire, sent, codec>>

\* The constructor throws: there is no new object.
ParseFails ==
    /\ stage = "printed"
    /\ ~Parses(text)
    /\ text' = <<>>
    /\ stage' = "object"
    /\ UNCHANGED <<uuid, held, layout, writes, wire, sent, codec>>
-----------------------------------------------------------------------------
(***************************************************************************)
(* cuuid::serialise and cuuid::unserialise.                                *)
(***************************************************************************)
FieldsIn(u, order) ==
    LET r == Read(u, order)
    IN  [time |-> r.time, clock |-> r.clock, node |-> NodeParts(r.node)]

Is(u, version) == uuid_variant(u) = RFC /\ uuid_version(u) = version

Wire(u) ==
    IF Is(u, V6) THEN Condensed(F!Condense("v6", FieldsIn(u, "v6")))
    ELSE IF Is(u, V1) THEN Condensed(F!Condense("v1", FieldsIn(u, "v1")))
    ELSE Full(u)

Serialise ==
    /\ stage = "object"
    /\ wire' = Wire(uuid)
    /\ sent' = uuid
    /\ stage' = "sent"
    /\ UNCHANGED <<uuid, held, layout, text, writes, codec>>

\* A full wire is read by v1's reader, a condensed one by that of the codec,
\* which gives an object of its own version.
Unserialise ==
    /\ stage = "sent"
    /\ stage' = "read"
    /\ codec' \in F!Codecs
    /\ IF wire.form = "full"
       THEN uuid' = wire.bytes /\ UNCHANGED <<held, layout>>
       ELSE LET f == F!Uncondense(codec', wire.content)
                n == NodeNumber(f.node)
            IN  /\ uuid' = IF codec' = "v6" THEN to_v6_bytes(f.time, f.clock, n)
                           ELSE CondensedLayout(f.time, f.clock, n)
                /\ held' = Fields(RFC, IF codec' = "v6" THEN V6 ELSE V1,
                                  f.time, f.clock, n)
                /\ layout' = codec'
    /\ UNCHANGED <<text, writes, wire, sent>>

\* All the changes of the bound are made.
Rest == writes = MaxWrites /\ stage \in {"object", "parsed", "read"} /\ UNCHANGED vars

Next ==
    \/ PutTime \/ PutClockSeq \/ PutNode \/ PutVariant \/ PutVersion
    \/ CompactCrush \/ FromFields \/ Make \/ Construct
    \/ PutOut \/ Edit \/ Parse \/ ParseFails
    \/ Serialise \/ Unserialise
    \/ Rest

Spec == Init /\ [][Next]_vars

-----------------------------------------------------------------------------
\* The object is 16 bytes, and its fields keep their widths.
TypeOK ==
    /\ uuid \in UUIDs
    /\ held.time \in 0 .. TIME_SIZE - 1 /\ held.clock \in 0 .. CLOCK_SIZE - 1
    /\ held.node \in 0 .. NODE_SIZE - 1
    /\ held.variant \in 0 .. VARIANTS - 1 /\ held.version \in Digit
    /\ layout \in F!Codecs /\ codec \in F!Codecs
    /\ \A i \in 1 .. Len(text) : text[i] \in Chars
    /\ stage \in Stages

\* However the object came to be, and in whatever order it was written to, each
\* getter reads what was last put into its field: neighbours in one byte (version
\* and time, variant and clock) and the eight bytes the node setter and
\* unserialise_condensed rewrite do not disturb one another.
FieldsKept == Read(uuid, layout) = held

LowerCase(s) == [i \in 1 .. Len(s) |-> IF s[i] >= BASE THEN s[i] - BASE ELSE s[i]]

\* A text that was taken is what the object prints, but for the case of its
\* letters; and nobody's print is refused, or gives another object.
TextRoundTrips ==
    /\ stage = "parsed" => to_string(uuid) = LowerCase(text) \o <<>>
    /\ Parses(to_string(uuid)) /\ Parsed(to_string(uuid)) = uuid

\* is_valid and the constructor spell out the same format twice; they agree on
\* every text.
ValidAgrees == stage = "printed" => (is_valid(text) <=> Parses(text))

(***************************************************************************)
(* What a reader gets.  The ids whose fields no wire keeps are those       *)
(* CuuidCodec names: of the initial tick under a real node, and multicast  *)
(* nodes that look crushed and are not.                                    *)
(***************************************************************************)
WriterOf(u) == IF uuid_version(u) = V6 THEN "v6" ELSE "v1"

Kept(u) ==
    LET f == FieldsIn(u, WriterOf(u))
        c == F!CompactOf(f, f.node.salt)
    IN  /\ f.node.mc \/ f.time # UUID_TIME_INITIAL
        /\ f.node = F!CalculateNode(WriterOf(u), c) =>
                F!WindowStart(F!WindowOf(f.time)) = f.time

\* An id that is not time-based, or of another variant, is read back bit for bit
\* under either codec; a time-based one under its own codec, too, unless it is
\* named above; and under the other codec it never passes for itself.
DecodesToSent ==
    stage = "read" =>
        IF wire.form = "full" \/ codec = WriterOf(sent)
        THEN uuid = sent <=> wire.form = "full" \/ Kept(sent)
        ELSE uuid_version(uuid) # uuid_version(sent)

\* The lexicographic order of bytes.
Before(a, b) ==
    \E k \in 1 .. Len(a) : a[k] < b[k] /\ SubSeq(a, 1, k - 1) = SubSeq(b, 1, k - 1)

\* "The canonical bytes of ids made by make() and generate() sort by time"
\* (cuuid_v6.hh:30-32): an object laid out as v6 is before those of later times
\* and after those of earlier ones, whatever their clocks and nodes.
V6SortsByTime ==
    layout = "v6" /\ held.version = V6 =>
        \A t \in TimeArgs, c \in ClockArgs :
            LET other == to_v6_bytes(t, c, 0) IN
            /\ held.time < t % TIME_SIZE => Before(uuid, other)
            /\ held.time > t % TIME_SIZE => Before(other, uuid)
=============================================================================
