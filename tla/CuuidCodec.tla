----------------------------- MODULE CuuidCodec -----------------------------
(***************************************************************************)
(* The life of one time-based UUID: its fields come from anywhere (a       *)
(* platform, a text form, a caller), the holder may crush it, serialises   *)
(* it, a reader rebuilds it from the wire, and may crush or serialise what *)
(* it rebuilt again.  The wire has no version marker: a reader that runs   *)
(* the other codec rebuilds an id of its own version, without an error.    *)
(* Wires are modelled by their contents; CuuidFrame models their bytes.    *)
(***************************************************************************)
EXTENDS CuuidFields

VARIABLES
    codec,      \* the codec of the id in hand, by its version nibble
    writer,     \* the codec the id was first written under
    id,         \* the fields of the UUID object in hand
    written,    \* the fields of the id that was serialised first
    crushed,    \* whether the id went through crush_fields before that
    wire,       \* contents of the wire
    stage       \* how far the id has come

vars == <<codec, writer, id, written, crushed, wire, stage>>

Stages == {"held", "wired", "decoded", "recrushed", "rewired"}

Init ==
    /\ codec \in Codecs
    /\ writer = codec
    /\ id \in Fields
    /\ written = id
    /\ crushed = FALSE
    /\ wire = Compact(0, 0, 0)
    /\ stage = "held"

(***************************************************************************)
(* compact_crush under v1, make under v6: both replace the three fields.   *)
(* A holder may do it before serialising, a reader after decoding.         *)
(***************************************************************************)
CompactCrush ==
    /\ stage = "held"
    /\ id' = Crush(codec, id)
    /\ crushed' = TRUE
    /\ UNCHANGED <<codec, writer, written, wire, stage>>

CrushDecoded ==
    /\ stage = "decoded"
    /\ id' = Crush(codec, id)
    /\ stage' = "recrushed"
    /\ UNCHANGED <<codec, writer, written, crushed, wire>>

Serialise ==
    /\ stage = "held"
    /\ wire' = Condense(codec, id)
    /\ written' = id
    /\ stage' = "wired"
    /\ UNCHANGED <<codec, writer, id, crushed>>

\* The running codec selects the reader, and the version of what it gives.
Unserialise ==
    /\ stage = "wired"
    /\ codec' \in Codecs
    /\ id' = Uncondense(codec', wire)
    /\ stage' = "decoded"
    /\ UNCHANGED <<writer, written, crushed, wire>>

Reserialise ==
    /\ stage \in {"decoded", "recrushed"}
    /\ wire' = Condense(codec, id)
    /\ stage' = "rewired"
    /\ UNCHANGED <<codec, writer, id, written, crushed>>

Next ==
    \/ CompactCrush
    \/ Serialise
    \/ Unserialise
    \/ CrushDecoded
    \/ Reserialise

Spec == Init /\ [][Next]_vars

-----------------------------------------------------------------------------
\* Every field keeps its width, whichever way the id was obtained.
TypeOK ==
    /\ codec \in Codecs
    /\ writer \in Codecs
    /\ id \in Fields
    /\ written \in Fields
    /\ crushed \in BOOLEAN
    /\ wire \in Contents
    /\ stage \in Stages

\* An id that went through crush_fields is read back exactly, and crushing
\* again what was read back changes nothing (what make() and the compacting
\* generator rest on: the id in hand is the id the wire gives).  A reader of the
\* other codec gets the id that codec would have crushed it to: the same time,
\* clock and salt, under a node of its own.
CrushedRoundTrip ==
    crushed /\ stage \in {"decoded", "recrushed"} =>
        /\ codec = writer => id = written
        /\ id = Crush(codec, written)

\* A crushed id always takes the compact wire: condense recognises the node
\* that crush_fields derived, so the id never costs the node's bytes.
CrushedIsCompact ==
    crushed /\ stage = "wired" => wire.compacted

(***************************************************************************)
(* The ids that do not survive a wire.  A real node at the very tick       *)
(* UUID_TIME_INITIAL comes back with time 0; a multicast node that happens *)
(* to be the one the reader would rebuild loses its place in the window.   *)
(***************************************************************************)
AtInitialTick(f) ==
    ~f.node.mc /\ f.time = UUID_TIME_INITIAL

\* Whether a reader under the codec would derive this very node.
Derivable(c, f) == f.node = CalculateNode(c, CompactOf(f, f.node.salt))

LooksCrushed(c, f) ==
    /\ Derivable(c, f)
    /\ WindowStart(WindowOf(f.time)) # f.time

\* condense and uncondense are exact on all other ids, and on those only.
ExactUnlessNamed ==
    stage = "decoded" /\ codec = writer =>
        (id = written <=> ~AtInitialTick(written) /\ ~LooksCrushed(codec, written))

\* An id read from a wire is written back to the same wire, even when it is
\* not the id that was written: a store that rewrites what it read, or that
\* looks a decoded id up by its wire, keeps its keys.  Under the other codec it
\* keeps them too, but for a node carried whole that this codec could derive.
KeyStable ==
    [][Reserialise /\ id = Uncondense(codec, wire) =>
        (wire' = wire <=> \/ codec = writer
                          \/ wire.compacted
                          \/ ~Derivable(codec, id))]_vars

\* What makes these invariants hold: a crushed id is one that crushing does not
\* change, and the wire and what is read from it stay those of the id written.
CodecInv ==
    /\ TypeOK
    /\ stage = "held" => codec = writer
    /\ crushed => Crush(writer, written) = written \/ stage = "held"
    /\ crushed /\ stage = "held" => Crush(codec, id) = id
    /\ stage \in {"wired", "decoded", "recrushed"} => wire = Condense(writer, written)
    /\ stage = "decoded" => id = Uncondense(codec, wire)
    /\ stage = "recrushed" => id = Crush(codec, Uncondense(codec, wire))

\* Compacting an id "clears the low 14 bits of the time" (CHANGELOG.md:62-63,
\* test_v6_threads.cc:43): it clears those of the rebased time.
LowBitsCleared ==
    crushed /\ stage = "held" => id.time % CLOCK_SIZE = 0

\* The test suite says of an id with an arbitrary real node that it "takes the
\* expanded wire and still round-trips exactly" (test/test_v6.cc:59-60).
ExpandedRoundTrip ==
    stage = "decoded" /\ codec = writer /\ ~crushed /\ ~written.node.mc => id = written
=============================================================================
