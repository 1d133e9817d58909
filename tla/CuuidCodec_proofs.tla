------------------------- MODULE CuuidCodec_proofs -------------------------
(***************************************************************************)
(* The invariants of CuuidCodec, from the facts of CuuidFields_proofs.     *)
(***************************************************************************)
EXTENDS CuuidCodec, CuuidFields_proofs

-----------------------------------------------------------------------------
(* What is read and written again, and the named ids.                      *)

\* What is read from a written wire is written to the same wire.
THEOREM ReserialiseStable ==
    ASSUME NEW c \in Codecs, NEW f \in Fields
    PROVE  Condense(c, Uncondense(c, Condense(c, f))) = Condense(c, f)
<1> DEFINE w == Condense(c, f)
           g == Uncondense(c, w)
<1>1. /\ f.time \in Times /\ f.clock \in Clocks /\ f.node \in Nodes /\ f.time \in Nat
      /\ f.node.salt \in Salts /\ f.node.mc \in BOOLEAN
    BY DEF Fields, Nodes, Times
<1>2. CASE w = CompactOf(f, f.node.salt)
    <2>1. /\ w = Compact(w.time, w.clock, w.salt)
          /\ w.time \in CompactTimes /\ w.clock \in Clocks /\ w.salt \in Salts
        BY <1>1, <1>2, CompactOfType DEF CompactOf, Compact
    <2> HIDE DEF w
    <2>2. Condense(c, Uncondense(c, w)) = w
        BY <2>1, CompactFixpoint
    <2> QED
        BY <2>2 DEF w
<1>3. CASE /\ f.node # CalculateNode(c, CompactOf(f, f.node.salt))
           /\ w = Expanded(IF f.node.mc THEN f.time ELSE Rebase(f.time), f.clock, f.node)
    <2>1. CASE f.node.mc
        <3>1. g = f
            BY <1>3, <2>1 DEF Uncondense, RebuiltNode, RebuiltTime, Expanded, Fields
        <3> QED
            BY <3>1
    <2>2. CASE ~f.node.mc
        <3>1. /\ g.time = Unbase(Rebase(f.time))
              /\ g.clock = f.clock
              /\ g.node = f.node
            BY <1>3, <2>2 DEF Uncondense, RebuiltNode, RebuiltTime, Expanded
        <3>2. g.time \in Nat /\ Rebase(g.time) = Rebase(f.time)
            BY <1>1, <3>1, UnbaseRebase, RebaseType DEF Times
        <3> HIDE DEF g
        <3> DEFINE k == CompactOf(g, g.node.salt)
        <3>a. g.clock \in Clocks /\ g.node.salt \in Salts /\ ~g.node.mc
            BY <1>1, <2>2, <3>1
        <3>3. k.time \in CompactTimes /\ k.clock \in Clocks /\ k.salt \in Salts
            BY <3>a, <3>2, CompactOfType
        <3> HIDE DEF k
        <3>b. CalculateNode(c, k).mc = TRUE
            BY <3>3, CalculateNodeType
        <3>4. g.node # CalculateNode(c, k)
            BY <3>a, <3>b
        <3>5. Condense(c, g) = Expanded(Rebase(g.time), g.clock, g.node)
            BY <2>2, <3>1, <3>4 DEF Condense, k
        <3> QED
            BY <1>3, <2>2, <3>1, <3>2, <3>5 DEF g
    <2> QED
        BY <1>1, <2>1, <2>2
<1> QED
    BY <1>2, <1>3, CondenseCases

\* What is read from it under any codec is, unless this codec would derive a
\* node that was carried whole: then the wire becomes a compact one.
THEOREM MisreadStable ==
    ASSUME NEW c \in Codecs, NEW d \in Codecs, NEW f \in Fields
    PROVE  LET w == Condense(d, f)
               g == Uncondense(c, w)
           IN  Condense(c, g) = w <=> w.compacted \/ ~Derivable(c, g)
<1> DEFINE w == Condense(d, f)
           g == Uncondense(c, w)
<1> SUFFICES Condense(c, g) = w <=> w.compacted \/ ~Derivable(c, g)
    OBVIOUS
<1>1. /\ f.time \in Times /\ f.clock \in Clocks /\ f.node \in Nodes /\ f.time \in Nat
      /\ f.node.salt \in Salts /\ f.node.mc \in BOOLEAN
    BY DEF Fields, Nodes, Times
<1>2. CASE w = CompactOf(f, f.node.salt)
    <2>1. /\ w = Compact(w.time, w.clock, w.salt) /\ w.compacted
          /\ w.time \in CompactTimes /\ w.clock \in Clocks /\ w.salt \in Salts
        BY <1>1, <1>2, CompactOfType DEF CompactOf, Compact
    <2> HIDE DEF w
    <2>2. Condense(c, Uncondense(c, w)) = w
        BY <2>1, CompactFixpoint
    <2> QED
        BY <2>1, <2>2
<1>3. CASE w = Expanded(IF f.node.mc THEN f.time ELSE Rebase(f.time), f.clock, f.node)
    <2>1. /\ ~w.compacted
          /\ g.time = IF f.node.mc THEN f.time ELSE Unbase(Rebase(f.time))
          /\ g.clock = f.clock
          /\ g.node = f.node
        BY <1>3 DEF Uncondense, RebuiltNode, RebuiltTime, Expanded
    <2>2. Rebase(Unbase(Rebase(f.time))) = Rebase(f.time)
        BY <1>1, UnbaseRebase
    <2>3. g.time \in Nat
        BY <1>1, <2>1, UnbaseRebase, RebaseType DEF Times
    <2> DEFINE k == CompactOf(g, g.node.salt)
    <2>4. k \in Contents /\ k.compacted
        <3>1. g.time \in Nat /\ g.clock \in Clocks /\ g.node.salt \in Salts
            BY <1>1, <2>1, <2>3
        <3> HIDE DEF g
        <3> QED
            BY <3>1, CompactOfType
    <2> HIDE DEF g, k
    <2>5. CASE Derivable(c, g)
        <3>1. Condense(c, g) = k
            BY <2>5 DEF Condense, Derivable, k
        <3> HIDE DEF w
        <3> QED
            BY <2>1, <2>4, <2>5, <3>1
    <2>6. CASE ~Derivable(c, g)
        <3>1. Condense(c, g)
                = Expanded(IF g.node.mc THEN g.time ELSE Rebase(g.time), g.clock, g.node)
            BY <2>6 DEF Condense, Derivable
        <3>2. (IF g.node.mc THEN g.time ELSE Rebase(g.time))
                = IF f.node.mc THEN f.time ELSE Rebase(f.time)
            BY <2>1, <2>2
        <3> QED
            BY <1>3, <2>1, <2>6, <3>1, <3>2
    <2> QED
        BY <2>5, <2>6
<1> QED
    BY <1>2, <1>3, CondenseCases

\* The exact condition under which a wire gives its id back.
THEOREM ExactRoundTrip ==
    ASSUME NEW c \in Codecs, NEW f \in Fields
    PROVE  Uncondense(c, Condense(c, f)) = f
            <=> ~AtInitialTick(f) /\ ~LooksCrushed(c, f)
<1>1. f.node.mc \in BOOLEAN
    BY DEF Fields, Nodes
<1>2. ~AtInitialTick(f) <=> f.node.mc \/ f.time # UUID_TIME_INITIAL
    BY <1>1 DEF AtInitialTick
<1>3. ~LooksCrushed(c, f) <=> (f.node = CalculateNode(c, CompactOf(f, f.node.salt))
                                => WindowStart(WindowOf(f.time)) = f.time)
    BY DEF LooksCrushed, Derivable
<1> QED
    BY <1>2, <1>3, WireRoundTrip

-----------------------------------------------------------------------------
(* The invariants of the life of an id.                                    *)

\* What the theorems about crush_fields say of an id in hand.
LEMMA CrushOfFields ==
    ASSUME NEW c \in Codecs, NEW f \in Fields
    PROVE  /\ Crush(c, f) \in Fields
           /\ Crush(c, Crush(c, f)) = Crush(c, f)
           /\ Crush(c, f) = f => /\ Condense(c, f).compacted
                                 /\ Uncondense(c, Condense(c, f)) = f
<1>1. f.time \in Nat /\ f.clock \in Clocks /\ f.node \in Nodes
    BY DEF Fields, Times
<1> QED
    BY <1>1, CrushType, CrushIdempotent, CrushedRoundTrips

\* An id from anywhere, not yet crushed or written, satisfies the invariant.
LEMMA CodecInit == Init => CodecInv
<1> SUFFICES ASSUME Init
             PROVE  CodecInv
    OBVIOUS
<1>1. wire \in Contents
    BY TimeSize DEF Init, Compact, Contents
<1> QED
    BY <1>1 DEF Init, CodecInv, TypeOK, Stages

\* Crushing, writing and reading an id keep the invariant.
LEMMA CodecStep == CodecInv /\ [Next]_vars => CodecInv'
<1> SUFFICES ASSUME CodecInv, [Next]_vars
             PROVE  CodecInv'
    OBVIOUS
<1> USE DEF CodecInv
<1>1. /\ codec \in Codecs /\ writer \in Codecs
      /\ id \in Fields /\ written \in Fields /\ wire \in Contents
    BY DEF TypeOK
<1>2. CASE CompactCrush
    <2>1. Crush(codec, id) \in Fields /\ Crush(codec, Crush(codec, id)) = Crush(codec, id)
        BY <1>1, CrushOfFields
    <2> QED
        BY <1>2, <2>1 DEF CompactCrush, TypeOK
<1>3. CASE Serialise
    <2>1. Condense(codec, id) \in Contents
        BY <1>1, CondenseCases
    <2> QED
        BY <1>3, <2>1 DEF Serialise, TypeOK, Stages
<1>4. CASE Unserialise
    <2>1. Uncondense(codec', wire) \in Fields
        BY <1>1, <1>4, UncondenseType DEF Unserialise
    <2> QED
        BY <1>4, <2>1 DEF Unserialise, TypeOK, Stages
<1>5. CASE CrushDecoded
    <2>1. Crush(codec, id) \in Fields
        BY <1>1, CrushOfFields
    <2> QED
        BY <1>5, <2>1 DEF CrushDecoded, TypeOK, Stages
<1>6. CASE Reserialise
    <2>1. Condense(codec, id) \in Contents
        BY <1>1, CondenseCases
    <2> QED
        BY <1>6, <2>1 DEF Reserialise, TypeOK, Stages
<1>7. CASE UNCHANGED vars
    BY <1>7 DEF vars, TypeOK
<1> QED
    BY <1>2, <1>3, <1>4, <1>5, <1>6, <1>7 DEF Next

\* The inductive invariant of the life of an id always holds (CodecInv).
THEOREM CodecInvariant == Spec => []CodecInv
BY CodecInit, CodecStep, PTL DEF Spec

\* Every field an id passes through keeps its width (TypeOK).
THEOREM CodecTypes == Spec => []TypeOK
<1>1. CodecInv => TypeOK
    BY DEF CodecInv
<1> QED
    BY <1>1, CodecInvariant, PTL

\* A crushed id, read under any codec, is the id that codec crushes it to.
LEMMA CrushedMisread ==
    ASSUME NEW c \in Codecs, NEW d \in Codecs, NEW f \in Fields, Crush(d, f) = f
    PROVE  Uncondense(c, Condense(d, f)) = Crush(c, f)
<1>1. f.time \in Nat /\ f.clock \in Clocks /\ f.node \in Nodes
    BY DEF Fields, Times
<1>2. Condense(d, f) = CompactOf(f, SaltOf(f.node))
    BY <1>1, CrushedRoundTrips
<1> QED
    BY <1>2, CrushIsUncondense

\* make() and compact_crush(): what was crushed is read back exactly under its
\* codec and as if crushed by the reader's under the other, and crushing it
\* again changes nothing (CrushedRoundTrip).
THEOREM CrushedRoundTripHolds == Spec => []CrushedRoundTrip
<1>1. CodecInv => CrushedRoundTrip
    <2> SUFFICES ASSUME CodecInv, crushed, stage \in {"decoded", "recrushed"}
                 PROVE  id = Crush(codec, written) /\ (codec = writer => id = written)
        BY DEF CrushedRoundTrip
    <2>1. /\ codec \in Codecs /\ writer \in Codecs /\ written \in Fields
          /\ Crush(writer, written) = written
        BY DEF CodecInv, TypeOK
    <2>2. Uncondense(codec, wire) = Crush(codec, written)
        BY <2>1, CrushedMisread DEF CodecInv
    <2>3. Crush(codec, Crush(codec, written)) = Crush(codec, written)
        BY <2>1, CrushOfFields
    <2> QED
        BY <2>1, <2>2, <2>3 DEF CodecInv
<1> QED
    BY <1>1, CodecInvariant, PTL

\* A crushed id never costs the node's bytes (CrushedIsCompact).
THEOREM CrushedIsCompactHolds == Spec => []CrushedIsCompact
<1>1. CodecInv => CrushedIsCompact
    BY CrushOfFields DEF CodecInv, TypeOK, CrushedIsCompact
<1> QED
    BY <1>1, CodecInvariant, PTL

\* condense and uncondense are exact but for the two cases the model names
\* (ExactUnlessNamed).
THEOREM ExactUnlessNamedHolds == Spec => []ExactUnlessNamed
<1>1. CodecInv => ExactUnlessNamed
    BY ExactRoundTrip DEF CodecInv, TypeOK, ExactUnlessNamed
<1> QED
    BY <1>1, CodecInvariant, PTL

\* A decoded id is written back to the wire it came from, under either codec
\* but for a derivable node (KeyStable).
THEOREM KeyStableHolds == Spec => KeyStable
<1> DEFINE Same == wire' = wire <=> \/ codec = writer
                                    \/ wire.compacted
                                    \/ ~Derivable(codec, id)
<1>1. CodecInv /\ [Next]_vars =>
        [Reserialise /\ id = Uncondense(codec, wire) => Same]_vars
    <2> SUFFICES ASSUME CodecInv, Reserialise, id = Uncondense(codec, wire)
                 PROVE  Same
        OBVIOUS
    <2>1. codec \in Codecs /\ writer \in Codecs /\ written \in Fields
        BY DEF CodecInv, TypeOK
    <2>2. wire = Condense(writer, written) /\ wire' = Condense(codec, id)
        BY DEF CodecInv, Reserialise
    <2>3. codec = writer => wire' = wire
        BY <2>1, <2>2, ReserialiseStable
    <2>4. wire' = wire <=> wire.compacted \/ ~Derivable(codec, id)
        BY <2>1, <2>2, MisreadStable
    <2> QED
        BY <2>3, <2>4
<1> QED
    BY <1>1, CodecInvariant, PTL DEF Spec, KeyStable
=============================================================================
