---------------------------- MODULE CuuidFields ----------------------------
(***************************************************************************)
(* The arithmetic core that both codecs share (cuuid_common.cc): how the   *)
(* three fields of a time-based UUID (time, clock sequence, node) are      *)
(* crushed to compacted form, condensed to the contents of a wire, and     *)
(* rebuilt from them.  A pure module: no variables.                        *)
(*                                                                         *)
(* Widths are constants, so that TLC can use small ones: a time has        *)
(* WINDOWS * CLOCK_SIZE values (2^46 * 2^14 in the code), a clock          *)
(* CLOCK_SIZE, a salt SALT_SIZE (2^7).  A 48-bit node is a record of the   *)
(* three parts the code tells apart: its multicast bit, its low salt bits  *)
(* and the 40 other bits.                                                  *)
(***************************************************************************)
EXTENDS Integers

CONSTANTS
    CLOCK_SIZE,             \* 2^CLOCK_BITS, the ticks of one window
    WINDOWS,                \* 2^(TIME_BITS - CLOCK_BITS)
    SALT_SIZE,              \* 2^SALT_BITS
    UUID_TIME_INITIAL,      \* the tick of 2016-01-01
    Bodies,                 \* values of a node's 40 remaining bits
    ZeroBody,               \* all of them zero
    Seeds,                  \* 32-bit seeds
    ClockXor(_, _),         \* bitwise exclusive or of two clocks
    Seed(_, _, _),          \* fnv_1a of time, clock and salt, xored
    Expand(_, _),           \* codec and seed to a node body
    LocalSalt(_)            \* folded hash of a real node

TIME_SIZE == CLOCK_SIZE * WINDOWS

Times == 0 .. TIME_SIZE - 1
Clocks == 0 .. CLOCK_SIZE - 1
Salts == 0 .. SALT_SIZE - 1
CompactTimes == 0 .. WINDOWS - 1
Nodes == [mc : BOOLEAN, body : Bodies, salt : Salts]
Fields == [time : Times, clock : Clocks, node : Nodes]

Codecs == {"v1", "v6"}

(***************************************************************************)
(* The widths are positive and the initial tick does not start a window:   *)
(* UUID_TIME_INITIAL % 2^14 is 0x800 in the code.  The exclusive or is a   *)
(* closed, commutative involution with 0 as its unit.                      *)
(***************************************************************************)
ASSUME WidthAssumption ==
    /\ CLOCK_SIZE \in Nat \ {0}
    /\ WINDOWS \in Nat \ {0}
    /\ SALT_SIZE \in Nat \ {0}
    /\ UUID_TIME_INITIAL \in Times
    /\ UUID_TIME_INITIAL % CLOCK_SIZE # 0

ASSUME XorAssumption ==
    \A a, b \in Clocks :
        /\ ClockXor(a, b) \in Clocks
        /\ ClockXor(a, b) = ClockXor(b, a)
        /\ ClockXor(ClockXor(a, b), b) = a
        /\ ClockXor(a, 0) = a

ASSUME HashAssumption ==
    /\ ZeroBody \in Bodies
    /\ \A t \in CompactTimes, k \in Clocks, s \in Salts : Seed(t, k, s) \in Seeds
    /\ \A c \in Codecs, s \in Seeds : Expand(c, s) \in Bodies
    /\ \A n \in Nodes : LocalSalt(n) \in Salts

(***************************************************************************)
(* Time, counted from 2016 and split at the window.  0 stays 0.            *)
(***************************************************************************)
\* Mutant: the difference is not masked to 60 bits.
RebaseUnmasked(time) == IF time = 0 THEN 0 ELSE time - UUID_TIME_INITIAL

\* Mutant: the operands are swapped.
RebaseSwapped(time) ==
    IF time = 0 THEN 0 ELSE (UUID_TIME_INITIAL - time) % TIME_SIZE

Rebase(time) ==
    IF time = 0 THEN 0 ELSE (time - UUID_TIME_INITIAL) % TIME_SIZE

WindowOf(time) == Rebase(time) \div CLOCK_SIZE

TickOf(time) == Rebase(time) % CLOCK_SIZE

\* Mutant: the origin is not added back.
WindowStartUnbased(t) == (t * CLOCK_SIZE) % TIME_SIZE

\* The inverse, from a window and from a rebased time; 0 stays 0 again.
WindowStart(t) ==
    IF t = 0 THEN 0 ELSE (t * CLOCK_SIZE + UUID_TIME_INITIAL) % TIME_SIZE

Unbase(t) ==
    IF t = 0 THEN 0 ELSE (t + UUID_TIME_INITIAL) % TIME_SIZE

(***************************************************************************)
(* The contents of a wire: compact (the node is rebuilt by the reader) or  *)
(* expanded (the node is carried).                                         *)
(***************************************************************************)
Compact(t, k, s) == [compacted |-> TRUE, time |-> t, clock |-> k, salt |-> s]

Expanded(t, k, n) == [compacted |-> FALSE, time |-> t, clock |-> k, node |-> n]

Contents ==
    [compacted : {TRUE}, time : CompactTimes, clock : Clocks, salt : Salts]
        \cup [compacted : {FALSE}, time : Times, clock : Clocks, node : Nodes]

MulticastOnly == [mc |-> TRUE, body |-> ZeroBody, salt |-> 0]

\* The node a reader rebuilds for a compact content.
CalculateNode(codec, c) ==
    IF c.time = 0 /\ c.clock = 0 /\ c.salt = 0
    THEN MulticastOnly
    ELSE [mc   |-> TRUE,
          body |-> Expand(codec, Seed(c.time, c.clock, c.salt)),
          salt |-> c.salt]

\* What both crush_fields and condense fill a compact condenser with.
CompactOf(f, salt) ==
    Compact(WindowOf(f.time), ClockXor(f.clock, TickOf(f.time)), salt)

SaltOf(node) == IF node.mc THEN node.salt ELSE LocalSalt(node)

(***************************************************************************)
(* crush_fields: the fields a compacted id carries.                        *)
(***************************************************************************)
\* Mutant: the node is derived before the low bits are folded into the clock.
CrushNodeFirst(codec, f) ==
    LET c == CompactOf(f, SaltOf(f.node)) IN
        [time  |-> WindowStart(c.time),
         clock |-> c.clock,
         node  |-> CalculateNode(codec, Compact(c.time, f.clock, c.salt))]

Crush(codec, f) ==
    LET c == CompactOf(f, SaltOf(f.node)) IN
        [time  |-> WindowStart(c.time),
         clock |-> c.clock,
         node  |-> CalculateNode(codec, c)]

(***************************************************************************)
(* condense: compact when the reader would rebuild this very node, else    *)
(* expanded, with the time rebased under a real (not multicast) node.      *)
(***************************************************************************)
\* Mutant: the time is rebased whatever the node.
CondenseRebased(codec, f) ==
    LET c == CompactOf(f, f.node.salt) IN
        IF f.node = CalculateNode(codec, c)
        THEN c
        ELSE Expanded(Rebase(f.time), f.clock, f.node)

Condense(codec, f) ==
    LET c == CompactOf(f, f.node.salt) IN
        IF f.node = CalculateNode(codec, c)
        THEN c
        ELSE Expanded(IF f.node.mc THEN f.time ELSE Rebase(f.time), f.clock, f.node)

(***************************************************************************)
(* uncondense: the fields rebuilt from a content.                          *)
(***************************************************************************)
RebuiltNode(codec, c) == IF c.compacted THEN CalculateNode(codec, c) ELSE c.node

\* Mutant: the time is shifted back whatever the node.
RebuiltTimeShifted(codec, c) ==
    IF c.compacted THEN WindowStart(c.time) ELSE Unbase(c.time)

RebuiltTime(codec, c) ==
    IF c.compacted THEN WindowStart(c.time)
    ELSE IF RebuiltNode(codec, c).mc THEN c.time
    ELSE Unbase(c.time)

Uncondense(codec, c) ==
    [time  |-> RebuiltTime(codec, c),
     clock |-> c.clock,
     node  |-> RebuiltNode(codec, c)]
=============================================================================
