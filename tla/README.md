# A verification of cuuid

cuuid condenses 16-byte time-based UUIDs to wires of 4 to 17 bytes, and mints
the ids it condenses. This directory holds TLA+ modules of its core, the TLC
configurations that check them on small instances, and TLAPS proofs for every
value of the constants. Paths below are relative to the repository's root.

Contents: [the system](#the-system), [the modules](#the-modules),
[the runs](#the-runs), [findings](#findings), [the proofs](#the-proofs),
[what is not modelled](#what-is-not-modelled), [the plan](#the-plan).

    tlc -workers 2 -config MCProcess.cfg MCGenerator
    tlapm CuuidGenerator_proofs.tla

## The system

| Component | Source | State | Operations |
| :-- | :-- | :-- | :-- |
| Condensing arithmetic | `cuuid_common.cc`, `cuuid_common.h`, `cuuid_node.h` | none | `calculate_node`, `crush_fields`, `condense`, `uncondense` |
| Codecs | `cuuid_v1.cc`, `cuuid_v6.cc` | the UUID in hand | `compact_crush`, `make`, `serialise`, `unserialise` |
| Wire framing | `cuuid_common.cc`, the table `VL` of `cuuid_common.h` | none | `UUIDCondenser::serialise`, `UUIDCondenser::unserialise`, `_is_serialised`, `serialise_full` |
| Lists of ids | `cuuid.hh`, `cuuid_v1.cc` | a buffer, a position | `cuuid::serialise`, `is_serialised`, the list form of `cuuid::unserialise` |
| Id generators | `cuuid_v1.cc`, `cuuid_v6.cc`, `cuuid.hh` | statics `mutex`, `last`, `clock_seq`; static atomic `last` of v6 | `UUIDGenerator::operator()`, `cuuid_v6::generate`, `cuuid::generate` |
| Processes of one host | the same | the statics of each process, lost when it restarts | the same, over one platform mint |
| Platform mint | `cuuid_v1.cc` (`newUUID`) | the platform's clock and clock sequence | `uuid_create`, `uuid_generate_time`, `CFUUIDCreate`, `CoCreateUUID` |
| Node expanders | `cuuid_v1.cc`, `cuuid_v6.cc` | v1: a thread-local cache of Mersenne Twister outputs | `expand_mt_compute`, `expand_splitmix` |
| 16-byte layouts | `cuuid_v1.cc`, `cuuid_v6.cc`, `cuuid.hh` | 16 bytes | the field getters and setters, the constructors, `to_v6_bytes`, `from_v6_bytes`, `from_fields`, the dispatch on version and variant |
| Text form | `cuuid_v1.cc` | none | parse, `to_string`, `is_valid` |
| Seams | `cuuid_trace.h`, `cuuid_exception.h` | none | logging and throwing macros |

How they interact. `cuuid::generate` calls one of two generators. Both start
from `newUUID`, a call into the platform. `UUIDGenerator::operator()` pushes a
version-1 mint's time past its static `last` and stamps the process's first
clock sequence on it, under a static mutex. `cuuid_v6::generate` takes such a
mint, claims a time *again* with a compare-and-swap on a relaxed atomic of its
own, and crushes the fields. Crushing drops the low 14 bits of the time (they
are folded into the clock with an exclusive or) and replaces the node by one
that the reader can derive. `condense` finds out whether a node is derivable by
deriving it: then the wire is compact, else it carries the node. The framing
strips leading zero bytes and folds the length into the lead byte. Wires are
packed back to back; the reader has the lead bytes alone to tell them apart.
What an object is, and so which codec writes it, is read off its 16 bytes; which
codec reads a condensed wire is the caller's choice, for the wire does not say.
Processes of a host share nothing but the platform.

What is hard, and what makes each part correct:

- *Generators.* Threads interleave; the value a claim is computed from may be
  stale; the platform clock stalls or steps back, its clock sequence changes, its
  call may throw. Correct means: no time is claimed twice, a call that begins
  after another has returned claims a later one, one clock sequence for the
  process, hence distinct wires, and every call ends.
- *Condensing.* 60-bit wrap-around around an origin (2016) that is not a multiple
  of the window; 0 used for "no time"; a node derived twice from different
  fields. Correct means: a crushed id always takes the compact wire and is read
  back exactly, an uncrushed one as well but for two kinds of ids that can be
  named, and a decoded id is written to the wire it came from.
- *Framing and lists.* Boundaries of a hand-written table; two copies of the
  length rule; a list that was cut, or that foreign bytes follow. Correct means:
  no wire begins another, only what was written is delivered before anything
  else, a throw leaves the position at the incomplete id, the checker and the
  reader agree, and no lead byte takes the reader past the table.
- *Objects.* Fields share bytes; setters rewrite their neighbours; two layouts of
  the time; two copies of the text format; a dispatch on bytes anyone may have
  set. Correct means: a getter reads what was last put into its field, a text
  that is taken is the text that is printed, and what comes back from a wire is
  what was sent, or an id that cannot pass for it.
- *Node expander.* Five words of a Mersenne Twister stand for 624, and a cache
  for the computation. Correct means: whatever was looked up before, a lookup
  returns what `std::mt19937` would.
- *Hosts.* Processes that do not know of each other move times and clock
  sequences the platform gave them apart. What can be said is when two of their
  ids may be one, and that none runs away from the clock.

`PROJECT.json` lists these hazards, each at the line where it bites, with the
properties that cover it.

## The modules

| Module | Models | Used by |
| :-- | :-- | :-- |
| `CuuidFields` | the arithmetic on time, clock and node; no variables | `CuuidCodec`, `CuuidGenerator`, `CuuidHost`, `CuuidObject` |
| `CuuidCodec` | the life of one id: crushed, written, read under either codec, crushed or written again | `MCCodec` |
| `ClaimSource` | abstract: what a monotonic source of times promises its threads | refined by `CuuidGenerator` |
| `CuuidGenerator` | the generators of one process and any number of threads | `MCGenerator` |
| `CuuidFrame` | the bytes of one wire; no variables | `CuuidStream` |
| `CuuidStream` | writer, cut or junk, checker and reader of a list of ids | `MCStream` |
| `CuuidHost` | the processes of a host over one platform mint, and their restarts | `MCHost` |
| `CuuidLayout` | the 16 bytes of an object, in v1 and v6 order, and its text; no variables | `CuuidObject` |
| `CuuidObject` | one UUID object under setters, constructors, texts and wires | `MCObject` |
| `CuuidTwister` | `expand_mt_compute` and the engine it stands for; no variables | `CuuidNodes` |
| `CuuidExpander` | `expand_mt` and its thread-local cache, access by access | `CuuidNodes` |
| `CuuidNodes` | the cache over the computation | `MCExpander` |
| `CuuidFields_proofs`, `CuuidCodec_proofs`, `CuuidGenerator_proofs`, `CuuidHost_proofs`, `CuuidStream_proofs`, `CuuidObject_proofs`, `CuuidExpander_proofs` | theorems | |
| `NumberLemmas` | lemmas the proofs share: division with remainder, induction and recursion up to a number | the proofs |

**`CuuidFields`.** The code's widths are constants: a time has
`WINDOWS * CLOCK_SIZE` values (2^46 * 2^14 in the code), a clock `CLOCK_SIZE`, a
salt `SALT_SIZE`. A 48-bit node is a record of its multicast bit, its salt bits
and the rest, since those are the parts the code takes apart. Masks are `%`,
shifts `\div` and `*`. The hashes (`fnv_1a`, `xor_fold`), the two node expanders
and the exclusive or are constant operators, about which only their ranges and,
for the exclusive or, its algebra are assumed; so what is proved holds for any
hash. `UUID_TIME_INITIAL % CLOCK_SIZE # 0` is assumed and true of the code's
value. `WindowOf`, `TickOf` and `Compact` stand for the first half of
`crush_fields` and of `condense`, which the source repeats.

**`CuuidCodec`.** `CompactCrush` is `compact_crush` under v1 and `make` under v6;
`Serialise`, `Unserialise` and `Reserialise` go through `Condense` and
`Uncondense`. `Init` takes every id: they also come from text and from callers.
The codec that reads a wire need not be the one that wrote it (`writer`).

**`CuuidGenerator`.** `pc[t]` says where a call is; `uuid[t]`, `time[t]`, `view[t]`
are the locals `uuid`, `time`, `prev`. The actions of a call are, in order:
`Call`, `NewUUID` (or `NewUUIDFails`, FreeBSD's `std::bad_alloc`), for a version-1
mint `Lock`, `Bump`, `StoreLast`, `KeepClock`, `Unlock`, for a v6 call `Load` and
`CasSucceeds` or `CasFails`, and `Finish`, which crushes and returns. Each
access to shared memory is a step, although one mutex protects the first four:
that it does is checked, not assumed. A relaxed load may see any value the
atomic has had (`past6`), but never one older than this thread saw before
(coherence); a compare-and-swap that succeeds reads the newest. `issued` is a
history: it keeps, of each id, the time that was claimed and how many ids had
been returned when its call began. Two codecs with their compact flags, and mints
that are not version 1 (which skip the mutex), can share one process.

**`ClaimSource`** has three actions per thread: `Ask` with a minted time, `Grant`
of `max(minted, top + 1)`, `Leave`. `CuuidGenerator` implements it twice, with
the refinement mappings `MutexSlots` (a grant is the store to `last`) and
`CasSlots` (a grant is the successful compare-and-swap).

**`CuuidFrame`** and **`CuuidStream`.** A payload is the two packed words as 16
bytes. The table `VL` is transcribed; `b & mask` is `b - b % room`, as every
mask is a run of high bits. `Frame` is `UUIDCondenser::serialise`: `FirstKept`
is its loop, `Spill` the branch in which the tag needs a byte of its own.
`EntryOf` and `WireLength` are the table lookup of the reader, `CheckedLength`
the copy of it in `_is_serialised`. The actions are the writer's (`Write`), the
channel's (`Deliver`, which cuts the bytes anywhere or lets `Junk` follow them), the checker's
(`CheckOne`, `CheckEnds`) and the reader's (`ReadOne`, `ReadThrows`, `ReadEnds`).

**`CuuidHost`** composes processes. A call is one step (`Generate`): among the
threads of a process that is what `ClaimSource` shows. Its variables are each
process's `statics`, what the platform has `minted`, and the history `issued`. The
platform is assumed healthy (`CanMint`): it never gives one time and clock sequence
twice, and its clock goes back only where `MayStepBack` says so. `Restart` loses
the statics.

**`CuuidLayout`** and **`CuuidObject`.** An object is 32 digits, two to a byte:
every shift and mask of the code falls between digits, except the two that part
variant and clock sequence, which are `% CLOCK_TOP` and `\div CLOCK_TOP`. The base
of a digit is a constant, 16 in the code. The getters and setters keep their names
(a setter is `Set...`), and like the code none of them, nor `FromFields` or `Make`,
checks the width of what it is given: masks and bit fields cut it, and a node's salt
is hashed from the whole number; `CondensedLayout` is the one that `unserialise_condensed`
writes for itself. `held` is what the fields should be, computed on numbers; an
action changes `uuid` by the code's bytes and `held` by what the operation is for
(crushing by `CuuidFields`, on the same fields). Texts are sequences of
characters: digits of either case, a dash, any other. `Serialise` and
`Unserialise` are the dispatch of `cuuid.hh`, with contents for wires.

**`CuuidTwister`**, **`CuuidExpander`** and **`CuuidNodes`.** `InitLoop` is the loop to
word 397 (`Turn` its body), `gen` the lambda; `Seeded`, `Twisted` and `FirstOutputs`
are `std::mt19937` as the standard defines it (external), over all of its state,
twisted in place one word after another. The bitwise operators are constants, of
which only their range is assumed; the run gives them the ones of the community
module `Bitwise`. The cache is `cache[t]`,
one per thread; `Probe`, `WriteNode`, `WriteSeed`, `WriteValid`, `Return` are the
accesses to its entry in order, so that a cache that were shared would show.
What a miss computes is a constant operator in `CuuidExpander`; `CuuidNodes` says
that it is `CuuidTwister`'s, and states what the two promise together.

## The runs

| Run | Instance | Shows |
| :-- | :-- | :-- |
| `codec` | `MCCodec.cfg` | every id of small widths, written by either codec and read by either: type, `CrushedRoundTrip`, `CrushedIsCompact`, `ExactUnlessNamed`, `KeyStable`, and the invariant `CodecInv` the proofs use |
| `process` | 3 threads, 3 calls | calls of both codecs, compact or not, over a clock that stalls, steps back, nears the end of its range, changes its clock sequence, mints another version or throws: `MutualExclusion`, `ClaimsOrdered`, `OneClockSeq`, `WiresDistinct`, `WindowsOrdered`, and the inductive invariant `GeneratorInv` |
| `sources` | 2 threads, 3 calls | refinement of `ClaimSource` by the mutex and by the atomic, with liveness (`MutexImplements`, `CasImplements`), and `CallsEnd` |
| `stream` | lists of up to 2 ids, cut at every byte or followed by junk | `ReadsWhatWasWritten`, `StopsAtTheCut`, `CheckerAgrees`, `LooksUpKnown`, `ReadingEnds` |
| `wires` | pairs of wires at every boundary of `VL` | `LeadIsSafe`, `HeadsReadBack`, `SortsWithinALength` |
| `objects` | up to 5 changes of one object, then text or wire | `FieldsKept`, `TextRoundTrips`, `ValidAgrees`, `DecodesToSent`, `V6SortsByTime` |
| `expander` | 2 threads, 4 seeds in 2 slots, 8-bit words | `HitIsExact`, `RepeatIsFree`, `ReturnsDraw`, and the inductive invariant `CacheInv` |
| `host` | 2 processes, 4 calls, 1 restart | `DuplicatesNeed`, `NeverFarAhead`, and the inductive invariant `HostInv` |
| `codec_initial_tick`, `codec_low_bits`, `wires_by_time`, `host_distinct` | | violated on purpose: see [findings](#findings) |

**Bounds.** `CLOCK_SIZE = 4`, `WINDOWS = 8`, `SALT_SIZE = 2` and
`UUID_TIME_INITIAL = 10` keep the proportions that matter: the origin is in the
middle of a window (10 % 4 = 2), times exist before and after it, and adding it
wraps around. The hashes are small enough to collide. The generators' platform
clock reads, in any order and as often as it likes, tick 17, which after rebasing
is the last of a window, so that a bump crosses into the next, and tick 31, the
last of the field, so that a bump wraps in the id; `sources` has ticks 17 and 18.
Two clock sequences suffice to tell the first from another. Three threads are
enough for a third to run between two steps of a second between two steps of a
first. `MaxCalls` bounds the counters and nothing else; in `host` it takes three
calls for two processes to meet, and the fourth is one more. The payloads of
`CuuidStream` have every size from 1 to 16 significant bytes; `wires` takes both
sides of each room of the table as the first byte, `stream` one expanded payload
and one compact payload per size. Two ids are enough for a misread length to
shift the next; `SomeJunk` has a lead no entry matches, the full form's, and short
and long leads, with too few and more than enough bytes behind each. An object
of two-bit digits has all the places of a real one: a variant and a clock in one
digit, times of 15 digits around the version, nodes of 12; `MaxWrites = 5` writes
every field once, or puts a crush, a relabelling and a wire after two of them;
the arguments are wider than their fields, too. One edit to one of the 36
characters reaches every position of both copies of the format; edits come early
(`EditWithin`), since what is printed does not depend on how it came about. The
twister has 8-bit words and a state of 7 words with a shift of 4, which keeps the
two outputs dependent on five words out of seven, and four seeds in two slots, of
which 0 is the seed of a zeroed entry. Threads and processes are symmetric, and
symmetry is used only in the runs without temporal properties.

**Fairness.** `FairSpec` of `CuuidGenerator` is weak fairness of each thread's
step inside a call: the scheduler runs every thread, and a weak compare-and-swap
does not fail spuriously for ever. Nobody is made to call. The number of calls is
bounded, so that a thread overtaken at the mutex or at the atomic by an endless
stream of others (which `std::mutex` does not exclude) is outside of what
`CallsEnd` shows; it shows that no finite set of calls deadlocks or spins.
`FairSpec` of `CuuidStream` is weak fairness of the one call at work.

**Deadlock** is checked in all runs but the codec's, where an id at the end of
its life has no further step, `wires`, which only writes, and `host`, which stops
when its calls are made.

## Findings

Four statements of the documentation or the tests are not what the code does.
The first two no user is likely to meet; all four are exact.

1. *A real node at the tick `UUID_TIME_INITIAL` does not round-trip*
   (`codec_initial_tick`). `condense` rebases its time to 0, and `uncondense`
   takes 0 for "no time" (`cuuid_common.cc:218`, `:240`). `test/test_v6.cc:59-60`
   says that an arbitrary node "takes the expanded wire and still round-trips
   exactly". `ExactUnlessNamed` shows that this is the only such tick.
2. *Crushing does not clear the low 14 bits of the time* (`codec_low_bits`). It
   clears those of the time counted from 2016; adding the origin back leaves
   0x800 (`cuuid_common.cc:192`), against `CHANGELOG.md:61-63` and
   `test/test_v6_threads.cc:43`.
3. *Wires of different lengths do not sort by time* (`wires_by_time`). The tags
   of `VL` in the lead byte do not grow with the length (`cuuid_common.h:81`):
   `README.md:21` says "Sorts by creation time in its condensed form". It holds
   among wires of one length (`SortsWithinALength`), which present-day ids have.
4. *The ids of a host are not distinct by counting* (`host_distinct`).
   `docs/COMPARISON.md:253` calls distinctness within a node "a hard guarantee"
   below 16,384 ids per time bucket, as `clock_seq` is a counter. Each process
   keeps its first clock sequence instead and bumps times (`cuuid_v1.cc:716-718`),
   so one of two processes can move onto a time and clock sequence that the
   platform gave the other: two processes, three ids, one wire. `DuplicatesNeed`
   shows that this takes a moved id, or different clock sequences folded together.

## The proofs

Everything below is checked by TLAPS for every value of the constants that
satisfies the `ASSUME`s of the modules: of `CuuidFields` (`WidthAssumption`,
`XorAssumption`, `HashAssumption`), `CuuidGenerator` (`GeneratorAssumption`),
`CuuidHost` (`HostAssumption`), `CuuidStream` (`StreamAssumption`), `CuuidLayout`
(`LayoutAssumption`), `CuuidObject` (`ObjectAssumption`), `CuuidExpander`
(`ExpanderAssumption`), `CuuidTwister` (`TwisterAssumption`) and `CuuidNodes`
(`NodesAssumption`). TLC evaluates them on each run of the module. Where
`CuuidObject` takes `CuuidFields` as the instance `F`, it restates the first two in
`ObjectAssumption`, and adds that the salt hashed from an argument of `make` is masked,
however wide the node; `F!HashAssumption`, that hashes and expanders give values of
their fields' width, is a hypothesis of the theorems that need it, since TLC would
have to enumerate 2^33 cases of that run's widths. The `codec` run evaluates it.

Every safety invariant and action property of a passing run is stated by a
theorem below.

**Induction** (`NumberLemmas`). The library's induction takes the formula to be
proved as an operator parameter, which the provers cannot instantiate. Two forms
that have none are proved from the well-founded order of the numbers: `Upwards`, for
sets (what contains 0 and with each number below `n` the next contains `0 .. n`),
and `Recursion`, for functions (the steps of a recursion, given as functions on a
set, have a function that takes them). With them the recursive functions of the
model (`Value`, `Sizes`, `Bits`, `Seeded`, `Twisted` and the loop of `InitLoop`)
can be reasoned about. `DivTwice` is what dividing a number digit by digit comes to.

**Arithmetic** (`CuuidFields_proofs`). `CrushType`: crushing gives fields of the
right widths. `CrushedRoundTrips`: crushed fields are condensed to a compact
content and come back. `CrushIdempotent`. `CompactOfInjective`: of one clock
sequence, ids whose times differ by less than the width of the field have
different compact contents, whatever their salts and although the field wraps
(`ModApart`, `RebaseInjective`). `CrushedTimeGrows`: crushing keeps the order of times
since 2016. They rest on `DivModUnique` and `ModShift` and on
`RebaseWindowStart`: a window's start, rebased, is that window's start, window 0
included, which is where the origin must not be a multiple of the window.

**Codec** (`CuuidCodec_proofs`). `ExactRoundTrip` states when a wire gives an id
back, as an equivalence; `ReserialiseStable` that the wire of a decoded id is the
wire it came from, and `MisreadStable` what becomes of that under the other codec.
The inductive invariant is `CodecInv`: a crushed id is a fixed
point of crushing, and the wire and the id read from it are those of the id
first written. `CodecTypes`, `CrushedRoundTripHolds`, `CrushedIsCompactHolds`,
`ExactUnlessNamedHolds` and `KeyStableHolds` follow from it.

**Generators** (`CuuidGenerator_proofs`), for any number of threads and calls and
any behaviour of the platform clock. `ClaimsOrdered` speaks of returned ids only
and is not inductive. `GeneratorInv` adds, for each source (`Top` is `last` or the
atomic), that a thread holds a claim from the step that raised the top until it
returns, that every claim is at most the top, that held claims differ from one
another and from the returned ones, and are above those returned before the call
began. Then every step does one of three things to a source: it leaves its claims
alone (`SourceKeeps`), claims above the top (`SourceClaims`), or returns what was
held (`SourceReturns`); `ClaimsStep` shows which action does which. The parts
`SectionInv`, `AtomicInv`, `ClockInv` and `SinceInv` are inductive over `TypeOK`
(with `ClockInv` resting on `SectionInv`, and `TypeOK` on `ClockInv`), and say why the mutex's claim is above `last` when it is stored and
why a stale value never wins. `WrittenInv` says that a claim is never 0 and that
the fields of an id are made of its claim and its clock sequence alone. From it:
`MutualExclusionHolds`, `ClaimsOrderedHolds`, `OneClockSeqHolds`, `GeneratorTypes`;
and `MutexRefines`, `CasRefines`: both sources implement the safety part of
`ClaimSource`.

The promise of the library, that the ids of a process have different wires, is
`WiresDistinctHolds`. Claims differ (`ClaimsOrderedHolds`) and clock sequences do
not (`OneClockSeqHolds`); `WrittenInv` turns the fields into the claim; then two
crushed ids have different compact contents (`CrushedRoundTrips`,
`CompactOfInjective`), two uncrushed ones under a real node different rebased
times (`RebaseInjective`), and a crushed and an uncrushed one different forms. It
holds without a bound on the clock: `Told` says of which pairs it speaks, claims
less than 2^60 ticks apart (2^60 ticks are 3,600 years), neither of them a v1 claim
that wrapped to 0. `WindowsOrderedHolds` speaks of claims that are `Modern`, from
2016 on and within the field: a clock that is run from before 2016 past that date
takes the times of the first window to 0.

**Hosts** (`CuuidHost_proofs`), for any number of processes, calls and restarts and
any platform that mints nothing twice. `HostInv` ties the statics of a process to
the ids of its life (`Own`): its clock sequence is theirs (`StaticsInv`), and each
of its two sources is ahead of some mint of that life by fewer ticks than the life
has calls (`AheadInv`), which survives the detour of a v6 call, whose time passes
through both sources. `GenerateIsCalled` says what a call does, without the codecs;
`CalledStep` and `RestartStep` go through the conjuncts. `NeverFarAheadHolds` is a part of
it. `DuplicatesNeedHolds` uses the rest: two ids of one wire that were not
folded together claim one time under one clock sequence (`WireTells`, from
`CompactOfInjective` and `RebaseInjective`); within a life claims of a codec grow
(`LifeOrdered`), and two ids that both kept the time and clock sequence of their
mint would have had one mint (`MintInv`).

**Wires** (`CuuidStream_proofs`), for every payload that `condense` can produce.
The three branches of the writer come down to one form (`FrameForm`): a lead that
holds one byte of the payload, only zeros before it, the other bytes after it;
where the first byte kept has no room under the tag, the lead holds the zero before
it, and the last row of the table always has room, for the payload's top byte is
less than 8. `RowShapes` reads the table row by row; no lead matches two
entries (`Leads`), so a reader is at the writer's row (`EntryFound`) and
takes the byte out again (`LeadHolds`): `HeadReadsBack`. Leads of a row grow with
the byte they hold (`LeadGrows`): `WiresSort`. `IdsInvariant` carries both to every
list: `LeadIsSafeHolds`, `HeadsReadBackHolds`, `SortsWithinALengthHolds`.

**Lists** (`CuuidStream_proofs`), of any length, cut at any byte or followed by any
junk. `ListInv` is the inductive invariant, in five parts: `TypesInv`; `WrittenInv`, that
the buffer holds at the place of each id its wire, as far as it was not cut;
`ReadInv`, that the ids delivered are the first ones written, and the position the
end of the last of them, until the reader is past them all; `VerdictInv`, that the
checker refuses only what it stops at; and `WalkInv`, that checker and reader both
stand where a walk from head to head gets. Two lemmas say what happens at a head:
`HeadIsRead`, that the reader takes the id and no more if all of it is there and
throws if it is not, and `HeadIsChecked`, that `_is_serialised`, with its own copy of
the length rule, goes past the same bytes. From them: `ReadsWhatWasWrittenHolds`,
`StopsAtTheCutHolds`, `ListTypes`; `CheckerAgreesHolds`, since two walks over one
buffer stop at one place; and `LooksUpKnownHolds`, that the table is never read with
the index of no entry.

**Objects** (`CuuidObject_proofs`), for every base of a digit and every width of the
variant in it. `Value` and `Digits` are inverse to one another (`ValueOfDigits`,
`DigitsOfValue`), and digits of one length sort as their values do (`ValueOrder`). For
each setter and layout a lemma says which of the 32 digits it writes and which it
leaves (`SetTimeIs`, `SetClockSeqIs`, ..., `CondensedLayoutIs`, `FromBytesIs`), and another what
each getter reads after it (`ReadSetTime`, ...); the digit that variant and clock sequence
share is the case where a setter has to preserve half of what it writes
(`SharedDigit`, `Share`). `FieldsTell` says that the fields determine the object. Texts: `Place` is
where a digit stands, an object has one text (`OneText`), which is the one
`to_string` makes (`ToStringIs`), it is taken (`PrintIsTaken`), and what is taken is that
text but for case (`TakenIsPrinted`); `SameFormat` compares the two copies of the
format, character by character. A node, taken apart for `CuuidFields` and put
together again, is the same number (`NumberOfNode`, `PartsOfNode`).

`ObjectInv` is the inductive invariant: `ShapeInv` (types), `FieldsKept` itself,
`ParsedInv` (an object just parsed is that of its text) and `WireInv` (until the next
write the wire is that of the object sent, and the object in hand what the chosen codec
makes of it); `FieldsKept` alone would do for the setters, but not for a text or a
wire, of which it says nothing. From it: `ObjectTypes`, `FieldsKeptHolds`,
`TextRoundTripsHolds`; `V6SortsByTimeHolds`, from `ValueOrder` on the 16 bytes; and
`DecodesToSentHolds`, with `ExactRoundTrip` of the codec, `FieldsTell` to turn
fields into objects, and the version and variant that every decoded object has.
`ValidAgreesHolds` needs no invariant.

**Expander** (`CuuidExpander_proofs`), for any threads, slots, seeds, slot function
and computation. `CacheInv` says that a valid entry is exact unless its thread is
between the writes to it (`EntriesExact`), what each thread has written so far
(`Written`), and that the seed of its last call is still in its slot, which is
why a repeat is free. `OthersUntouched` is thread-locality; `TypeStep` and `OwnStep`
go through the actions. From it: `HitIsExactHolds`, `RepeatIsFreeHolds`.

`DrawIsExact` is the claim of the comment at `cuuid_v1.cc:61-70`: the loop to word 397
and the twist of two words give what the whole engine draws first, for every seed,
every width of a word, every size of the state, and whatever the exclusive or and the
conjunction compute. `LoopIsSeeded` says that the loop's words are those of the seeded
state; `TwistedWords` that, when the engine twists its state in place, the first two
words are made of words that no twist has reached yet (the far word is not one of
the first two and does not wrap around), and that no later twist changes them. That the loop must end on
exactly word 397 is what breaks under the mutant. With `HitIsExactHolds`, it gives
`ReturnsDrawHolds`: what a call returns, from the cache or not, is the engine's draw.

**Only model-checked.** Liveness, which is out of the prover's reach: `CallsEnd`,
`ReadingEnds`, and the fairness of `ClaimSource` that `MutexImplements` and
`CasImplements` also state (`MutexRefines` and `CasRefines` prove their safety part).

## What is not modelled

- *The hashes* (`fnv_1a`, `xor_fold`, `splitmix64`) are constants: no property
  depends on what these stateless formulas compute, beyond their ranges. The
  slot function of the cache is one, too; the run gives it the code's form.
- *The twister at 32 bits*: TLC runs it at 8, with the code's parameters scaled;
  `DrawIsExact` covers 32. What the code's bitwise operators compute is not modelled
  beyond their range, nor does it matter to the claim.
- *How the two words pack the fields*: `CuuidStream` takes payloads, constrained
  to what `condense` can produce, and does not relate them to fields.
- *The platform's mint*: any mint of a set, or a failure. The macOS mutex around
  it serialises calls that are one step here. How CFUUID and COM lay out the
  bytes they return is left out.
- *An empty buffer passed to `cuuid_v6::unserialise`* directly
  (`cuuid_v6.cc:143`): the readers of `cuuid.hh` never do it.
- *The hex digits* (`chars::hexdigit`, `chars::hexdec`) are of another repository,
  and modelled from how they are used.
- *A mint that is not version 1* keeps its own clock sequence, so
  `WiresDistinct` speaks of stamped ids only.
- *Sorting of the ids by the whole wire across lengths*: it fails, see above.
- *The seams* (`cuuid_trace.h`, `cuuid_exception.h`) are macros that log and throw;
  a throw is modelled where it happens.
- *The prototype* `prototype/cuuid_v2.hh` and its demo: an experiment that nothing
  of the library uses, sequential, with a second copy of the table and of the v6
  layout that are modelled here.
- The benchmarks, the example and the tests, whose claims several properties
  state.

## The plan

The order is by how much of the library's promise rests on a part.

1. *Done.* All modules above, their runs, and the proofs of every safety property
   the runs check.
2. *Packing*: relate payloads and contents, so that the order of wires of one
   length becomes the order of windows, and `CuuidStream`'s lists become lists of
   `CuuidObject`'s objects.
3. *Refinement*: `CuuidHost`'s one-step calls from `CuuidGenerator`'s steps.
