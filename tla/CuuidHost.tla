------------------------------ MODULE CuuidHost ------------------------------
(***************************************************************************)
(* The processes of one host, which share nothing but the platform's mint: *)
(* each has its own statics, and a restart loses them.  A call is one step *)
(* here.  Among the threads of a process that is what ClaimSource shows of *)
(* both sources of times; among processes, the mint is all there is to     *)
(* interleave on.                                                          *)
(*                                                                         *)
(* The platform is healthy: it never mints one time and clock sequence     *)
(* twice, whichever process asks.                                          *)
(***************************************************************************)
EXTENDS CuuidFields, FiniteSetsExt, Sequences

CONSTANTS
    Processes,
    Requests,       \* the pairs [codec, compact] callers use
    Mints,          \* the [time, clock] the platform has to give
    MayStepBack,    \* whether its clock may go back
    Node,           \* the node of the host
    MaxCalls,       \* bounds for TLC: calls, and restarts, of all processes
    MaxRestarts

ASSUME HostAssumption ==
    /\ Requests \subseteq [codec : Codecs, compact : BOOLEAN]
    /\ Mints \subseteq [time : Times \ {0}, clock : Clocks]
    /\ MayStepBack \in BOOLEAN
    /\ Node \in Nodes /\ ~Node.mc
    /\ MaxCalls \in Nat /\ MaxRestarts \in Nat

VARIABLES
    statics,        \* per process: last and clock_seq of operator(), last of v6
    life,           \* per process: how often it was restarted
    minted,         \* what the platform has given
    issued          \* history: the ids returned, in order

vars == <<statics, life, minted, issued>>

Fresh == [last |-> 0, clock_seq |-> -1, last6 |-> 0]

Init ==
    /\ statics = [p \in Processes |-> Fresh]
    /\ life = [p \in Processes |-> 0]
    /\ minted = {}
    /\ issued = <<>>

\* newUUID: unique to the host, and not before what it gave unless the clock may
\* step back.
CanMint(m) ==
    /\ m \notin minted
    /\ MayStepBack \/ \A q \in minted : q.time <= m.time

\* Mutant: a bump leaves a gap.
ClaimPastNext(minted_time, last) ==
    IF minted_time > last THEN minted_time ELSE last + 2

\* Mutant: a stalled clock gives the last time again.
ClaimStalls(minted_time, last) == IF minted_time > last THEN minted_time ELSE last

\* Both sources: the time minted, or the one after the last.
Claim(minted_time, last) ==
    IF minted_time > last THEN minted_time ELSE last + 1

\* Mutant: the clock sequence of the mint stays in the id.
PinnedNothing(s, m) == m.clock

\* The clock sequence of a process is that of its first mint.
Pinned(s, m) == IF s.clock_seq < 0 THEN m.clock ELSE s.clock_seq

\* cuuid::generate: operator() stamps the mint; v6 claims a time again.
Generate(p) ==
    /\ Len(issued) < MaxCalls
    /\ \E m \in Mints, r \in Requests :
        LET s == statics[p]
            stamp == Claim(m.time, s.last)
            seq == Pinned(s, m)
            claim == IF r.codec = "v6" THEN Claim(stamp % TIME_SIZE, s.last6) ELSE stamp
            f == [time  |-> IF r.codec = "v6" THEN claim ELSE stamp % TIME_SIZE,
                  clock |-> seq, node |-> Node]
            crushed == r.codec = "v6" \/ r.compact
            id == IF crushed THEN Crush(r.codec, f) ELSE f
        IN  /\ CanMint(m)
            /\ minted' = minted \cup {m}
            /\ statics' = [statics EXCEPT ![p] =
                    [last |-> stamp, clock_seq |-> seq,
                     last6 |-> IF r.codec = "v6" THEN claim ELSE s.last6]]
            /\ issued' = Append(issued,
                    [process |-> p, life |-> life[p], codec |-> r.codec,
                     crushed |-> crushed, mint |-> m, claim |-> claim, seq |-> seq,
                     wire |-> Condense(r.codec, id)])
    /\ UNCHANGED life

\* A process crashes or is stopped, and starts again.
Restart(p) ==
    /\ FoldSet(LAMBDA q, n : n + life[q], 0, Processes) < MaxRestarts
    /\ life' = [life EXCEPT ![p] = @ + 1]
    /\ statics' = [statics EXCEPT ![p] = Fresh]
    /\ UNCHANGED <<minted, issued>>

Next == \E p \in Processes : Generate(p) \/ Restart(p)

Spec == Init /\ [][Next]_vars

-----------------------------------------------------------------------------
Indices == 1 .. Len(issued)

SameLife(a, b) == a.process = b.process /\ a.life = b.life

\* Whether an id does not carry the time and the clock sequence it was minted with.
Moved(a) == a.claim # a.mint.time \/ a.seq # a.mint.clock

\* Two claims the field can tell apart: they lie within its range of each other, and
\* neither is one of v1 that wrapped to 0, which stands for no time.
InRange(a, b) ==
    /\ a.claim < b.claim + TIME_SIZE /\ b.claim < a.claim + TIME_SIZE
    /\ a.codec = "v1" => a.claim % TIME_SIZE # 0 /\ b.claim % TIME_SIZE # 0

\* What is left of the platform's uniqueness.  Two ids of one codec and one wire
\* were never made by one process between two starts of it; and either one of them
\* was moved off the mint it came from, onto a tick or a clock sequence another
\* process may have, or both were crushed with different clock sequences, which
\* the fold of the low time bits lets meet (cuuid_v1.cc:703-705).
DuplicatesNeed ==
    \A i, j \in Indices :
        LET a == issued[i]
            b == issued[j]
        IN  i # j /\ a.codec = b.codec /\ InRange(a, b) /\ a.wire = b.wire =>
                /\ ~SameLife(a, b)
                /\ Moved(a) \/ Moved(b) \/ (a.crushed /\ b.crushed /\ a.seq # b.seq)

\* The calls of a life up to one of them.
CallsTo(i) == { j \in 1 .. i : SameLife(issued[j], issued[i]) }

\* However long the platform's clock stalls or stays back, and whichever of the two
\* sources its callers alternate between, a process is never ahead of the newest
\* time it was given by more ticks than the calls it made before.
NeverFarAhead ==
    \A i \in Indices : \E j \in CallsTo(i) :
        issued[i].claim < issued[j].mint.time + Cardinality(CallsTo(i))

\* "Within one node ... up to 16,384 distinct ids per time bucket ... Below that
\* rate it is a hard guarantee, not a probability" (docs/COMPARISON.md:253), of the
\* compact form: the ids of a host are distinct while there are fewer of them than
\* clock sequences.
DistinctWithinNode ==
    Len(issued) < CLOCK_SIZE =>
        \A i, j \in Indices :
            /\ i # j /\ issued[i].codec = issued[j].codec
            /\ issued[i].crushed /\ issued[j].crushed
            => issued[i].wire # issued[j].wire
-----------------------------------------------------------------------------
(* An inductive strengthening of the two invariants.                       *)

Ids ==
    [process : Processes, life : Nat, codec : Codecs, crushed : BOOLEAN,
     mint : Mints, claim : Nat, seq : Clocks, wire : Contents]

TypeOK ==
    /\ statics \in [Processes ->
                        [last : Nat, clock_seq : Clocks \cup {-1}, last6 : Nat]]
    /\ life \in [Processes -> Nat]
    /\ minted \subseteq Mints
    /\ issued \in Seq(Ids)

\* The fields that were condensed for an id.
ClaimedFields(a) ==
    [time  |-> IF a.codec = "v6" THEN a.claim ELSE a.claim % TIME_SIZE,
     clock |-> a.seq, node |-> Node]

\* Crushed, the wire is the compact content of these fields; otherwise the fields,
\* their time rebased.
Written(a) ==
    /\ a.claim > 0
    /\ a.codec = "v6" => a.crushed
    /\ a.wire = IF a.crushed
                THEN CompactOf(ClaimedFields(a), SaltOf(Node))
                ELSE Expanded(Rebase(ClaimedFields(a).time), a.seq, Node)

WrittenInv == \A i \in Indices : Written(issued[i])

\* No life begins before the one before it ended.
LifeInv == \A i \in Indices : issued[i].life <= life[issued[i].process]

\* Every mint is used once.
MintInv ==
    /\ \A i \in Indices : issued[i].mint \in minted
    /\ \A i, j \in Indices : i # j => issued[i].mint # issued[j].mint

\* The ids of the life a process is in.
Own(p) == { j \in Indices : issued[j].process = p /\ issued[j].life = life[p] }

\* The statics are those of the life: its clock sequence, and its greatest claims.
StaticsInv ==
    \A p \in Processes : \A j \in Own(p) :
        /\ issued[j].seq = statics[p].clock_seq
        /\ issued[j].codec = "v1" => issued[j].claim <= statics[p].last
        /\ issued[j].codec = "v6" => issued[j].claim <= statics[p].last6

\* A source that gave a time is ahead of some mint by fewer ticks than the life has
\* calls.
AheadInv ==
    \A p \in Processes : \A v \in {statics[p].last, statics[p].last6} :
        v # 0 => \E j \in Own(p) : v < issued[j].mint.time + Cardinality(Own(p))

\* Within a life the clock sequence stays and the claims of a codec grow.
LifeOrdered ==
    \A i, j \in Indices :
        i < j /\ SameLife(issued[i], issued[j]) =>
            /\ issued[i].seq = issued[j].seq
            /\ issued[i].codec = issued[j].codec => issued[i].claim < issued[j].claim

HostInv ==
    /\ TypeOK
    /\ WrittenInv
    /\ LifeInv
    /\ MintInv
    /\ StaticsInv
    /\ AheadInv
    /\ LifeOrdered
    /\ NeverFarAhead
=============================================================================
