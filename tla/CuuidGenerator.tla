--------------------------- MODULE CuuidGenerator ---------------------------
(***************************************************************************)
(* The id generators of one process: UUIDGenerator::operator() (cuuid_v1)  *)
(* and cuuid_v6::generate, called by any number of threads through         *)
(* cuuid::generate.  Both start from the platform's own version-1 mint,    *)
(* whose clock may stall or step back.  UUIDGenerator makes times strictly *)
(* increasing under a static mutex and keeps the process's first clock     *)
(* sequence; a v6 call then claims a time again with a compare-and-swap    *)
(* on a relaxed atomic, and crushes the id.                                *)
(*                                                                         *)
(* An action is at most one access to shared memory.  A time is a natural  *)
(* number of 100 ns ticks: the statics are 64 bits wide and go on counting *)
(* when a platform at the end of the 60-bit range makes the fields wrap.   *)
(***************************************************************************)
EXTENDS CuuidFields, Sequences, FiniteSets

CONSTANTS
    Threads,
    NoThread,       \* the holder of a free mutex
    Requests,       \* the pairs [codec, compact] callers use
    Mints,          \* [v1, time, clock] the platform may mint; v1 is the
                    \* test on variant and version
    Node,           \* the node of every mint of this process
    MintMayFail,    \* whether the backend can throw (uuid_create does)
    MaxCalls        \* bound on the calls made, for TLC

ASSUME GeneratorAssumption ==
    /\ NoThread \notin Threads
    /\ Requests \subseteq [codec : Codecs, compact : BOOLEAN]
    /\ Mints \subseteq [v1 : BOOLEAN, time : Times, clock : Clocks]
    /\ Node \in Nodes
    /\ MintMayFail \in BOOLEAN
    /\ MaxCalls \in Nat

VARIABLES
    mutex,          \* the static mutex of UUIDGenerator::operator()
    last,           \* its static last
    clock_seq,      \* its static clock_seq, -1 until the first mint
    last6,          \* the static atomic last of cuuid_v6::generate
    past6,          \* every value last6 has had: what a relaxed load may see
    pc,             \* per thread: where in the call it is
    request,        \* per thread: the call's arguments
    uuid,           \* per thread: the UUID in hand
    time,           \* per thread: the local time
    view,           \* per thread: the value of last6 it read last (prev)
    since,          \* per thread: ids already returned when the call began
    issued          \* history: the ids returned, in order of return

vars == <<mutex, last, clock_seq, last6, past6,
          pc, request, uuid, time, view, since, issued>>

InCall(t) == pc[t] # "idle"

\* Locals hold these values outside a call.
NoRequest == [codec |-> "v1", compact |-> FALSE]
NoMint == [v1 |-> FALSE, time |-> 0, clock |-> 0]

Init ==
    /\ mutex = NoThread
    /\ last = 0
    /\ clock_seq = -1
    /\ last6 = 0
    /\ past6 = {0}
    /\ pc = [t \in Threads |-> "idle"]
    /\ request = [t \in Threads |-> NoRequest]
    /\ uuid = [t \in Threads |-> NoMint]
    /\ time = [t \in Threads |-> 0]
    /\ view = [t \in Threads |-> 0]
    /\ since = [t \in Threads |-> 0]
    /\ issued = <<>>

Goto(t, label) == pc' = [pc EXCEPT ![t] = label]

statics == <<mutex, last, clock_seq>>
atomics == <<last6, past6, view>>
-----------------------------------------------------------------------------
(***************************************************************************)
(* cuuid::generate and newUUID.                                            *)
(***************************************************************************)
Call(t) ==
    /\ pc[t] = "idle"
    /\ Len(issued) + Cardinality({u \in Threads : InCall(u)}) < MaxCalls
    /\ \E r \in Requests : request' = [request EXCEPT ![t] = r]
    /\ since' = [since EXCEPT ![t] = Len(issued)]
    /\ Goto(t, "mint")
    /\ UNCHANGED <<statics, atomics, uuid, time, issued>>

\* What follows the mint's block in operator(): the v6 claim, or the return.
AfterMint(t) == IF request[t].codec = "v6" THEN "load" ELSE "finish"

\* Only a version-1 mint of the RFC variant takes the mutex and is stamped.
NewUUID(t) ==
    /\ pc[t] = "mint"
    /\ \E m \in Mints :
        /\ uuid' = [uuid EXCEPT ![t] = m]
        /\ Goto(t, IF m.v1 THEN "lock" ELSE AfterMint(t))
    /\ UNCHANGED <<statics, atomics, request, time, since, issued>>

\* std::bad_alloc leaves the call with every static as it was.
NewUUIDFails(t) ==
    /\ MintMayFail
    /\ pc[t] = "mint"
    /\ request' = [request EXCEPT ![t] = NoRequest]
    /\ since' = [since EXCEPT ![t] = 0]
    /\ Goto(t, "idle")
    /\ UNCHANGED <<statics, atomics, uuid, time, issued>>
-----------------------------------------------------------------------------
(***************************************************************************)
(* The critical section of UUIDGenerator::operator().                      *)
(***************************************************************************)
\* Mutant: the lock_guard is left out.
LockNothing(t) ==
    /\ pc[t] = "lock"
    /\ mutex' = t
    /\ Goto(t, "bump")
    /\ UNCHANGED <<last, clock_seq, atomics, request, uuid, time, since, issued>>

Lock(t) ==
    /\ pc[t] = "lock"
    /\ mutex = NoThread
    /\ mutex' = t
    /\ Goto(t, "bump")
    /\ UNCHANGED <<last, clock_seq, atomics, request, uuid, time, since, issued>>

\* Mutant: a repeated time passes.
BumpedOnlyBack(minted, prev) == IF minted < prev THEN prev + 1 ELSE minted

\* Mutant: the platform's time is taken as it comes.
NotBumped(minted, prev) == minted

Bumped(minted, prev) == IF minted <= prev THEN prev + 1 ELSE minted

Bump(t) ==
    /\ pc[t] = "bump"
    /\ time' = [time EXCEPT ![t] = Bumped(uuid[t].time, last)]
    /\ Goto(t, "store")
    /\ UNCHANGED <<statics, atomics, request, uuid, since, issued>>

StoreLast(t) ==
    /\ pc[t] = "store"
    /\ last' = time[t]
    /\ Goto(t, "keep")
    /\ UNCHANGED <<mutex, clock_seq, atomics, request, uuid, time, since, issued>>

\* Mutant: the static follows the platform's clock sequence.
FollowClock(t) ==
    /\ pc[t] = "keep"
    /\ clock_seq' = uuid[t].clock
    /\ Goto(t, "unlock")
    /\ UNCHANGED <<mutex, last, atomics, request, uuid, time, since, issued>>

\* Mutant: the first clock sequence is not kept.
ForgetClock(t) ==
    /\ pc[t] = "keep"
    /\ Goto(t, "unlock")
    /\ UNCHANGED <<statics, atomics, request, uuid, time, since, issued>>

KeepClock(t) ==
    /\ pc[t] = "keep"
    /\ clock_seq' = IF clock_seq < 0 THEN uuid[t].clock ELSE clock_seq
    /\ Goto(t, "unlock")
    /\ UNCHANGED <<mutex, last, atomics, request, uuid, time, since, issued>>

\* Mutant: the mint keeps its own clock sequence.
StampTime(t) == [uuid[t] EXCEPT !.time = time[t] % TIME_SIZE]

\* uuid1_time keeps 60 bits, uuid1_clock_seq 14.
Stamp(t) == [uuid[t] EXCEPT !.time = time[t] % TIME_SIZE, !.clock = clock_seq]

\* Mutant: the mutex is not released.
UnlockNothing(t) ==
    /\ pc[t] = "unlock"
    /\ uuid' = [uuid EXCEPT ![t] = Stamp(t)]
    /\ Goto(t, AfterMint(t))
    /\ UNCHANGED <<statics, atomics, request, time, since, issued>>

Unlock(t) ==
    /\ pc[t] = "unlock"
    /\ uuid' = [uuid EXCEPT ![t] = Stamp(t)]
    /\ mutex' = NoThread
    /\ Goto(t, AfterMint(t))
    /\ UNCHANGED <<last, clock_seq, atomics, request, time, since, issued>>
-----------------------------------------------------------------------------
(***************************************************************************)
(* The claim of cuuid_v6::generate.  A relaxed load may return any value   *)
(* the atomic has had, from the last one this thread saw onwards.  A       *)
(* compare-and-swap that succeeds replaces the newest value; one that      *)
(* fails loads like a plain load.  A spurious failure, and a load that     *)
(* finds the value already in hand, change nothing: they are stuttering.   *)
(***************************************************************************)
Load(t) ==
    /\ pc[t] = "load"
    /\ \E v \in past6 : v >= view[t] /\ view' = [view EXCEPT ![t] = v]
    /\ Goto(t, "cas")
    /\ UNCHANGED <<statics, last6, past6, request, uuid, time, since, issued>>

\* Mutant: a claim reuses the last time.
NextTimeReused(minted, prev) == IF minted > prev THEN minted ELSE prev

NextTime(minted, prev) == IF minted > prev THEN minted ELSE prev + 1

\* Mutant: a store in place of the compare-and-swap.
StoreClaim(t) ==
    /\ pc[t] = "cas"
    /\ last6' = NextTime(uuid[t].time, view[t])
    /\ past6' = past6 \cup {last6'}
    /\ view' = [view EXCEPT ![t] = last6']
    /\ time' = [time EXCEPT ![t] = last6']
    /\ Goto(t, "finish")
    /\ UNCHANGED <<statics, request, uuid, since, issued>>

CasSucceeds(t) ==
    /\ pc[t] = "cas"
    /\ view[t] = last6
    /\ last6' = NextTime(uuid[t].time, view[t])
    /\ past6' = past6 \cup {last6'}
    /\ view' = [view EXCEPT ![t] = last6']
    /\ time' = [time EXCEPT ![t] = last6']
    /\ Goto(t, "finish")
    /\ UNCHANGED <<statics, request, uuid, since, issued>>

CasFails(t) ==
    /\ pc[t] = "cas"
    /\ \E v \in past6 : v > view[t] /\ view' = [view EXCEPT ![t] = v]
    /\ UNCHANGED <<statics, last6, past6, pc, request, uuid, time, since, issued>>
-----------------------------------------------------------------------------
(***************************************************************************)
(* The end of a call: make crushes every v6 id, operator() a version-1     *)
(* mint when compact was asked for (compact_crush tests the version        *)
(* again); any other mint is returned as it came.  The record keeps, for   *)
(* the properties, the time and clock that went into the crush and what    *)
(* had been returned when the call began.                                  *)
(***************************************************************************)
Crushed(t) ==
    request[t].codec = "v6" \/ (request[t].compact /\ uuid[t].v1)

Claimed(t) ==
    IF request[t].codec = "v6" \/ uuid[t].v1 THEN time[t] ELSE uuid[t].time

ResultFields(t) ==
    LET f == [time  |-> IF request[t].codec = "v6" THEN time[t] ELSE uuid[t].time,
              clock |-> uuid[t].clock,
              node  |-> Node]
    IN  IF Crushed(t) THEN Crush(request[t].codec, f) ELSE f

Result(t) ==
    [codec   |-> request[t].codec,
     crushed |-> Crushed(t),
     stamped |-> uuid[t].v1,
     claim   |-> Claimed(t),
     seq     |-> uuid[t].clock,
     since   |-> since[t],
     thread  |-> t,
     fields  |-> ResultFields(t)]

Finish(t) ==
    /\ pc[t] = "finish"
    /\ issued' = Append(issued, Result(t))
    /\ request' = [request EXCEPT ![t] = NoRequest]
    /\ uuid' = [uuid EXCEPT ![t] = NoMint]
    /\ time' = [time EXCEPT ![t] = 0]
    /\ since' = [since EXCEPT ![t] = 0]
    /\ Goto(t, "idle")
    /\ UNCHANGED <<statics, atomics>>

Step(t) ==
    \/ NewUUID(t)
    \/ NewUUIDFails(t)
    \/ Lock(t)
    \/ Bump(t)
    \/ StoreLast(t)
    \/ KeepClock(t)
    \/ Unlock(t)
    \/ Load(t)
    \/ CasSucceeds(t)
    \/ CasFails(t)
    \/ Finish(t)

\* All the calls of the bound are made: the callers stop.
Quiet ==
    /\ Len(issued) = MaxCalls
    /\ UNCHANGED vars

Next ==
    \/ \E t \in Threads : Call(t) \/ Step(t)
    \/ Quiet

(***************************************************************************)
(* Nobody has to call, but a thread inside a call keeps running, and a     *)
(* weak compare-and-swap does not fail spuriously for ever.                *)
(***************************************************************************)
Fairness == \A t \in Threads : WF_vars(Step(t))

Spec == Init /\ [][Next]_vars

FairSpec == Spec /\ Fairness
-----------------------------------------------------------------------------
Labels == {"idle", "mint", "lock", "bump", "store", "keep", "unlock",
           "load", "cas", "finish"}

Ids == [codec : Codecs, crushed : BOOLEAN, stamped : BOOLEAN, claim : Nat,
        seq : Clocks, since : Nat, thread : Threads, fields : Fields]

\* The statics, locals and returned ids keep the widths the code gives them.
TypeOK ==
    /\ mutex \in Threads \cup {NoThread}
    /\ last \in Nat
    /\ clock_seq \in Clocks \cup {-1}
    /\ last6 \in Nat
    /\ past6 \subseteq Nat
    /\ pc \in [Threads -> Labels]
    /\ request \in [Threads -> [codec : Codecs, compact : BOOLEAN]]
    /\ uuid \in [Threads -> [v1 : BOOLEAN, time : Times, clock : Clocks]]
    /\ time \in [Threads -> Nat]
    /\ view \in [Threads -> Nat]
    /\ since \in [Threads -> Nat]
    /\ issued \in Seq(Ids)

InSection(t) == pc[t] \in {"bump", "store", "keep", "unlock"}

\* At most one thread is between the lock and the end of its scope.
MutualExclusion ==
    \A t, u \in Threads : InSection(t) /\ InSection(u) => t = u

\* Ids of the same source: the codec, and for v1 only what operator() stamped.
SameSource(a, b) ==
    /\ a.codec = b.codec
    /\ a.codec = "v1" => a.stamped /\ b.stamped

\* Two calls never get the same claimed time, and a call that begins after
\* another has returned gets a later one, whatever the platform clock does
\* between them (the promise of cuuid_v1.cc:703-705 and cuuid_v6.cc:101-104).
ClaimsOrdered ==
    \A i, j \in 1 .. Len(issued) :
        SameSource(issued[i], issued[j]) /\ i # j =>
            /\ issued[i].claim # issued[j].claim
            /\ i <= issued[j].since => issued[i].claim < issued[j].claim

\* Every stamped id of the process carries one clock sequence, although the
\* platform changes its own: the first one any thread brought.
OneClockSeq ==
    \A i, j \in 1 .. Len(issued) :
        issued[i].stamped /\ issued[j].stamped => issued[i].seq = issued[j].seq

\* The ids that one codec minted within the range of the 60-bit field have
\* distinct wires, so a store keyed by the condensed form never takes two of them
\* for one, also when the field wraps between them.  (A multicast node may look
\* crushed when it is not: then only the crushed ids.  A v1 time that wraps to 0
\* stands for no time.)
Told(a, b) ==
    /\ a.codec = b.codec
    /\ a.stamped /\ b.stamped
    /\ Node.mc => a.crushed /\ b.crushed
    /\ a.claim < b.claim + TIME_SIZE /\ b.claim < a.claim + TIME_SIZE
    /\ a.codec = "v1" => a.claim % TIME_SIZE # 0 /\ b.claim % TIME_SIZE # 0

WiresDistinct ==
    \A i, j \in 1 .. Len(issued) :
        i # j /\ Told(issued[i], issued[j]) =>
            Condense(issued[i].codec, issued[i].fields)
                # Condense(issued[j].codec, issued[j].fields)

\* Times since 2016 that the field holds.
Modern == UUID_TIME_INITIAL .. TIME_SIZE - 1

\* "The byte order of the ids follows time at the granularity of the
\* compaction" (cuuid_v6.cc:106-107): of times since 2016, a crushed id is never
\* dated before one of its codec that was returned when its call began.
WindowsOrdered ==
    \A i, j \in 1 .. Len(issued) :
        /\ i <= issued[j].since
        /\ SameSource(issued[i], issued[j])
        /\ issued[i].crushed /\ issued[j].crushed
        /\ issued[i].claim \in Modern /\ issued[j].claim \in Modern
        => issued[i].fields.time <= issued[j].fields.time

\* Every call ends: no thread starves on the mutex or in the claim's loop.
CallsEnd == \A t \in Threads : InCall(t) ~> ~InCall(t)

(***************************************************************************)
(* Why ClaimsOrdered holds.  There are two sources of times, each with a   *)
(* top no claim is above: the static last for what operator() stamps, the  *)
(* atomic for v6.  A thread holds a claim from the step that raised the    *)
(* top until it returns; what it holds differs from every other claim held *)
(* or returned, and is above those returned before its call began.         *)
(***************************************************************************)
Sources == {"mutex", "cas"}

Top(s) == IF s = "cas" THEN last6 ELSE last

Holds(t, s) ==
    IF s = "cas"
    THEN pc[t] = "finish" /\ request[t].codec = "v6"
    ELSE \/ pc[t] \in {"keep", "unlock"}
         \/ pc[t] = "finish" /\ request[t].codec = "v1" /\ uuid[t].v1

From(id, s) ==
    IF s = "cas" THEN id.codec = "v6" ELSE id.codec = "v1" /\ id.stamped

ClaimsBounded(s) ==
    /\ \A t \in Threads : Holds(t, s) => time[t] <= Top(s)
    /\ \A i \in 1 .. Len(issued) : From(issued[i], s) => issued[i].claim <= Top(s)

HeldApart(s) ==
    \A t, u \in Threads :
        Holds(t, s) /\ Holds(u, s) /\ t # u => time[t] # time[u]

HeldAfterReturned(s) ==
    \A t \in Threads, i \in 1 .. Len(issued) :
        Holds(t, s) /\ From(issued[i], s) =>
            /\ time[t] # issued[i].claim
            /\ i <= since[t] => issued[i].claim < time[t]

ReturnedOrdered(s) ==
    \A i, j \in 1 .. Len(issued) :
        From(issued[i], s) /\ From(issued[j], s) /\ i # j =>
            /\ issued[i].claim # issued[j].claim
            /\ i <= issued[j].since => issued[i].claim < issued[j].claim

\* The mutex is held by whoever is in the section, a time about to be stored is
\* above last, and only version-1 mints get there.
SectionInv ==
    \A t \in Threads :
        /\ InSection(t) => mutex = t
        /\ InSection(t) \/ pc[t] = "lock" => uuid[t].v1
        /\ pc[t] = "store" => time[t] = Bumped(uuid[t].time, last)
        /\ pc[t] = "load" \/ pc[t] = "cas" => request[t].codec = "v6"
        /\ pc[t] \in {"idle", "mint"} => uuid[t] = NoMint
        /\ pc[t] = "idle" => request[t] = NoRequest

\* The atomic only grows, and no thread has seen a value it never had.
AtomicInv ==
    /\ last6 \in past6
    /\ \A v \in past6 : v <= last6
    /\ \A t \in Threads : view[t] \in past6

\* The clock sequence is set before it is read, and never changes again.
ClockInv ==
    /\ \A t \in Threads :
        /\ pc[t] = "unlock" => clock_seq \in Clocks
        /\ uuid[t].v1 /\ pc[t] \in {"load", "cas", "finish"} =>
            clock_seq \in Clocks /\ uuid[t].clock = clock_seq
    /\ \A i \in 1 .. Len(issued) :
        issued[i].stamped => issued[i].seq = clock_seq

\* A call cannot have begun after ids that are not there yet.
SinceInv ==
    /\ \A t \in Threads : since[t] <= Len(issued)
    /\ \A i \in 1 .. Len(issued) : issued[i].since < i

\* The fields an id of a source had when it was crushed, or returned as it was.
ClaimedFields(id) ==
    [time  |-> IF id.codec = "v6" THEN id.claim ELSE id.claim % TIME_SIZE,
     clock |-> id.seq,
     node  |-> Node]

\* A claim is never 0, which stands for no time, and what an id of a source
\* carries is made of its claim and its clock sequence alone.
HeldWritten(t) ==
    /\ Holds(t, "mutex") \/ Holds(t, "cas") => time[t] > 0
    /\ pc[t] = "finish" /\ Holds(t, "mutex") => uuid[t].time = time[t] % TIME_SIZE

ReturnedWritten(id) ==
    /\ id.codec = "v6" => id.crushed
    /\ id.stamped \/ id.codec = "v6" =>
        /\ id.claim > 0
        /\ id.fields = IF id.crushed THEN Crush(id.codec, ClaimedFields(id))
                       ELSE ClaimedFields(id)

WrittenInv ==
    /\ \A t \in Threads : HeldWritten(t)
    /\ \A i \in 1 .. Len(issued) : ReturnedWritten(issued[i])

GeneratorInv ==
    /\ TypeOK
    /\ SectionInv
    /\ SinceInv
    /\ WrittenInv
    /\ AtomicInv
    /\ ClockInv
    /\ \A s \in Sources :
        /\ ClaimsBounded(s)
        /\ HeldApart(s)
        /\ HeldAfterReturned(s)
        /\ ReturnedOrdered(s)

(***************************************************************************)
(* The refinement: each of the two shared times implements ClaimSource.    *)
(* A grant of the first is the store to last under the mutex, a grant of   *)
(* the second the successful compare-and-swap.                             *)
(***************************************************************************)
Slot(asking, granted, t) ==
    CASE pc[t] \in asking  -> [st |-> "asking", time |-> uuid[t].time]
      [] pc[t] \in granted -> [st |-> "granted", time |-> time[t]]
      [] OTHER             -> [st |-> "idle", time |-> 0]

MutexSlots ==
    [t \in Threads |-> Slot({"lock", "bump", "store"}, {"keep", "unlock"}, t)]

CasSlots ==
    [t \in Threads |->
        IF request[t].codec = "v6"
        THEN Slot({"load", "cas"}, {"finish"}, t)
        ELSE Slot({}, {}, t)]

MutexSource == INSTANCE ClaimSource WITH
    MintTimes <- Times, top <- last, slot <- MutexSlots

CasSource == INSTANCE ClaimSource WITH
    MintTimes <- Times, top <- last6, slot <- CasSlots

\* The mutex and the static last behave as one atomic grant per mint.
MutexImplements == MutexSource!Spec

\* So do the relaxed load and the weak compare-and-swap, stale as the values
\* they see may be.
CasImplements == CasSource!Spec
=============================================================================
