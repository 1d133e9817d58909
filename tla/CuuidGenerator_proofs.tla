----------------------- MODULE CuuidGenerator_proofs -----------------------
(***************************************************************************)
(* The generators' invariants, for any number of threads and of calls, any *)
(* behaviour of the platform clock and any widths.                         *)
(***************************************************************************)
EXTENDS CuuidGenerator, CuuidFields_proofs

\* What Append does to a sequence, and to nothing else.
LEMMA AppendFacts ==
    ASSUME NEW S, NEW q \in Seq(S), NEW e \in S
    PROVE  /\ Append(q, e) \in Seq(S)
           /\ Len(q) \in Nat
           /\ Len(Append(q, e)) = Len(q) + 1
           /\ \A i \in 1 .. Len(q) : Append(q, e)[i] = q[i]
           /\ Append(q, e)[Len(q) + 1] = e
PROOF OBVIOUS

\* The elements of a sequence over a set are in the set.
LEMMA ElementType ==
    ASSUME NEW S, NEW q \in Seq(S)
    PROVE  Len(q) \in Nat /\ \A i \in 1 .. Len(q) : q[i] \in S
PROOF OBVIOUS

-----------------------------------------------------------------------------
(* Types.                                                                  *)

\* The id a call returns fits its widths, whatever time was claimed for it.
LEMMA ResultType ==
    ASSUME TypeOK, NEW t \in Threads
    PROVE  Result(t) \in Ids
<1> DEFINE tm == IF request[t].codec = "v6" THEN time[t] ELSE uuid[t].time
           f == [time |-> tm, clock |-> uuid[t].clock, node |-> Node]
<1>1. /\ request[t] \in [codec : Codecs, compact : BOOLEAN]
      /\ uuid[t] \in [v1 : BOOLEAN, time : Times, clock : Clocks]
      /\ time[t] \in Nat /\ since[t] \in Nat
      /\ Node \in Nodes
    BY GeneratorAssumption DEF TypeOK
<1>2. /\ f.time \in Nat /\ f.clock \in Clocks /\ f.node \in Nodes
      /\ request[t].codec \in Codecs
      /\ uuid[t].time \in Nat
    BY <1>1 DEF Times
<1>3. Crush(request[t].codec, f) \in Fields
    BY <1>2, CrushType
<1>4. ~Crushed(t) => f \in Fields
    <2>1. ~Crushed(t) => request[t].codec = "v1"
        BY <1>2 DEF Crushed, Codecs
    <2> QED
        BY <1>1, <2>1 DEF Fields
<1>5. ResultFields(t) \in Fields
    BY <1>3, <1>4 DEF ResultFields
<1>6. Crushed(t) \in BOOLEAN /\ Claimed(t) \in Nat
    BY <1>1, <1>2 DEF Crushed, Claimed
<1> QED
    BY <1>1, <1>2, <1>5, <1>6 DEF Result, Ids

\* The statics before the first call fit their widths.
LEMMA TypeInit == Init => TypeOK
BY GeneratorAssumption, TimeSize
   DEF Init, TypeOK, NoRequest, NoMint, Labels, Codecs

\* Every step keeps the widths; a stamp needs the clock sequence to be set.
LEMMA TypeStep == TypeOK /\ ClockInv /\ [Next]_vars => TypeOK'
<1> SUFFICES ASSUME TypeOK, ClockInv, [Next]_vars
             PROVE  TypeOK'
    OBVIOUS
<1> USE DEF TypeOK, Goto, statics, atomics
<1>1. ASSUME NEW t \in Threads, Call(t)
      PROVE  TypeOK'
    BY <1>1, GeneratorAssumption DEF Call, Labels
<1>2. ASSUME NEW t \in Threads, NewUUID(t)
      PROVE  TypeOK'
    BY <1>2, GeneratorAssumption DEF NewUUID, AfterMint, Labels
<1>3. ASSUME NEW t \in Threads, NewUUIDFails(t)
      PROVE  TypeOK'
    BY <1>3 DEF NewUUIDFails, NoRequest, Codecs, Labels
<1>4. ASSUME NEW t \in Threads, Lock(t)
      PROVE  TypeOK'
    BY <1>4 DEF Lock, Labels
<1>5. ASSUME NEW t \in Threads, Bump(t)
      PROVE  TypeOK'
    BY <1>5 DEF Bump, Bumped, Times, Labels
<1>6. ASSUME NEW t \in Threads, StoreLast(t)
      PROVE  TypeOK'
    BY <1>6 DEF StoreLast, Labels
<1>7. ASSUME NEW t \in Threads, KeepClock(t)
      PROVE  TypeOK'
    BY <1>7 DEF KeepClock, Labels
<1>8. ASSUME NEW t \in Threads, Unlock(t)
      PROVE  TypeOK'
    <2>1. time[t] % TIME_SIZE \in Times
        BY MaskType
    <2>2. clock_seq \in Clocks
        BY <1>8 DEF Unlock, ClockInv
    <2> QED
        BY <1>8, <2>1, <2>2 DEF Unlock, Stamp, AfterMint, Labels
<1>9. ASSUME NEW t \in Threads, Load(t)
      PROVE  TypeOK'
    BY <1>9 DEF Load, Labels
<1>10. ASSUME NEW t \in Threads, CasSucceeds(t)
       PROVE  TypeOK'
    <2>1. uuid[t].time \in Nat /\ view[t] \in Nat
        BY DEF Times
    <2>2. last6' \in Nat
        BY <1>10, <2>1 DEF CasSucceeds, NextTime
    <2>3. /\ past6' \subseteq Nat
          /\ view' \in [Threads -> Nat]
          /\ time' \in [Threads -> Nat]
        BY <1>10, <2>2 DEF CasSucceeds
    <2> QED
        BY <1>10, <2>2, <2>3 DEF CasSucceeds, Labels
<1>11. ASSUME NEW t \in Threads, CasFails(t)
       PROVE  TypeOK'
    BY <1>11 DEF CasFails, Labels
<1>12. ASSUME NEW t \in Threads, Finish(t)
       PROVE  TypeOK'
    <2>1. issued' \in Seq(Ids)
        BY <1>12, ResultType, AppendFacts DEF Finish
    <2> QED
        BY <1>12, <2>1, TimeSize
           DEF Finish, NoRequest, NoMint, Codecs, Labels
<1>13. CASE UNCHANGED vars
    BY <1>13 DEF vars
<1> QED
    BY <1>1, <1>2, <1>3, <1>4, <1>5, <1>6, <1>7, <1>8, <1>9, <1>10, <1>11,
       <1>12, <1>13 DEF Next, Step, Quiet
-----------------------------------------------------------------------------
(* The critical section, the atomic, the history.                          *)

\* Every invariant about the threads holds when none is in a call.
LEMMA InvInit == Init => GeneratorInv
<1> SUFFICES ASSUME Init
             PROVE  GeneratorInv
    OBVIOUS
<1>1. TypeOK
    BY TypeInit
<1>2. SectionInv /\ SinceInv /\ AtomicInv /\ ClockInv /\ WrittenInv
    BY DEF Init, SectionInv, SinceInv, AtomicInv, ClockInv, WrittenInv, HeldWritten,
           InSection, Holds, NoMint
<1>3. ASSUME NEW s \in Sources
      PROVE  ClaimsBounded(s) /\ HeldApart(s) /\ HeldAfterReturned(s)
                /\ ReturnedOrdered(s)
    BY DEF Init, Holds, ClaimsBounded, HeldApart, HeldAfterReturned, ReturnedOrdered
<1> QED
    BY <1>1, <1>2, <1>3 DEF GeneratorInv

\* Whoever is in the section keeps the mutex until it leaves.
LEMMA SectionStep == TypeOK /\ SectionInv /\ [Next]_vars => SectionInv'
<1> SUFFICES ASSUME TypeOK, SectionInv, [Next]_vars
             PROVE  SectionInv'
    OBVIOUS
<1> USE DEF TypeOK, SectionInv, InSection, Goto, statics, atomics
<1>1. ASSUME NEW t \in Threads, Call(t)
      PROVE  SectionInv'
    BY <1>1 DEF Call
<1>2. ASSUME NEW t \in Threads, NewUUID(t)
      PROVE  SectionInv'
    BY <1>2 DEF NewUUID, AfterMint, Codecs
<1>3. ASSUME NEW t \in Threads, NewUUIDFails(t)
      PROVE  SectionInv'
    BY <1>3 DEF NewUUIDFails
<1>4. ASSUME NEW t \in Threads, Lock(t)
      PROVE  SectionInv'
    BY <1>4, GeneratorAssumption DEF Lock
<1>5. ASSUME NEW t \in Threads, Bump(t)
      PROVE  SectionInv'
    BY <1>5 DEF Bump
<1>6. ASSUME NEW t \in Threads, StoreLast(t)
      PROVE  SectionInv'
    BY <1>6 DEF StoreLast
<1>7. ASSUME NEW t \in Threads, KeepClock(t)
      PROVE  SectionInv'
    BY <1>7 DEF KeepClock
<1>8. ASSUME NEW t \in Threads, Unlock(t)
      PROVE  SectionInv'
    BY <1>8 DEF Unlock, Stamp, AfterMint
<1>9. ASSUME NEW t \in Threads, Load(t)
      PROVE  SectionInv'
    BY <1>9 DEF Load
<1>10. ASSUME NEW t \in Threads, CasSucceeds(t)
       PROVE  SectionInv'
    BY <1>10 DEF CasSucceeds
<1>11. ASSUME NEW t \in Threads, CasFails(t)
       PROVE  SectionInv'
    BY <1>11 DEF CasFails
<1>12. ASSUME NEW t \in Threads, Finish(t)
       PROVE  SectionInv'
    BY <1>12 DEF Finish
<1>13. CASE UNCHANGED vars
    BY <1>13 DEF vars
<1> QED
    BY <1>1, <1>2, <1>3, <1>4, <1>5, <1>6, <1>7, <1>8, <1>9, <1>10, <1>11,
       <1>12, <1>13 DEF Next, Step, Quiet

\* Nothing but the compare-and-swap touches the atomic, and it raises it.
LEMMA AtomicStep == TypeOK /\ AtomicInv /\ [Next]_vars => AtomicInv'
<1> SUFFICES ASSUME TypeOK, AtomicInv, [Next]_vars
             PROVE  AtomicInv'
    OBVIOUS
<1> USE DEF TypeOK, AtomicInv
<1>1. ASSUME NEW t \in Threads, Load(t) \/ CasFails(t)
      PROVE  AtomicInv'
    BY <1>1 DEF Load, CasFails
<1>2. ASSUME NEW t \in Threads, CasSucceeds(t)
      PROVE  AtomicInv'
    <2>1. /\ uuid[t].time \in Nat
          /\ view[t] = last6
          /\ last6' = NextTime(uuid[t].time, view[t])
        BY <1>2 DEF CasSucceeds, Times
    <2>2. last6' \in Nat /\ last6' > last6
        BY <2>1 DEF NextTime
    <2> QED
        BY <1>2, <2>2 DEF CasSucceeds
<1>3. ASSUME UNCHANGED <<last6, past6, view>>
      PROVE  AtomicInv'
    BY <1>3
<1>4. ASSUME NEW t \in Threads,
             Call(t) \/ NewUUID(t) \/ NewUUIDFails(t) \/ Lock(t) \/ Bump(t)
                \/ StoreLast(t) \/ KeepClock(t) \/ Unlock(t) \/ Finish(t)
      PROVE  UNCHANGED <<last6, past6, view>>
    BY <1>4 DEF Call, NewUUID, NewUUIDFails, Lock, Bump, StoreLast, KeepClock,
                Unlock, Finish, statics, atomics
<1>5. CASE UNCHANGED vars
    BY <1>3, <1>5 DEF vars
<1> QED
    BY <1>1, <1>2, <1>3, <1>4, <1>5 DEF Next, Step, Quiet

\* The first clock sequence is kept, and stamped on every id.
LEMMA ClockStep ==
    TypeOK /\ SectionInv /\ ClockInv /\ [Next]_vars => ClockInv'
<1> SUFFICES ASSUME TypeOK, SectionInv, ClockInv, [Next]_vars
             PROVE  ClockInv'
    OBVIOUS
<1> USE DEF TypeOK, ClockInv, Goto, statics, atomics
<1>1. ASSUME NEW t \in Threads, Call(t)
      PROVE  ClockInv'
    BY <1>1 DEF Call
<1>2. ASSUME NEW t \in Threads, NewUUID(t)
      PROVE  ClockInv'
    BY <1>2 DEF NewUUID, AfterMint
<1>3. ASSUME NEW t \in Threads, NewUUIDFails(t)
      PROVE  ClockInv'
    BY <1>3 DEF NewUUIDFails
<1>4. ASSUME NEW t \in Threads, Lock(t)
      PROVE  ClockInv'
    BY <1>4 DEF Lock
<1>5. ASSUME NEW t \in Threads, Bump(t)
      PROVE  ClockInv'
    BY <1>5 DEF Bump
<1>6. ASSUME NEW t \in Threads, StoreLast(t)
      PROVE  ClockInv'
    BY <1>6 DEF StoreLast
<1>7. ASSUME NEW t \in Threads, KeepClock(t)
      PROVE  ClockInv'
    <2>1. /\ clock_seq' \in Clocks
          /\ clock_seq \in Clocks => clock_seq' = clock_seq
        BY <1>7 DEF KeepClock, Clocks
    <2>2. \A i \in 1 .. Len(issued) :
              issued[i].stamped => issued[i].seq \in Clocks
        <3>1. \A i \in 1 .. Len(issued) : issued[i] \in Ids
            BY ElementType
        <3> QED
            BY <3>1 DEF Ids
    <2>3. \A i \in 1 .. Len(issued) :
              issued[i].stamped => issued[i].seq = clock_seq'
        BY <2>1, <2>2
    <2>4. \A u \in Threads :
              /\ pc'[u] = "unlock" => clock_seq' \in Clocks
              /\ uuid'[u].v1 /\ pc'[u] \in {"load", "cas", "finish"} =>
                  clock_seq' \in Clocks /\ uuid'[u].clock = clock_seq'
        BY <1>7, <2>1 DEF KeepClock
    <2> QED
        BY <1>7, <2>3, <2>4 DEF KeepClock
<1>8. ASSUME NEW t \in Threads, Unlock(t)
      PROVE  ClockInv'
    BY <1>8 DEF Unlock, Stamp, AfterMint
<1>9. ASSUME NEW t \in Threads, Load(t)
      PROVE  ClockInv'
    BY <1>9 DEF Load
<1>10. ASSUME NEW t \in Threads, CasSucceeds(t)
       PROVE  ClockInv'
    BY <1>10 DEF CasSucceeds
<1>11. ASSUME NEW t \in Threads, CasFails(t)
       PROVE  ClockInv'
    BY <1>11 DEF CasFails
<1>12. ASSUME NEW t \in Threads, Finish(t)
       PROVE  ClockInv'
    <2>1. /\ Result(t) \in Ids
          /\ issued' = Append(issued, Result(t))
          /\ Result(t).stamped => Result(t).seq = clock_seq
        BY <1>12, ResultType DEF Finish, Result
    <2>2. /\ Len(issued') = Len(issued) + 1
          /\ Len(issued) \in Nat
          /\ \A i \in 1 .. Len(issued) : issued'[i] = issued[i]
          /\ issued'[Len(issued) + 1] = Result(t)
        BY <2>1, AppendFacts
    <2>3. \A i \in 1 .. Len(issued') :
              issued'[i].stamped => issued'[i].seq = clock_seq
        BY <2>1, <2>2
    <2> QED
        BY <1>12, <2>3 DEF Finish
<1>13. CASE UNCHANGED vars
    BY <1>13 DEF vars
<1> QED
    BY <1>1, <1>2, <1>3, <1>4, <1>5, <1>6, <1>7, <1>8, <1>9, <1>10, <1>11,
       <1>12, <1>13 DEF Next, Step, Quiet

\* A time claimed past another is not 0, the stamp puts it in the id, and what
\* a call returns is computed from the two.
LEMMA WrittenStep ==
    TypeOK /\ SectionInv /\ WrittenInv /\ [Next]_vars => WrittenInv'
<1> SUFFICES ASSUME TypeOK, SectionInv, WrittenInv, [Next]_vars
             PROVE  WrittenInv'
    OBVIOUS
<1> USE DEF TypeOK, Goto, statics, atomics
<1>1. ASSUME issued' = issued, \A u \in Threads : HeldWritten(u)'
      PROVE  WrittenInv'
    BY <1>1 DEF WrittenInv
<1>2. ASSUME NEW t \in Threads, Call(t) \/ NewUUIDFails(t) \/ Lock(t)
      PROVE  WrittenInv'
    BY <1>1, <1>2 DEF Call, NewUUIDFails, Lock, WrittenInv, HeldWritten, Holds
<1>3. ASSUME NEW t \in Threads, NewUUID(t)
      PROVE  WrittenInv'
    BY <1>1, <1>3 DEF NewUUID, AfterMint, WrittenInv, HeldWritten, Holds
<1>4. ASSUME NEW t \in Threads, Bump(t)
      PROVE  WrittenInv'
    BY <1>1, <1>4 DEF Bump, WrittenInv, HeldWritten, Holds
<1>5. ASSUME NEW t \in Threads, StoreLast(t)
      PROVE  WrittenInv'
    <2>1. time[t] > 0
        BY <1>5 DEF StoreLast, SectionInv, Bumped, Times
    <2> QED
        BY <1>1, <1>5, <2>1 DEF StoreLast, WrittenInv, HeldWritten, Holds
<1>6. ASSUME NEW t \in Threads, KeepClock(t)
      PROVE  WrittenInv'
    BY <1>1, <1>6 DEF KeepClock, WrittenInv, HeldWritten, Holds
<1>7. ASSUME NEW t \in Threads, Unlock(t)
      PROVE  WrittenInv'
    <2>1. time[t] > 0 /\ Holds(t, "mutex")
        BY <1>7 DEF Unlock, WrittenInv, HeldWritten, Holds
    <2> QED
        BY <1>1, <1>7, <2>1
           DEF Unlock, AfterMint, Stamp, WrittenInv, HeldWritten, Holds
<1>8. ASSUME NEW t \in Threads, Load(t) \/ CasFails(t)
      PROVE  WrittenInv'
    BY <1>1, <1>8 DEF Load, CasFails, WrittenInv, HeldWritten, Holds
<1>9. ASSUME NEW t \in Threads, CasSucceeds(t)
      PROVE  WrittenInv'
    <2>1. last6' > 0 /\ time'[t] = last6'
        BY <1>9 DEF CasSucceeds, NextTime, Times
    <2>2. request[t].codec = "v6"
        BY <1>9 DEF CasSucceeds, SectionInv
    <2> QED
        BY <1>1, <1>9, <2>1, <2>2 DEF CasSucceeds, WrittenInv, HeldWritten, Holds
<1>10. ASSUME NEW t \in Threads, Finish(t)
       PROVE  WrittenInv'
    <2>1. ReturnedWritten(Result(t))
        <3>1. request[t].codec \in Codecs
            OBVIOUS
        <3>2. /\ request[t].codec = "v6" => Holds(t, "cas")
              /\ request[t].codec = "v1" /\ uuid[t].v1 => Holds(t, "mutex")
            BY <1>10 DEF Finish, Holds
        <3>3. uuid[t].v1 \/ request[t].codec = "v6" =>
                  /\ Claimed(t) = time[t]
                  /\ Claimed(t) > 0
                  /\ request[t].codec = "v1" => uuid[t].time = Claimed(t) % TIME_SIZE
            BY <1>10, <3>1, <3>2 DEF Finish, Claimed, WrittenInv, HeldWritten, Codecs
        <3>4. ASSUME uuid[t].v1 \/ request[t].codec = "v6"
              PROVE  ResultFields(t) = IF Crushed(t)
                                       THEN Crush(request[t].codec, ClaimedFields(Result(t)))
                                       ELSE ClaimedFields(Result(t))
            BY <3>1, <3>3, <3>4 DEF ResultFields, ClaimedFields, Result, Codecs
        <3> QED
            BY <3>3, <3>4 DEF ReturnedWritten, Result, Crushed
    <2>2. \A i \in 1 .. Len(issued') : ReturnedWritten(issued'[i])
        BY <1>10, <2>1, ResultType, AppendFacts DEF Finish, WrittenInv
    <2>3. \A u \in Threads : HeldWritten(u)'
        BY <1>10 DEF Finish, WrittenInv, HeldWritten, Holds
    <2> QED
        BY <2>2, <2>3 DEF WrittenInv
<1>11. CASE UNCHANGED vars
    BY <1>1, <1>11 DEF vars, WrittenInv, HeldWritten, Holds
<1> QED
    BY <1>2, <1>3, <1>4, <1>5, <1>6, <1>7, <1>8, <1>9, <1>10, <1>11
       DEF Next, Step, Quiet

\* The history only grows, at its end.
LEMMA SinceStep == TypeOK /\ SinceInv /\ [Next]_vars => SinceInv'
<1> SUFFICES ASSUME TypeOK, SinceInv, [Next]_vars
             PROVE  SinceInv'
    OBVIOUS
<1> USE DEF TypeOK, SinceInv
<1>1. ASSUME NEW t \in Threads, Call(t)
      PROVE  SinceInv'
    <2>1. Len(issued) \in Nat
        BY ElementType
    <2> QED
        BY <1>1, <2>1 DEF Call
<1>2. ASSUME NEW t \in Threads, NewUUIDFails(t)
      PROVE  SinceInv'
    <2>1. Len(issued) \in Nat
        BY ElementType
    <2> QED
        BY <1>2, <2>1 DEF NewUUIDFails
<1>3. ASSUME NEW t \in Threads, Finish(t)
      PROVE  SinceInv'
    <2>1. /\ Result(t) \in Ids
          /\ issued' = Append(issued, Result(t))
          /\ Result(t).since = since[t]
        BY <1>3, ResultType DEF Finish, Result
    <2>2. /\ Len(issued') = Len(issued) + 1
          /\ Len(issued) \in Nat
          /\ \A i \in 1 .. Len(issued) : issued'[i] = issued[i]
          /\ issued'[Len(issued) + 1] = Result(t)
        BY <2>1, AppendFacts
    <2>3. ASSUME NEW i \in 1 .. Len(issued')
          PROVE  issued'[i].since < i
        <3>1. CASE i \in 1 .. Len(issued)
            BY <2>2, <3>1
        <3>2. CASE i = Len(issued) + 1
            <4>1. since[t] <= Len(issued) /\ since[t] \in Nat
                OBVIOUS
            <4> QED
                BY <2>1, <2>2, <3>2, <4>1
        <3> QED
            BY <2>2, <3>1, <3>2
    <2>4. \A u \in Threads : since'[u] <= Len(issued')
        BY <1>3, <2>2 DEF Finish
    <2> QED
        BY <2>3, <2>4
<1>4. ASSUME UNCHANGED <<since, issued>>
      PROVE  SinceInv'
    BY <1>4
<1>5. ASSUME NEW t \in Threads,
             NewUUID(t) \/ Lock(t) \/ Bump(t) \/ StoreLast(t) \/ KeepClock(t)
                \/ Unlock(t) \/ Load(t) \/ CasSucceeds(t) \/ CasFails(t)
      PROVE  UNCHANGED <<since, issued>>
    BY <1>5 DEF NewUUID, Lock, Bump, StoreLast, KeepClock, Unlock, Load,
                CasSucceeds, CasFails
<1>6. CASE UNCHANGED vars
    BY <1>4, <1>6 DEF vars
<1> QED
    BY <1>1, <1>2, <1>3, <1>4, <1>5, <1>6 DEF Next, Step, Quiet

-----------------------------------------------------------------------------
(* The claims of one source.  To a source a step is one of three: no new   *)
(* claim, a claim above its top, or the return of an id.                   *)

ClaimsInv(s) ==
    /\ ClaimsBounded(s)
    /\ HeldApart(s)
    /\ HeldAfterReturned(s)
    /\ ReturnedOrdered(s)

\* No thread but t gains a claim, and what the others hold does not change.
OthersKeep(s, t) ==
    \A u \in Threads \ {t} :
        Holds(u, s)' => Holds(u, s) /\ time'[u] = time[u] /\ since'[u] = since[u]

\* A step that neither claims nor returns keeps the order of the claims.
LEMMA SourceKeeps ==
    ASSUME NEW s \in Sources, TypeOK, ClaimsInv(s),
           NEW t \in Threads, OthersKeep(s, t),
           Holds(t, s)' => Holds(t, s) /\ time'[t] = time[t] /\ since'[t] = since[t],
           issued' = issued, Top(s)' = Top(s)
    PROVE  ClaimsInv(s)'
<1>1. \A u \in Threads :
          Holds(u, s)' => Holds(u, s) /\ time'[u] = time[u] /\ since'[u] = since[u]
    BY DEF OthersKeep
<1>2. ClaimsBounded(s)'
    BY <1>1 DEF ClaimsInv, ClaimsBounded, From
<1>3. HeldApart(s)'
    BY <1>1 DEF ClaimsInv, HeldApart
<1>4. HeldAfterReturned(s)'
    BY <1>1 DEF ClaimsInv, HeldAfterReturned, From
<1>5. ReturnedOrdered(s)'
    BY DEF ClaimsInv, ReturnedOrdered, From
<1> QED
    BY <1>2, <1>3, <1>4, <1>5 DEF ClaimsInv

\* A claim above the top is above every claim held or returned before it.
LEMMA SourceClaims ==
    ASSUME NEW s \in Sources, TypeOK, TypeOK', ClaimsInv(s),
           NEW t \in Threads, OthersKeep(s, t),
           time'[t] > Top(s), issued' = issued, Top(s)' = time'[t]
    PROVE  ClaimsInv(s)'
<1>1. \A u \in Threads \ {t} :
          Holds(u, s)' => Holds(u, s) /\ time'[u] = time[u] /\ since'[u] = since[u]
    BY DEF OthersKeep
<1>2. /\ Top(s) \in Nat /\ Top(s)' \in Nat /\ time'[t] \in Nat
      /\ \A u \in Threads : time[u] \in Nat
      /\ \A i \in 1 .. Len(issued) : issued[i].claim \in Nat
    <2>1. \A i \in 1 .. Len(issued) : issued[i] \in Ids
        BY ElementType DEF TypeOK
    <2> QED
        BY <2>1 DEF TypeOK, Top, Ids
<1>3. ClaimsBounded(s)'
    BY <1>1, <1>2 DEF ClaimsInv, ClaimsBounded, From
<1>4. HeldApart(s)'
    BY <1>1, <1>2 DEF ClaimsInv, ClaimsBounded, HeldApart
<1>5. HeldAfterReturned(s)'
    BY <1>1, <1>2 DEF ClaimsInv, ClaimsBounded, HeldAfterReturned, From
<1>6. ReturnedOrdered(s)'
    BY DEF ClaimsInv, ReturnedOrdered, From
<1> QED
    BY <1>3, <1>4, <1>5, <1>6 DEF ClaimsInv

\* An id that returns carries the claim its thread held.
LEMMA SourceReturns ==
    ASSUME NEW s \in Sources, TypeOK, SinceInv, ClaimsInv(s),
           NEW t \in Threads, OthersKeep(s, t),
           NEW e \in Ids, issued' = Append(issued, e),
           From(e, s) => Holds(t, s) /\ e.claim = time[t] /\ e.since = since[t],
           ~Holds(t, s)', Top(s)' = Top(s)
    PROVE  ClaimsInv(s)'
<1>1. \A u \in Threads :
          Holds(u, s)' => /\ u # t /\ Holds(u, s)
                          /\ time'[u] = time[u] /\ since'[u] = since[u]
    BY DEF OthersKeep
<1> DEFINE n == Len(issued)
<1>2. /\ n \in Nat
      /\ Len(issued') = n + 1
      /\ \A i \in 1 .. n : issued'[i] = issued[i]
      /\ issued'[n + 1] = e
    BY AppendFacts DEF TypeOK
<1>3. /\ \A i \in 1 .. n : i \in 1 .. n + 1 /\ i # n + 1 /\ issued[i].since < i
      /\ \A i \in 1 .. n + 1 : i \in 1 .. n \/ i = n + 1
      /\ \A u \in Threads : since[u] <= n /\ since[u] \in Nat
      /\ \A i \in 1 .. n : issued[i].since \in Nat
    <2>1. \A i \in 1 .. n : issued[i] \in Ids
        BY ElementType DEF TypeOK
    <2>2. \A i \in 1 .. n : issued[i].since \in Nat
        BY <2>1 DEF Ids
    <2>3. \A u \in Threads : since[u] <= n /\ since[u] \in Nat
        BY DEF SinceInv, TypeOK
    <2>4. \A i \in 1 .. n : issued[i].since < i
        BY DEF SinceInv
    <2> HIDE DEF n
    <2> QED
        BY <1>2, <2>2, <2>3, <2>4
<1> HIDE DEF n
<1>4. ClaimsBounded(s)'
    BY <1>1, <1>2, <1>3 DEF ClaimsInv, ClaimsBounded, From, n
<1>5. HeldApart(s)'
    BY <1>1 DEF ClaimsInv, HeldApart
<1>6. HeldAfterReturned(s)'
    <2> SUFFICES ASSUME NEW u \in Threads, NEW i \in 1 .. n + 1,
                        Holds(u, s)', From(issued'[i], s)
                 PROVE  /\ time'[u] # issued'[i].claim
                        /\ i <= since'[u] => issued'[i].claim < time'[u]
        BY <1>2 DEF HeldAfterReturned, From
    <2>1. CASE i \in 1 .. n
        BY <1>1, <1>2, <2>1 DEF ClaimsInv, HeldAfterReturned, n
    <2>2. CASE i = n + 1
        BY <1>1, <1>2, <1>3, <2>2 DEF ClaimsInv, HeldApart
    <2> QED
        BY <1>3, <2>1, <2>2
<1>7. ReturnedOrdered(s)'
    <2> SUFFICES ASSUME NEW i \in 1 .. n + 1, NEW j \in 1 .. n + 1, i # j,
                        From(issued'[i], s), From(issued'[j], s)
                 PROVE  /\ issued'[i].claim # issued'[j].claim
                        /\ i <= issued'[j].since =>
                              issued'[i].claim < issued'[j].claim
        BY <1>2 DEF ReturnedOrdered, From
    <2>1. CASE i \in 1 .. n /\ j \in 1 .. n
        BY <1>2, <2>1 DEF ClaimsInv, ReturnedOrdered, n
    <2>2. CASE i \in 1 .. n /\ j = n + 1
        BY <1>2, <1>3, <2>2 DEF ClaimsInv, HeldAfterReturned, n
    <2>3. CASE i = n + 1 /\ j \in 1 .. n
        BY <1>2, <1>3, <2>3 DEF ClaimsInv, HeldAfterReturned, n
    <2> QED
        BY <1>2, <1>3, <2>1, <2>2, <2>3
<1> QED
    BY <1>4, <1>5, <1>6, <1>7 DEF ClaimsInv

\* Which of the three each action is: only the store to last claims from the
\* mutex's source, only the compare-and-swap from the atomic.
LEMMA ClaimsStep ==
    ASSUME NEW s \in Sources, TypeOK, TypeOK', SectionInv, SinceInv, AtomicInv,
           ClaimsInv(s), [Next]_vars
    PROVE  ClaimsInv(s)'
<1> DEFINE Keeps(t) ==
               /\ OthersKeep(s, t)
               /\ Holds(t, s)' => /\ Holds(t, s)
                                  /\ time'[t] = time[t] /\ since'[t] = since[t]
               /\ issued' = issued /\ Top(s)' = Top(s)
           Raises(t) ==
               /\ OthersKeep(s, t)
               /\ time'[t] > Top(s) /\ issued' = issued /\ Top(s)' = time'[t]
<1>1. ASSUME NEW t \in Threads,
             Call(t) \/ NewUUIDFails(t) \/ Lock(t) \/ Bump(t) \/ KeepClock(t)
                \/ Load(t) \/ CasFails(t)
      PROVE  Keeps(t)
    <2> USE DEF Goto, statics, atomics, TypeOK, OthersKeep, Holds, Top
    <2>1. ASSUME Call(t)
          PROVE  Keeps(t)
        BY <2>1 DEF Call
    <2>5. ASSUME NewUUIDFails(t)
          PROVE  Keeps(t)
        BY <2>5 DEF NewUUIDFails
    <2>2. ASSUME Lock(t) \/ Bump(t)
          PROVE  Keeps(t)
        BY <2>2 DEF Lock, Bump
    <2>3. ASSUME KeepClock(t)
          PROVE  Keeps(t)
        BY <2>3 DEF KeepClock
    <2>4. ASSUME Load(t) \/ CasFails(t)
          PROVE  Keeps(t)
        BY <2>4 DEF Load, CasFails
    <2> QED
        BY <1>1, <2>1, <2>2, <2>3, <2>4, <2>5
<1>2. ASSUME NEW t \in Threads, NewUUID(t)
      PROVE  Keeps(t)
    BY <1>2 DEF NewUUID, AfterMint, Goto, statics, atomics, TypeOK, OthersKeep,
                Holds, Top
<1>3. ASSUME NEW t \in Threads, Unlock(t)
      PROVE  Keeps(t)
    BY <1>3 DEF Unlock, AfterMint, Stamp, Goto, atomics, TypeOK, SectionInv,
                InSection, Codecs, OthersKeep, Holds, Top, Sources
<1>4. ASSUME NEW t \in Threads, StoreLast(t), s = "mutex"
      PROVE  Raises(t)
    <2>1. time[t] > last
        BY <1>4 DEF StoreLast, SectionInv, Bumped, TypeOK, Times
    <2> QED
        BY <1>4, <2>1 DEF StoreLast, Goto, atomics, TypeOK, OthersKeep, Holds, Top
<1>5. ASSUME NEW t \in Threads, StoreLast(t), s = "cas"
      PROVE  Keeps(t)
    BY <1>5 DEF StoreLast, Goto, atomics, TypeOK, OthersKeep, Holds, Top
<1>6. ASSUME NEW t \in Threads, CasSucceeds(t), s = "cas"
      PROVE  Raises(t)
    <2>1. last6' > last6
        BY <1>6 DEF CasSucceeds, NextTime, TypeOK, Times
    <2> QED
        BY <1>6, <2>1 DEF CasSucceeds, Goto, statics, TypeOK, OthersKeep, Holds, Top
<1>7. ASSUME NEW t \in Threads, CasSucceeds(t), s = "mutex"
      PROVE  Keeps(t)
    BY <1>7 DEF CasSucceeds, Goto, statics, TypeOK, SectionInv, OthersKeep, Holds, Top
<1>8. ASSUME NEW t \in Threads, Finish(t)
      PROVE  ClaimsInv(s)'
    <2>1. Result(t) \in Ids
        BY ResultType
    <2>2. /\ issued' = Append(issued, Result(t))
          /\ OthersKeep(s, t)
          /\ ~Holds(t, s)'
          /\ Top(s)' = Top(s)
        BY <1>8 DEF Finish, Goto, statics, atomics, TypeOK, OthersKeep, Holds, Top
    <2>3. From(Result(t), s) => /\ Holds(t, s)
                                /\ Result(t).claim = time[t]
                                /\ Result(t).since = since[t]
        BY <1>8 DEF Finish, From, Result, Claimed, Holds
    <2> QED
        BY <2>1, <2>2, <2>3, SourceReturns
<1>9. CASE UNCHANGED vars
    BY <1>9 DEF vars, ClaimsInv, ClaimsBounded, HeldApart, HeldAfterReturned,
                ReturnedOrdered, Holds, From, Top
<1>10. ASSUME NEW t \in Threads, Keeps(t)
       PROVE  ClaimsInv(s)'
    BY <1>10, SourceKeeps
<1>11. ASSUME NEW t \in Threads, Raises(t)
       PROVE  ClaimsInv(s)'
    BY <1>11, SourceClaims
<1> HIDE DEF Keeps, Raises
<1> QED
    BY <1>1, <1>2, <1>3, <1>4, <1>5, <1>6, <1>7, <1>8, <1>9, <1>10, <1>11
       DEF Next, Step, Quiet, Sources

-----------------------------------------------------------------------------
(* The theorems.                                                           *)

\* Every step of the generators keeps the inductive invariant.
LEMMA InvStep == GeneratorInv /\ [Next]_vars => GeneratorInv'
<1> SUFFICES ASSUME GeneratorInv, [Next]_vars
             PROVE  GeneratorInv'
    OBVIOUS
<1>1. TypeOK' /\ SectionInv' /\ SinceInv' /\ AtomicInv' /\ ClockInv' /\ WrittenInv'
    BY TypeStep, SectionStep, SinceStep, AtomicStep, ClockStep, WrittenStep
       DEF GeneratorInv
<1>2. ASSUME NEW s \in Sources
      PROVE  ClaimsInv(s)'
    BY <1>1, ClaimsStep DEF GeneratorInv, ClaimsInv
<1> QED
    BY <1>1, <1>2 DEF GeneratorInv, ClaimsInv

\* The generators' inductive invariant always holds.
THEOREM GeneratorInvariant == Spec => []GeneratorInv
<1>1. Init => GeneratorInv
    BY InvInit
<1>2. GeneratorInv /\ [Next]_vars => GeneratorInv'
    BY InvStep
<1> QED
    BY <1>1, <1>2, PTL DEF Spec

\* The statics, locals and ids keep their widths (static last, uuid1_time).
THEOREM GeneratorTypes == Spec => []TypeOK
<1>1. GeneratorInv => TypeOK
    BY DEF GeneratorInv
<1> QED
    BY <1>1, GeneratorInvariant, PTL

\* The scope of the lock_guard of operator() has one thread at a time.
THEOREM MutualExclusionHolds == Spec => []MutualExclusion
<1>1. GeneratorInv => MutualExclusion
    BY DEF GeneratorInv, SectionInv, MutualExclusion
<1> QED
    BY <1>1, GeneratorInvariant, PTL

\* No claimed time is given twice, and none after a later one has returned.
THEOREM ClaimsOrderedHolds == Spec => []ClaimsOrdered
<1>1. ASSUME GeneratorInv
      PROVE  ClaimsOrdered
    <2> SUFFICES ASSUME NEW i \in 1 .. Len(issued), NEW j \in 1 .. Len(issued),
                        SameSource(issued[i], issued[j]), i # j
                 PROVE  /\ issued[i].claim # issued[j].claim
                        /\ i <= issued[j].since => issued[i].claim < issued[j].claim
        BY DEF ClaimsOrdered
    <2>1. issued[i] \in Ids /\ issued[j] \in Ids
        BY <1>1, ElementType DEF GeneratorInv, TypeOK
    <2>2. \E s \in Sources : From(issued[i], s) /\ From(issued[j], s)
        BY <2>1 DEF Ids, Codecs, Sources, SameSource, From
    <2> QED
        BY <1>1, <2>2 DEF GeneratorInv, ReturnedOrdered
<1> QED
    BY <1>1, GeneratorInvariant, PTL

\* All stamped ids carry the process's first clock sequence.
THEOREM OneClockSeqHolds == Spec => []OneClockSeq
<1>1. GeneratorInv => OneClockSeq
    BY DEF GeneratorInv, ClockInv, OneClockSeq
<1> QED
    BY <1>1, GeneratorInvariant, PTL

\* The fields of an id of a source are made of its claim as it is, if that fits.
LEMMA ClaimedFieldsFit ==
    ASSUME NEW id \in Ids, id.claim \in Times
    PROVE  ClaimedFields(id) = [time |-> id.claim, clock |-> id.seq, node |-> Node]
<1>1. TIME_SIZE * 0 + id.claim = id.claim
    BY TimeSize DEF Times
<1>2. id.claim % TIME_SIZE = id.claim
    BY <1>1, DivModUnique, TimeSize DEF Times
<1> QED
    BY <1>2 DEF ClaimedFields

\* Two claims that tell ids apart put two times in the fields, neither of them 0
\* and within the range of the field: v1 masks both to 60 bits, v6 neither.
LEMMA ToldApart ==
    ASSUME NEW a \in Ids, NEW b \in Ids, Told(a, b), a.claim > 0, b.claim > 0,
           a.claim # b.claim
    PROVE  LET x == ClaimedFields(a).time
               y == ClaimedFields(b).time
           IN  /\ x \in Nat \ {0} /\ y \in Nat \ {0}
               /\ x < y + TIME_SIZE /\ y < x + TIME_SIZE
               /\ x # y
<1> DEFINE x == ClaimedFields(a).time
           y == ClaimedFields(b).time
<1> SUFFICES /\ x \in Nat \ {0} /\ y \in Nat \ {0}
             /\ x < y + TIME_SIZE /\ y < x + TIME_SIZE
             /\ x # y
    OBVIOUS
<1>1. /\ a.claim \in Nat /\ b.claim \in Nat /\ a.codec = b.codec
      /\ a.codec \in {"v1", "v6"} /\ TIME_SIZE \in Nat \ {0}
      /\ a.claim < b.claim + TIME_SIZE /\ b.claim < a.claim + TIME_SIZE
    BY TimeSize DEF Ids, Told, Codecs
<1>2. CASE a.codec = "v6"
    BY <1>1, <1>2 DEF ClaimedFields
<1>3. CASE a.codec = "v1"
    <2>1. x = a.claim % TIME_SIZE /\ y = b.claim % TIME_SIZE
        BY <1>1, <1>3 DEF ClaimedFields
    <2>2. x \in 0 .. TIME_SIZE - 1 /\ y \in 0 .. TIME_SIZE - 1
        <3>0. a.claim \in Int /\ b.claim \in Int
            BY <1>1
        <3>1. a.claim % TIME_SIZE \in 0 .. TIME_SIZE - 1
            BY <3>0, DivMod, TimeSize
        <3>2. b.claim % TIME_SIZE \in 0 .. TIME_SIZE - 1
            BY <3>0, DivMod, TimeSize
        <3> HIDE DEF x, y
        <3> QED
            BY <2>1, <3>1, <3>2
    <2>3. x # 0 /\ y # 0
        BY <2>1, <1>3 DEF Told
    <2>4. x # y
        BY <2>1, <1>1, ModApart
    <2> HIDE DEF x, y
    <2> QED
        BY <2>2, <2>3, <2>4, <1>1
<1> QED
    BY <1>1, <1>2, <1>3

\* What is written for a stamped id: crushed, the compact content of its claimed
\* fields, else, under a real node, their time rebased.
LEMMA WireOfClaim ==
    ASSUME NEW id \in Ids, ReturnedWritten(id), id.stamped
    PROVE  LET f == ClaimedFields(id) IN
           /\ id.crushed =>
                Condense(id.codec, id.fields) = CompactOf(f, SaltOf(Node))
           /\ ~id.crushed /\ ~Node.mc =>
                Condense(id.codec, id.fields) = Expanded(Rebase(f.time), id.seq, Node)
<1> DEFINE f == ClaimedFields(id)
<1>1. /\ id.codec \in Codecs /\ id.seq \in Clocks /\ Node \in Nodes
      /\ id.claim \in Nat
    BY GeneratorAssumption DEF Ids
<1>2. id.claim % TIME_SIZE \in Times
    BY <1>1, MaskType
<1>3. f.time \in Nat /\ f.clock = id.seq /\ f.node = Node
    BY <1>1, <1>2, TimeSize DEF ClaimedFields, Times
<1> HIDE DEF f
<1>4. ASSUME id.crushed
      PROVE  Condense(id.codec, id.fields) = CompactOf(f, SaltOf(Node))
    <2>1. id.fields = Crush(id.codec, f)
        BY <1>4 DEF ReturnedWritten, f
    <2> QED
        BY <2>1, <1>1, <1>3, CrushedRoundTrips
<1>5. ASSUME ~id.crushed, ~Node.mc
      PROVE  Condense(id.codec, id.fields) = Expanded(Rebase(f.time), id.seq, Node)
    <2>1. id.fields = f
        BY <1>5 DEF ReturnedWritten, f
    <2>2. Node # CalculateNode(id.codec, CompactOf(f, Node.salt))
        BY <1>5 DEF CalculateNode, MulticastOnly
    <2> QED
        BY <2>1, <2>2, <1>3, <1>5 DEF Condense
<1> QED
    BY <1>4, <1>5 DEF f

\* A store keyed by the condensed form never takes two stamped ids of a process
\* for one, also when the platform's clock wraps the 60-bit field between them.
THEOREM WiresDistinctHolds == Spec => []WiresDistinct
<1>1. ASSUME GeneratorInv, ClaimsOrdered, OneClockSeq
      PROVE  WiresDistinct
    <2> SUFFICES ASSUME NEW i \in 1 .. Len(issued), NEW j \in 1 .. Len(issued),
                        i # j,
                        Told(issued[i], issued[j]),
                        Condense(issued[i].codec, issued[i].fields)
                            = Condense(issued[j].codec, issued[j].fields)
                 PROVE  FALSE
        BY DEF WiresDistinct
    <2> DEFINE a == issued[i]
               b == issued[j]
               f == ClaimedFields(a)
               g == ClaimedFields(b)
    <2>1. /\ a \in Ids /\ b \in Ids
          /\ ReturnedWritten(a) /\ ReturnedWritten(b)
        BY <1>1, ElementType DEF GeneratorInv, TypeOK, WrittenInv
    <2>2. /\ a.stamped /\ b.stamped /\ a.codec = b.codec
          /\ Node.mc => a.crushed /\ b.crushed
        BY DEF Told
    <2>3. a.seq \in Clocks /\ a.seq = b.seq /\ a.claim > 0 /\ b.claim > 0
        BY <1>1, <2>1, <2>2 DEF OneClockSeq, ReturnedWritten, Ids
    <2>4. a.claim # b.claim
        BY <1>1, <2>2 DEF ClaimsOrdered, SameSource
    <2>5. Told(a, b) /\ Condense(a.codec, a.fields) = Condense(b.codec, b.fields)
        OBVIOUS
    <2> HIDE DEF a, b
    <2>6. /\ f.time \in Nat \ {0} /\ g.time \in Nat \ {0}
          /\ f.time < g.time + TIME_SIZE /\ g.time < f.time + TIME_SIZE
          /\ f.time # g.time
        BY <2>1, <2>3, <2>4, <2>5, ToldApart
    <2>7. f.clock = a.seq /\ g.clock = a.seq
        BY <2>3 DEF ClaimedFields
    <2> HIDE DEF f, g
    <2>8. /\ a.crushed => Condense(a.codec, a.fields) = CompactOf(f, SaltOf(Node))
          /\ b.crushed => Condense(b.codec, b.fields) = CompactOf(g, SaltOf(Node))
          /\ ~a.crushed /\ ~Node.mc =>
                Condense(a.codec, a.fields) = Expanded(Rebase(f.time), a.seq, Node)
          /\ ~b.crushed /\ ~Node.mc =>
                Condense(b.codec, b.fields) = Expanded(Rebase(g.time), b.seq, Node)
        BY <2>1, <2>2, WireOfClaim DEF f, g
    <2>9. CASE a.crushed /\ b.crushed
        <3>1. CompactOf(f, SaltOf(Node)) = CompactOf(g, SaltOf(Node))
            BY <2>5, <2>8, <2>9
        <3>2. f.clock \in Clocks /\ g.clock = f.clock
            BY <2>3, <2>7
        <3>3. f.time = g.time
            BY <3>1, <3>2, <2>6, CompactOfInjective
        <3> QED
            BY <3>3, <2>6
    <2>10. CASE ~a.crushed /\ ~b.crushed
        <3>1. Expanded(Rebase(f.time), a.seq, Node) = Expanded(Rebase(g.time), b.seq, Node)
            BY <2>2, <2>5, <2>8, <2>10
        <3>2. Rebase(f.time) = Rebase(g.time)
            BY <3>1 DEF Expanded
        <3> QED
            BY <3>2, <2>6, RebaseInjective
    <2>11. CASE (a.crushed /\ ~b.crushed) \/ (~a.crushed /\ b.crushed)
        <3>1. CompactOf(f, SaltOf(Node)).compacted /\ CompactOf(g, SaltOf(Node)).compacted
            BY DEF CompactOf, Compact
        <3>2. /\ ~Expanded(Rebase(f.time), a.seq, Node).compacted
              /\ ~Expanded(Rebase(g.time), b.seq, Node).compacted
            BY DEF Expanded
        <3>3. ~Node.mc
            BY <2>2, <2>11
        <3>4. CASE a.crushed /\ ~b.crushed
            BY <3>1, <3>2, <3>3, <3>4, <2>5, <2>8
        <3>5. CASE ~a.crushed /\ b.crushed
            BY <3>1, <3>2, <3>3, <3>5, <2>5, <2>8
        <3> QED
            BY <2>11, <3>4, <3>5
    <2> QED
        BY <2>9, <2>10, <2>11
<1> QED
    BY <1>1, GeneratorInvariant, ClaimsOrderedHolds, OneClockSeqHolds, PTL

\* A claim since 2016 that is later than another is crushed to a window that is
\* no earlier: an id is never dated before one returned when its call began.
THEOREM WindowsOrderedHolds == Spec => []WindowsOrdered
<1>1. ASSUME GeneratorInv, ClaimsOrdered
      PROVE  WindowsOrdered
    <2> SUFFICES ASSUME NEW i \in 1 .. Len(issued), NEW j \in 1 .. Len(issued),
                        i <= issued[j].since,
                        SameSource(issued[i], issued[j]),
                        issued[i].crushed, issued[j].crushed,
                        issued[i].claim \in Modern, issued[j].claim \in Modern
                 PROVE  issued[i].fields.time <= issued[j].fields.time
        BY DEF WindowsOrdered
    <2>1. i # j
        <3>1. Len(issued) \in Nat /\ issued[j] \in Ids
            BY <1>1, ElementType DEF GeneratorInv, TypeOK
        <3>2. issued[j].since < j /\ issued[j].since \in Nat
            BY <1>1, <3>1 DEF GeneratorInv, SinceInv, Ids
        <3> QED
            BY <3>1, <3>2
    <2>2. issued[i].claim < issued[j].claim
        BY <1>1, <2>1 DEF ClaimsOrdered
    <2>3. ASSUME NEW k \in {i, j}
          PROVE  /\ issued[k].claim \in Modern
                 /\ issued[k].fields.time = WindowStart(WindowOf(issued[k].claim))
        <3>1. issued[k] \in Ids /\ ReturnedWritten(issued[k])
            BY <1>1, ElementType DEF GeneratorInv, TypeOK, WrittenInv
        <3>2. issued[k].claim \in Modern
            OBVIOUS
        <3>3. issued[k].claim \in Times
            BY <3>2, TimeSize DEF Times, Modern
        <3>4. issued[k].stamped \/ issued[k].codec = "v6"
            BY <3>1 DEF SameSource, Ids, Codecs
        <3>5. issued[k].fields = Crush(issued[k].codec, ClaimedFields(issued[k]))
            BY <3>1, <3>4 DEF ReturnedWritten
        <3>6. ClaimedFields(issued[k]).time = issued[k].claim
            BY <3>1, <3>3, ClaimedFieldsFit
        <3> QED
            BY <3>2, <3>5, <3>6 DEF Crush, CompactOf, Compact
    <2> QED
        BY <2>2, <2>3, CrushedTimeGrows DEF Modern
<1> QED
    BY <1>1, GeneratorInvariant, ClaimsOrderedHolds, PTL

-----------------------------------------------------------------------------
(* The refinement.                                                         *)

\* Under the mutex, the static last is an atomic source of times: a step is a
\* grant (the store to last), an arrival, a departure, or nothing to it.
LEMMA MutexStep ==
    ASSUME GeneratorInv, [Next]_vars
    PROVE  [MutexSource!Next]_(MutexSource!vars)
<1> USE DEF GeneratorInv, TypeOK, Goto, statics, atomics
<1> DEFINE S(t) == Slot({"lock", "bump", "store"}, {"keep", "unlock"}, t)
           Others(t) == \A u \in Threads \ {t} : S(u)' = S(u)
<1>1. ASSUME NEW t \in Threads, Others(t), S(t)' = S(t), last' = last
      PROVE  UNCHANGED MutexSource!vars
    BY <1>1 DEF MutexSource!vars, MutexSlots
<1>2. ASSUME NEW t \in Threads, Others(t)
      PROVE  MutexSlots' = [MutexSlots EXCEPT ![t] = S(t)']
    BY <1>2 DEF MutexSlots
<1>3. ASSUME NEW t \in Threads
      PROVE  MutexSlots[t] = S(t)
    BY DEF MutexSlots
<1>4. ASSUME NEW t \in Threads,
             Call(t) \/ NewUUIDFails(t) \/ Finish(t)
      PROVE  Others(t) /\ S(t)' = S(t) /\ last' = last
    BY <1>4 DEF Call, NewUUIDFails, Finish, Slot
<1>5. ASSUME NEW t \in Threads, Lock(t) \/ Bump(t) \/ KeepClock(t)
      PROVE  Others(t) /\ S(t)' = S(t) /\ last' = last
    BY <1>5 DEF Lock, Bump, KeepClock, Slot
<1>6. ASSUME NEW t \in Threads, Load(t) \/ CasSucceeds(t) \/ CasFails(t)
      PROVE  Others(t) /\ S(t)' = S(t) /\ last' = last
    BY <1>6 DEF Load, CasSucceeds, CasFails, Slot
<1>7. ASSUME NEW t \in Threads, NewUUID(t)
      PROVE  MutexSource!Ask(t) \/ UNCHANGED MutexSource!vars
    <2>1. Others(t) /\ last' = last /\ S(t) = MutexSource!Idle
        BY <1>7 DEF NewUUID, Slot, MutexSource!Idle
    <2>2. PICK m \in Mints :
              /\ uuid' = [uuid EXCEPT ![t] = m]
              /\ pc' = [pc EXCEPT ![t] = IF m.v1 THEN "lock" ELSE AfterMint(t)]
        BY <1>7 DEF NewUUID
    <2>3. m.time \in Times
        BY GeneratorAssumption
    <2>4. CASE m.v1
        <3>1. S(t)' = MutexSource!Asking(m.time)
            BY <2>2, <2>4 DEF Slot, MutexSource!Asking
        <3> QED
            BY <1>2, <1>3, <2>1, <2>3, <3>1 DEF MutexSource!Ask
    <2>5. CASE ~m.v1
        <3>1. S(t)' = S(t)
            BY <2>1, <2>2, <2>5 DEF Slot, AfterMint, MutexSource!Idle
        <3> QED
            BY <1>1, <2>1, <3>1
    <2> QED
        BY <2>4, <2>5
<1>8. ASSUME NEW t \in Threads, StoreLast(t)
      PROVE  MutexSource!Grant(t)
    <2>1. /\ Others(t)
          /\ S(t) = MutexSource!Asking(uuid[t].time)
          /\ S(t)' = MutexSource!Granted(last')
        BY <1>8 DEF StoreLast, Slot, MutexSource!Asking, MutexSource!Granted
    <2>2. last' = MutexSource!Claim(uuid[t].time, last)
        BY <1>8 DEF StoreLast, SectionInv, Bumped, Times, MutexSource!Claim
    <2> QED
        BY <1>2, <1>3, <2>1, <2>2 DEF MutexSource!Grant, MutexSource!Asking
<1>9. ASSUME NEW t \in Threads, Unlock(t)
      PROVE  MutexSource!Leave(t)
    <2>1. /\ Others(t) /\ last' = last
          /\ S(t).st = "granted"
          /\ S(t)' = MutexSource!Idle
        BY <1>9 DEF Unlock, AfterMint, Slot, MutexSource!Idle
    <2> QED
        BY <1>2, <1>3, <2>1 DEF MutexSource!Leave
<1>10. CASE UNCHANGED vars
    BY <1>10 DEF vars, MutexSource!vars, MutexSlots, Slot
<1> HIDE DEF S, Others, GeneratorInv, TypeOK
<1> QED
    BY <1>1, <1>4, <1>5, <1>6, <1>7, <1>8, <1>9, <1>10
       DEF Next, Step, Quiet, MutexSource!Next

\* So is the atomic to the v6 calls: stale loads and failed exchanges change
\* nothing, and a late grant is still past the newest value.
LEMMA CasStep ==
    ASSUME GeneratorInv, [Next]_vars
    PROVE  [CasSource!Next]_(CasSource!vars)
<1> USE DEF GeneratorInv, TypeOK, Goto, statics, atomics
<1> DEFINE S(t) == IF request[t].codec = "v6"
                   THEN Slot({"load", "cas"}, {"finish"}, t)
                   ELSE Slot({}, {}, t)
           Others(t) == \A u \in Threads \ {t} : S(u)' = S(u)
<1>1. ASSUME NEW t \in Threads, Others(t), S(t)' = S(t), last6' = last6
      PROVE  UNCHANGED CasSource!vars
    BY <1>1 DEF CasSource!vars, CasSlots
<1>2. ASSUME NEW t \in Threads, Others(t)
      PROVE  CasSlots' = [CasSlots EXCEPT ![t] = S(t)']
    BY <1>2 DEF CasSlots
<1>3. ASSUME NEW t \in Threads
      PROVE  CasSlots[t] = S(t)
    BY DEF CasSlots
<1>4. ASSUME NEW t \in Threads, Call(t) \/ NewUUIDFails(t)
      PROVE  Others(t) /\ S(t)' = S(t) /\ last6' = last6
    BY <1>4 DEF Call, NewUUIDFails, Slot
<1>5. ASSUME NEW t \in Threads, Lock(t) \/ Bump(t) \/ StoreLast(t) \/ KeepClock(t)
      PROVE  Others(t) /\ S(t)' = S(t) /\ last6' = last6
    BY <1>5 DEF Lock, Bump, StoreLast, KeepClock, Slot
<1>6. ASSUME NEW t \in Threads, Load(t) \/ CasFails(t)
      PROVE  Others(t) /\ S(t)' = S(t) /\ last6' = last6
    BY <1>6 DEF Load, CasFails, Slot
<1>7. ASSUME NEW t \in Threads, NewUUID(t) \/ Unlock(t)
      PROVE  CasSource!Ask(t) \/ UNCHANGED CasSource!vars
    <2>1. Others(t) /\ last6' = last6 /\ S(t) = CasSource!Idle
        BY <1>7 DEF NewUUID, Unlock, Slot, CasSource!Idle
    <2>2. uuid'[t].time \in Times
        BY <1>7, TypeStep
    <2>3. /\ request' = request
          /\ pc'[t] \in {"lock", AfterMint(t)}
        BY <1>7 DEF NewUUID, Unlock
    <2>4. CASE pc'[t] = "load"
        <3>1. request[t].codec = "v6"
            BY <2>3, <2>4 DEF AfterMint
        <3>2. S(t)' = CasSource!Asking(uuid'[t].time)
            BY <2>3, <2>4, <3>1 DEF Slot, CasSource!Asking
        <3> QED
            BY <1>2, <1>3, <2>1, <2>2, <3>2 DEF CasSource!Ask
    <2>5. CASE pc'[t] # "load"
        <3>1. S(t)' = S(t)
            BY <2>1, <2>3, <2>5 DEF Slot, AfterMint, CasSource!Idle
        <3> QED
            BY <1>1, <2>1, <3>1
    <2> QED
        BY <2>4, <2>5
<1>8. ASSUME NEW t \in Threads, CasSucceeds(t)
      PROVE  CasSource!Grant(t)
    <2>1. /\ Others(t)
          /\ S(t) = CasSource!Asking(uuid[t].time)
          /\ S(t)' = CasSource!Granted(last6')
        BY <1>8 DEF CasSucceeds, SectionInv, Slot, CasSource!Asking, CasSource!Granted
    <2>2. last6' = CasSource!Claim(uuid[t].time, last6)
        BY <1>8 DEF CasSucceeds, NextTime, CasSource!Claim
    <2> QED
        BY <1>2, <1>3, <2>1, <2>2 DEF CasSource!Grant, CasSource!Asking
<1>9. ASSUME NEW t \in Threads, Finish(t)
      PROVE  CasSource!Leave(t) \/ UNCHANGED CasSource!vars
    <2>1. /\ Others(t) /\ last6' = last6
          /\ S(t)' = CasSource!Idle
        BY <1>9 DEF Finish, NoRequest, Slot, CasSource!Idle
    <2>2. S(t).st = "granted" \/ S(t) = CasSource!Idle
        BY <1>9 DEF Finish, Slot, CasSource!Idle
    <2> QED
        BY <1>1, <1>2, <1>3, <2>1, <2>2 DEF CasSource!Leave
<1>10. CASE UNCHANGED vars
    BY <1>10 DEF vars, CasSource!vars, CasSlots, Slot
<1> HIDE DEF S, Others, GeneratorInv, TypeOK
<1> QED
    BY <1>1, <1>4, <1>5, <1>6, <1>7, <1>8, <1>9, <1>10
       DEF Next, Step, Quiet, CasSource!Next

\* UUIDGenerator::operator()'s mutex and statics implement the abstract source.
THEOREM MutexRefines == Spec => MutexSource!Safety
<1>1. Init => MutexSource!Init
    BY DEF Init, MutexSource!Init, MutexSlots, Slot, MutexSource!Idle
<1>2. GeneratorInv /\ [Next]_vars => [MutexSource!Next]_(MutexSource!vars)
    BY MutexStep
<1> QED
    BY <1>1, <1>2, GeneratorInvariant, PTL DEF Spec, MutexSource!Safety

\* cuuid_v6::generate's relaxed atomic implements it as well.
THEOREM CasRefines == Spec => CasSource!Safety
<1>1. Init => CasSource!Init
    BY DEF Init, NoRequest, CasSource!Init, CasSlots, Slot, CasSource!Idle
<1>2. GeneratorInv /\ [Next]_vars => [CasSource!Next]_(CasSource!vars)
    BY CasStep
<1> QED
    BY <1>1, <1>2, GeneratorInvariant, PTL DEF Spec, CasSource!Safety

=============================================================================
