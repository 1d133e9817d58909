---------------------------- MODULE ClaimSource ----------------------------
(***************************************************************************)
(* What a monotonic time source promises the threads that share it.  A     *)
(* thread brings the time it was minted with and, at one moment between    *)
(* asking and leaving, is granted the larger of that time and one tick     *)
(* past the last grant: "Claim max(time, last + 1)" (cuuid_v6.cc:115).     *)
(* Both sources of the library implement it: UUIDGenerator under a mutex,  *)
(* cuuid_v6::generate with a compare-and-swap.                             *)
(***************************************************************************)
EXTENDS Integers

CONSTANTS
    Threads,
    MintTimes       \* the times a thread can bring

VARIABLES
    top,            \* the last time granted
    slot            \* per thread: idle, the time it brings, or its grant

vars == <<top, slot>>

Idle == [st |-> "idle", time |-> 0]
Asking(m) == [st |-> "asking", time |-> m]
Granted(m) == [st |-> "granted", time |-> m]

Init ==
    /\ top = 0
    /\ slot = [t \in Threads |-> Idle]

Ask(t) ==
    /\ slot[t] = Idle
    /\ \E m \in MintTimes : slot' = [slot EXCEPT ![t] = Asking(m)]
    /\ UNCHANGED top

Claim(m, prev) == IF m > prev THEN m ELSE prev + 1

Grant(t) ==
    /\ slot[t].st = "asking"
    /\ top' = Claim(slot[t].time, top)
    /\ slot' = [slot EXCEPT ![t] = Granted(top')]

Leave(t) ==
    /\ slot[t].st = "granted"
    /\ slot' = [slot EXCEPT ![t] = Idle]
    /\ UNCHANGED top

Next == \E t \in Threads : Ask(t) \/ Grant(t) \/ Leave(t)

Safety == Init /\ [][Next]_vars

\* Whoever asks is granted, and leaves: no thread waits on the others forever.
Spec ==
    /\ Safety
    /\ \A t \in Threads : WF_vars(Grant(t) \/ Leave(t))
=============================================================================
