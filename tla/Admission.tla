------------------------------ MODULE Admission ------------------------------
(***************************************************************************)
(* The admission controller of the upstream client                         *)
(* (internal/llama/client.go): a buffered channel with                     *)
(* max_concurrent_requests places.  acquire sends to the channel inside a  *)
(* select with the context of the wait; the function it returns receives   *)
(* from the channel, at most once.                                         *)
(*                                                                         *)
(* A Go channel serves blocked senders in order, and a receive from a full *)
(* channel hands the freed place to the first of them in the same step, so *)
(* a newcomer never overtakes a caller that waits.                         *)
(***************************************************************************)
EXTENDS Integers, Sequences, FiniteSets

CONSTANTS Call,           \* upstream calls
          MaxConcurrent   \* llama.max_concurrent_requests, 0 when disabled

ASSUME AdmissionAssumption == IsFiniteSet(Call) /\ MaxConcurrent \in Nat

VARIABLES sem,    \* places taken in the channel
          queue,  \* callers blocked in acquire, in order
          held    \* calls between acquire and release

admissionVars == <<sem, queue, held>>

Waiting == {queue[i] : i \in DOMAIN queue}

AdmissionInit == sem = 0 /\ queue = <<>> /\ held = {}

\* Mutant: the limit is compared one too late.
AcquireOneMore(c) ==
  /\ c \notin held \cup Waiting
  /\ \/ /\ sem <= MaxConcurrent
        /\ sem' = sem + 1 /\ held' = held \cup {c} /\ UNCHANGED queue
     \/ /\ sem > MaxConcurrent
        /\ queue' = Append(queue, c) /\ UNCHANGED <<sem, held>>

\* acquire, up to the select: with no controller the call simply runs.
Acquire(c) ==
  /\ c \notin held \cup Waiting
  /\ \/ /\ MaxConcurrent = 0
        /\ held' = held \cup {c}
        /\ UNCHANGED <<sem, queue>>
     \/ /\ sem < MaxConcurrent
        /\ sem' = sem + 1
        /\ held' = held \cup {c}
        /\ UNCHANGED queue
     \/ /\ MaxConcurrent # 0 /\ sem = MaxConcurrent
        /\ queue' = Append(queue, c)
        /\ UNCHANGED <<sem, held>>

\* The other branch of the select: the wait was canceled or timed out.
Abandon(c) ==
  /\ \E i \in DOMAIN queue :
       /\ queue[i] = c
       /\ queue' = [j \in 1..(Len(queue) - 1) |->
                      IF j < i THEN queue[j] ELSE queue[j + 1]]
  /\ UNCHANGED <<sem, held>>

\* Mutant: a freed place is given to a waiter and to the channel.
ReleaseTwice(c) ==
  /\ c \in held
  /\ sem' = sem - 1
  /\ held' = (held \ {c}) \cup (IF queue = <<>> THEN {} ELSE {Head(queue)})
  /\ queue' = IF queue = <<>> THEN queue ELSE Tail(queue)

\* The release function (guarded by a sync.Once).
Release(c) ==
  /\ c \in held
  /\ \/ /\ MaxConcurrent = 0
        /\ held' = held \ {c}
        /\ UNCHANGED <<sem, queue>>
     \/ /\ MaxConcurrent # 0 /\ queue = <<>>
        /\ sem' = sem - 1
        /\ held' = held \ {c}
        /\ UNCHANGED queue
     \/ /\ MaxConcurrent # 0 /\ queue # <<>>
        /\ held' = (held \ {c}) \cup {Head(queue)}
        /\ queue' = Tail(queue)
        /\ UNCHANGED sem

AdmissionNext == \E c \in Call : Acquire(c) \/ Abandon(c) \/ Release(c)

AdmissionSpec == AdmissionInit /\ [][AdmissionNext]_admissionVars

----------------------------------------------------------------------------
(* Types of the admission controller's state.                               *)
AdmissionTypeOK ==
  /\ sem \in Nat
  /\ queue \in Seq(Call)
  /\ held \subseteq Call

\* No place leaks and none is given back twice: the channel holds one element
\* for each call between acquire and release, never more than the limit, and
\* callers wait only while every place is taken.
SlotsAccounted ==
  MaxConcurrent # 0 =>
    /\ sem = Cardinality(held)
    /\ sem <= MaxConcurrent
    /\ queue # <<>> => sem = MaxConcurrent
    /\ held \cap Waiting = {}
    /\ \A i, j \in DOMAIN queue : queue[i] = queue[j] => i = j
=============================================================================
