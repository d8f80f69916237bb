--------------------------- MODULE AdmissionProofs ---------------------------
(***************************************************************************)
(* The accounting of admission places, for every number of calls and every *)
(* limit.  AdmissionTypeOK and SlotsAccounted together are inductive.      *)
(***************************************************************************)
EXTENDS Admission, FiniteSetTheorems, TLAPS

\* The inductive invariant.
AInv == AdmissionTypeOK /\ SlotsAccounted

\* The set of calls that hold a place is finite, since there are finitely many
\* calls.
LEMMA HeldFinite == AdmissionTypeOK => IsFiniteSet(held) /\ Cardinality(held) \in Nat
  BY AdmissionAssumption, FS_Subset, FS_CardinalityType DEF AdmissionTypeOK

\* The controller starts empty.
LEMMA InitAInv == AdmissionInit => AInv
  BY FS_EmptySet, AdmissionAssumption
     DEF AdmissionInit, AInv, AdmissionTypeOK, SlotsAccounted, Waiting

\* acquire takes a free place, or waits because all are taken.
LEMMA AcquireKeepsAInv ==
  ASSUME NEW c \in Call, AInv, Acquire(c) PROVE AInv'
<1> USE AdmissionAssumption
<1>1. IsFiniteSet(held) /\ Cardinality(held) \in Nat
  BY HeldFinite DEF AInv
<1>2. CASE MaxConcurrent = 0 /\ held' = held \cup {c} /\ UNCHANGED <<sem, queue>>
  BY <1>2 DEF AInv, AdmissionTypeOK, SlotsAccounted, Waiting
<1>3. CASE sem < MaxConcurrent /\ sem' = sem + 1 /\ held' = held \cup {c}
           /\ UNCHANGED queue
  <2>1. Cardinality(held') = Cardinality(held) + 1
    BY Zenon, <1>1, <1>3, FS_AddElement DEF Acquire
  <2>2. queue = <<>>
    BY <1>3 DEF AInv, SlotsAccounted, AdmissionTypeOK
  <2> QED
    BY <1>3, <2>1, <2>2 DEF AInv, AdmissionTypeOK, SlotsAccounted, Waiting
<1>4. CASE MaxConcurrent # 0 /\ sem = MaxConcurrent /\ queue' = Append(queue, c)
           /\ UNCHANGED <<sem, held>>
  <2>1. queue' \in Seq(Call) /\ Len(queue') = Len(queue) + 1
        /\ (\A i \in 1..Len(queue) : queue'[i] = queue[i])
        /\ queue'[Len(queue) + 1] = c
    BY <1>4 DEF AInv, AdmissionTypeOK
  <2>2. \A i \in DOMAIN queue' : queue'[i] \in Waiting \cup {c}
    BY <2>1 DEF Waiting, AInv, AdmissionTypeOK
  <2>3. \A i, j \in DOMAIN queue' : queue'[i] = queue'[j] => i = j
    BY <2>1, <1>4 DEF Acquire, Waiting, AInv, SlotsAccounted, AdmissionTypeOK
  <2>4. held' \cap Waiting' = {}
    BY <2>2, <1>4 DEF Waiting, Acquire, AInv, SlotsAccounted
  <2> QED
    BY <1>4, <2>1, <2>3, <2>4 DEF AInv, AdmissionTypeOK, SlotsAccounted
<1> QED
  BY <1>2, <1>3, <1>4 DEF Acquire

\* A caller that gives up leaves the queue and nothing else.
LEMMA AbandonKeepsAInv ==
  ASSUME NEW c \in Call, AInv, Abandon(c) PROVE AInv'
<1> USE AdmissionAssumption
<1>1. PICK k \in DOMAIN queue :
        /\ queue[k] = c
        /\ queue' = [j \in 1..(Len(queue) - 1) |->
                       IF j < k THEN queue[j] ELSE queue[j + 1]]
  BY DEF Abandon
<1>2. queue \in Seq(Call) /\ Len(queue) \in Nat /\ DOMAIN queue = 1..Len(queue)
  BY DEF AInv, AdmissionTypeOK
<1>3. queue' \in Seq(Call) /\ DOMAIN queue' = 1..(Len(queue) - 1)
  <2>1. \A j \in 1..(Len(queue) - 1) :
          (IF j < k THEN queue[j] ELSE queue[j + 1]) \in Call
    BY <1>2
  <2>2. Len(queue) - 1 \in Nat
    BY <1>1, <1>2
  <2> QED
    BY <1>1, <2>1, <2>2
<1>4. \A i \in DOMAIN queue' : queue'[i] \in Waiting
  BY <1>1, <1>2, <1>3 DEF Waiting
<1>5. MaxConcurrent # 0 => \A i, j \in DOMAIN queue' : queue'[i] = queue'[j] => i = j
  BY SMTT(60), <1>1, <1>2, <1>3 DEF AInv, SlotsAccounted
<1>6. queue # <<>>
  BY <1>1, <1>2
<1> QED
  BY <1>3, <1>4, <1>5, <1>6 DEF AInv, AdmissionTypeOK, SlotsAccounted, Abandon, Waiting

\* A released place is free again or goes to the first caller that waits.
LEMMA ReleaseKeepsAInv ==
  ASSUME NEW c \in Call, AInv, Release(c) PROVE AInv'
<1> USE AdmissionAssumption
<1>1. IsFiniteSet(held) /\ Cardinality(held) \in Nat
  BY HeldFinite DEF AInv
<1>2. c \in held
  BY DEF Release
<1>3. CASE MaxConcurrent = 0 /\ held' = held \ {c} /\ UNCHANGED <<sem, queue>>
  BY <1>3 DEF AInv, AdmissionTypeOK, SlotsAccounted, Waiting
<1>4. IsFiniteSet(held \ {c}) /\ Cardinality(held \ {c}) = Cardinality(held) - 1
  BY <1>1, <1>2, FS_RemoveElement
<1>5. CASE MaxConcurrent # 0 /\ queue = <<>> /\ sem' = sem - 1
           /\ held' = held \ {c} /\ UNCHANGED queue
  <2>1. Cardinality(held \ {c}) \in Nat
    BY <1>4, FS_CardinalityType
  <2> QED
    BY <1>4, <1>5, <2>1 DEF AInv, AdmissionTypeOK, SlotsAccounted, Waiting
<1>6. CASE MaxConcurrent # 0 /\ queue # <<>>
           /\ held' = (held \ {c}) \cup {Head(queue)}
           /\ queue' = Tail(queue) /\ UNCHANGED sem
  <2>1. /\ queue \in Seq(Call) /\ Head(queue) = queue[1] /\ 1 \in DOMAIN queue
        /\ Tail(queue) \in Seq(Call)
        /\ DOMAIN Tail(queue) = 1..(Len(queue) - 1)
        /\ \A i \in 1..(Len(queue) - 1) : Tail(queue)[i] = queue[i + 1]
        /\ DOMAIN queue = 1..Len(queue) /\ Len(queue) \in Nat
    BY <1>6 DEF AInv, AdmissionTypeOK
  <2>2. Head(queue) \in Call /\ Head(queue) \in Waiting
    BY <2>1 DEF Waiting, AInv, AdmissionTypeOK
  <2>3. Head(queue) \notin held
    BY <2>2, <1>6 DEF AInv, SlotsAccounted
  <2>4. Cardinality(held') = Cardinality(held \ {c}) + 1
    BY Zenon, <1>4, <1>6, <2>3, FS_AddElement
  <2>5. \A i, j \in DOMAIN queue' : queue'[i] = queue'[j] => i = j
    BY <1>6, <2>1 DEF AInv, SlotsAccounted
  <2>6. \A i \in DOMAIN queue' : queue'[i] \in Waiting /\ queue'[i] # Head(queue)
    BY <1>6, <2>1 DEF Waiting, AInv, SlotsAccounted
  <2>7. held' \cap Waiting' = {}
    BY <1>6, <2>6 DEF Waiting, AInv, SlotsAccounted
  <2>8. sem' = Cardinality(held') /\ sem' = MaxConcurrent
    BY <1>1, <1>4, <1>6, <2>4 DEF AInv, SlotsAccounted
  <2> QED
    BY <1>6, <2>1, <2>2, <2>5, <2>7, <2>8 DEF AInv, AdmissionTypeOK, SlotsAccounted
<1> QED
  BY <1>3, <1>5, <1>6 DEF Release

\* No place of the admission controller leaks or is given back twice, and the
\* limit holds, for every limit and every set of calls.
THEOREM AdmissionSlotsAccounted == AdmissionSpec => []SlotsAccounted
<1>1. AInv /\ [AdmissionNext]_admissionVars => AInv'
  <2> SUFFICES ASSUME AInv, [AdmissionNext]_admissionVars PROVE AInv'
    OBVIOUS
  <2>1. CASE AdmissionNext
    BY <2>1, AcquireKeepsAInv, AbandonKeepsAInv, ReleaseKeepsAInv DEF AdmissionNext
  <2>2. CASE UNCHANGED admissionVars
    BY <2>2 DEF admissionVars, AInv, AdmissionTypeOK, SlotsAccounted, Waiting
  <2> QED
    BY <2>1, <2>2
<1>2. AInv => SlotsAccounted
  BY DEF AInv
<1> QED
  BY InitAInv, <1>1, <1>2, PTL DEF AdmissionSpec
=============================================================================
