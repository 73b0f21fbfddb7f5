------------------------ MODULE AdmissionGates_proofs ------------------------
(***************************************************************************)
(* Safety of the two admission gates: that of the model server for every   *)
(* number of callers, slots and queue places, and that of the parser, with *)
(* its child processes and threads, for every number of requests, slots    *)
(* and waiters.                                                            *)
(***************************************************************************)
EXTENDS InferenceAdmission, ParserSupervision, FiniteSetTheorems, SequenceTheorems, TLAPS

(* The gate of the model server.                                           *)

\* What a step of the gate preserves: the counter is exact, the deque holds the
\* live waiters once each, and nobody waits beside a free slot.
IInv ==
    /\ TypeOK
    /\ SlotAccounting
    /\ NoLostWaiter
    /\ WorkConserving
    /\ SaturationTracked

\* Removing one entry of a sequence: what _waiters.remove does to the others.
LEMMA WithoutProperties ==
    ASSUME NEW S, NEW s \in Seq(S), NEW i \in 1..Len(s)
    PROVE  /\ Without(s, i) \in Seq(S)
           /\ Len(Without(s, i)) = Len(s) - 1
           /\ \A j \in 1..(Len(s) - 1) :
                Without(s, i)[j] = IF j < i THEN s[j] ELSE s[j + 1]
<1> DEFINE l == SubSeq(s, 1, i - 1)
           r == SubSeq(s, i + 1, Len(s))
<1>0. Len(s) \in Nat /\ i \in Nat /\ 1 <= i /\ i <= Len(s)
  BY LenProperties
<1>1. l \in Seq(S) /\ Len(l) = i - 1 /\ \A j \in 1..(i - 1) : l[j] = s[j]
  BY <1>0, SubSeqProperties, LenProperties
<1>2. r \in Seq(S) /\ Len(r) = Len(s) - i /\ \A j \in 1..(Len(s) - i) : r[j] = s[i + j]
  <2>1. CASE i = Len(s)
    BY <2>1, <1>0, SubSeqEmpty, EmptySeq
  <2>2. CASE i < Len(s)
    BY <2>2, <1>0, SubSeqProperties, LenProperties
  <2> QED BY <2>1, <2>2, <1>0
<1>3. l \o r \in Seq(S) /\ Len(l \o r) = Len(l) + Len(r)
      /\ \A j \in 1..(Len(l) + Len(r)) :
            (l \o r)[j] = IF j <= Len(l) THEN l[j] ELSE r[j - Len(l)]
  BY <1>1, <1>2, ConcatProperties
<1>6. Without(s, i) = l \o r
  BY DEF Without
<1> HIDE DEF l, r
<1>4. Len(l) + Len(r) = Len(s) - 1
  BY <1>0, <1>1, <1>2
<1>5. ASSUME NEW j \in 1..(Len(s) - 1)
      PROVE  (l \o r)[j] = IF j < i THEN s[j] ELSE s[j + 1]
  <2>1. CASE j < i
    <3>1. j \in 1..(i - 1)
      BY <2>1, <1>0
    <3> QED BY <2>1, <3>1, <1>1, <1>3, <1>4
  <2>2. CASE ~(j < i)
    <3>1. j - (i - 1) \in 1..(Len(s) - i) /\ i + (j - (i - 1)) = j + 1
      BY <2>2, <1>0
    <3>2. j \in 1..(Len(l) + Len(r)) /\ ~(j <= Len(l)) /\ j - Len(l) = j - (i - 1)
      BY <2>2, <1>0, <1>1, <1>4
    <3>3. (l \o r)[j] = r[j - (i - 1)]
      BY <3>2, <1>3
    <3>4. r[j - (i - 1)] = s[i + (j - (i - 1))]
      BY <3>1, <1>2
    <3> QED BY <2>2, <3>1, <3>3, <3>4
  <2> QED BY <2>1, <2>2
<1> QED BY <1>3, <1>4, <1>5, <1>6

LEMMA OwnersFinite ==
    IsFiniteSet(Owners) /\ Cardinality(Owners) \in Nat
BY GateAssumption, FS_Subset, FS_CardinalityType DEF Owners

LEMMA InitIInv == Init => IInv
<1> SUFFICES ASSUME Init PROVE IInv
  OBVIOUS
<1>1. Owners = {}
  BY DEF Init, Owners, SlotStates
<1>2. Cardinality(Owners) = 0
  BY <1>1, FS_EmptySet
<1>3. Len(<<>>) = 0 /\ <<>> \in Seq(Callers)
  BY EmptySeq
<1>4. TypeOK
  <2>1. active \in 0..MaxActive
    BY GateAssumption DEF Init
  <2>2. task \in [Callers -> TaskStates]
    BY DEF Init, TaskStates
  <2>3. waiters \in Seq(Callers) /\ saturatedSince \in BOOLEAN
    BY <1>3 DEF Init
  <2> QED BY <2>1, <2>2, <2>3 DEF TypeOK
<1>5. NoLostWaiter
  <2>1. \A c \in Callers : task[c] # "queued"
    BY DEF Init
  <2>2. \A i \in 1..Len(waiters) : FALSE
    BY <1>3 DEF Init
  <2> QED BY <2>1, <2>2 DEF NoLostWaiter
<1>6. WorkConserving
  BY <1>3, GateAssumption DEF Init, WorkConserving
<1>7. SaturationTracked
  <2>1. ~(active >= MaxActive)
    BY GateAssumption DEF Init
  <2> QED BY <2>1 DEF Init, SaturationTracked, saturated
<1> QED BY <1>2, <1>4, <1>5, <1>6, <1>7 DEF Init, IInv, SlotAccounting

\* A release by a caller that owns a slot keeps the invariant.
LEMMA ReleaseIInv ==
    ASSUME IInv, NEW c \in Callers, task[c] \in {"revoked", "holding"}, release(c)
    PROVE  IInv'
<1> USE GateAssumption
<1>0. c \in Owners
  BY DEF Owners, SlotStates
<1>1. IsFiniteSet(Owners) /\ Cardinality(Owners) \in Nat /\ Cardinality(Owners) # 0
  BY <1>0, OwnersFinite, FS_EmptySet
<1>2. CASE FreeSlot(c)
  <2>1. Owners' = Owners \ {c}
    BY <1>2, <1>0 DEF FreeSlot, Owners, SlotStates, IInv, TypeOK
  <2>2. Cardinality(Owners') = Cardinality(Owners) - 1
    BY <2>1, <1>0, <1>1, FS_RemoveElement
  <2>3. \A d \in Callers : task[d] # "queued"
    BY <1>2 DEF FreeSlot, Live, IInv, NoLostWaiter
  <2>4. active' \in 0..MaxActive /\ SlotAccounting'
    BY <2>2, <1>1, <1>2 DEF FreeSlot, IInv, TypeOK, SlotAccounting
  <2>5. NoLostWaiter'
    BY <2>3, <1>2 DEF FreeSlot, NoLostWaiter, IInv, TypeOK
  <2>6. WorkConserving'
    BY <1>2 DEF FreeSlot, WorkConserving
  <2>7. task' \in [Callers -> TaskStates] /\ waiters' \in Seq(Callers)
    BY <1>2 DEF FreeSlot, IInv, TypeOK, TaskStates
  <2>8. saturatedSince' \in BOOLEAN /\ SaturationTracked'
    BY DEF release, track_saturation, SaturationTracked, saturated
  <2> QED BY <2>4, <2>5, <2>6, <2>7, <2>8 DEF IInv, TypeOK
<1>3. CASE HandOver(c)
  <2>1. PICK i \in Live :
          /\ \A j \in Live : i <= j
          /\ waiters' = SubSeq(waiters, i + 1, Len(waiters))
          /\ task' = [task EXCEPT ![c] = "idle", ![waiters[i]] = "handed"]
          /\ active' = active
    BY <1>3 DEF HandOver
  <2> DEFINE d == waiters[i]
  <2>2. /\ i \in 1..Len(waiters) /\ Len(waiters) \in Nat
        /\ d \in Callers /\ task[d] = "queued" /\ d # c
    BY DEF Live, IInv, TypeOK
  <2>3. /\ waiters' \in Seq(Callers)
        /\ Len(waiters') = Len(waiters) - i
        /\ \A j \in 1..Len(waiters') : waiters'[j] = waiters[i + j]
    <3>1. CASE i = Len(waiters)
      BY <3>1, <2>1, <2>2, SubSeqEmpty, EmptySeq
    <3>2. CASE i < Len(waiters)
      BY <3>2, <2>1, <2>2, SubSeqProperties, LenProperties DEF IInv, TypeOK
    <3> QED BY <3>1, <3>2, <2>2
  <2>4. task' \in [Callers -> TaskStates]
    BY <2>1, <2>2 DEF IInv, TypeOK, TaskStates
  <2>5. \A e \in Callers : task'[e] = IF e = d THEN "handed"
                                     ELSE IF e = c THEN "idle" ELSE task[e]
    BY <2>1, <2>2 DEF IInv, TypeOK
  <2>6. Owners' = (Owners \ {c}) \cup {d}
    BY <2>5, <2>2, <1>0 DEF Owners, SlotStates
  <2>7. d \notin Owners
    BY <2>2 DEF Owners, SlotStates
  <2>8. Cardinality(Owners') = Cardinality(Owners)
    <3>1. IsFiniteSet(Owners \ {c}) /\ Cardinality(Owners \ {c}) = Cardinality(Owners) - 1
      BY <1>0, <1>1, FS_RemoveElement
    <3>2. Cardinality((Owners \ {c}) \cup {d}) = Cardinality(Owners \ {c}) + 1
      BY <3>1, <2>7, FS_AddElement
    <3> QED BY <3>1, <3>2, <2>6, <1>1
  <2>9. NoLostWaiter'
    <3>1. \A e \in Callers : task'[e] = "queued" =>
             \E j \in 1..Len(waiters') : waiters'[j] = e
      <4> SUFFICES ASSUME NEW e \in Callers, task'[e] = "queued"
                   PROVE  \E j \in 1..Len(waiters') : waiters'[j] = e
        OBVIOUS
      <4>1. e # d /\ task[e] = "queued"
        BY <2>5
      <4>2. PICK k \in 1..Len(waiters) : waiters[k] = e
        BY <4>1 DEF IInv, NoLostWaiter
      <4>3. k \in Live /\ k > i
        BY <4>1, <4>2, <2>1, <2>2 DEF Live
      <4>4. k - i \in 1..Len(waiters')
        BY <4>2, <4>3, <2>2, <2>3
      <4>5. waiters'[k - i] = waiters[i + (k - i)] /\ i + (k - i) = k
        BY <4>4, <4>2, <2>2, <2>3, SMTT(30)
      <4> QED BY <4>2, <4>4, <4>5
    <3>2. \A j \in 1..Len(waiters') : i + j \in 1..Len(waiters) /\ i + j # i
      BY <2>2, <2>3
    <3>3. \A j, k \in 1..Len(waiters') : waiters'[j] = waiters'[k] => j = k
      <4> SUFFICES ASSUME NEW j \in 1..Len(waiters'), NEW k \in 1..Len(waiters'),
                          waiters'[j] = waiters'[k]
                   PROVE  j = k
        OBVIOUS
      <4>1. i + j = i + k
        BY <3>2, <2>3 DEF IInv, NoLostWaiter
      <4> QED BY <4>1, <2>2, <2>3
    <3>4. \A j \in 1..Len(waiters') : task'[waiters'[j]] \in {"queued", "withdrawn"}
      <4> SUFFICES ASSUME NEW j \in 1..Len(waiters')
                   PROVE  task'[waiters'[j]] \in {"queued", "withdrawn"}
        OBVIOUS
      <4>1. waiters'[j] = waiters[i + j] /\ waiters'[j] \in Callers
        BY <2>3, <3>2 DEF IInv, TypeOK
      <4>2. waiters[i + j] # d /\ task[waiters[i + j]] \in {"queued", "withdrawn"}
        BY <3>2, <2>2 DEF IInv, NoLostWaiter
      <4> QED BY <4>1, <4>2, <2>5
    <3> QED BY <3>1, <3>3, <3>4 DEF NoLostWaiter
  <2>10. WorkConserving'
    <3>1. waiters # <<>>
      BY <2>2
    <3> QED BY <3>1, <2>1, <2>2, <2>3 DEF WorkConserving, IInv
  <2>11. saturatedSince' \in BOOLEAN /\ SaturationTracked'
    BY DEF release, track_saturation, SaturationTracked, saturated
  <2>12. active' \in 0..MaxActive /\ SlotAccounting'
    BY <2>1, <2>8 DEF SlotAccounting, IInv, TypeOK
  <2> QED BY <2>3, <2>4, <2>9, <2>10, <2>11, <2>12 DEF IInv, TypeOK
<1> QED BY <1>2, <1>3 DEF release

LEMMA NextIInv == IInv /\ [Next]_vars => IInv'
<1> SUFFICES ASSUME IInv, [Next]_vars PROVE IInv'
  OBVIOUS
<1> USE GateAssumption
<1>1. CASE UNCHANGED vars
  BY <1>1 DEF vars, IInv, TypeOK, SlotAccounting, NoLostWaiter, WorkConserving,
              SaturationTracked, Owners, saturated
<1>2. ASSUME NEW c \in Callers, AcquireFree(c) PROVE IInv'
  <2>1. Owners' = Owners \cup {c} /\ c \notin Owners
    BY <1>2 DEF AcquireFree, Owners, SlotStates, IInv, TypeOK
  <2>2. SlotAccounting'
    BY <2>1, <1>2, OwnersFinite, FS_AddElement DEF AcquireFree, IInv, SlotAccounting
  <2>3. TypeOK'
    BY <1>2 DEF AcquireFree, IInv, TypeOK, TaskStates, track_saturation, saturated
  <2>4. NoLostWaiter'
    BY <1>2 DEF AcquireFree, IInv, TypeOK, NoLostWaiter
  <2>5. WorkConserving' /\ SaturationTracked'
    BY <1>2 DEF AcquireFree, IInv, WorkConserving, SaturationTracked, track_saturation, saturated
  <2> QED BY <2>2, <2>3, <2>4, <2>5 DEF IInv
<1>3. ASSUME NEW c \in Callers, AcquireEnqueue(c) PROVE IInv'
  <2>1. /\ waiters' \in Seq(Callers) /\ Len(waiters') = Len(waiters) + 1
        /\ \A i \in 1..Len(waiters) : waiters'[i] = waiters[i]
        /\ waiters'[Len(waiters) + 1] = c
        /\ Len(waiters) \in Nat
    BY <1>3, AppendProperties, LenProperties DEF AcquireEnqueue, IInv, TypeOK
  <2>2. task' = [task EXCEPT ![c] = "queued"] /\ task[c] = "idle" /\ active' = active
    BY <1>3 DEF AcquireEnqueue
  <2>3. Owners' = Owners
    BY <2>2 DEF Owners, SlotStates, IInv, TypeOK
  <2>4. SlotAccounting'
    BY <2>2, <2>3 DEF IInv, SlotAccounting
  <2>5. saturatedSince' \in BOOLEAN /\ SaturationTracked'
    BY <1>3 DEF AcquireEnqueue, track_saturation, SaturationTracked, saturated
  <2>6. TypeOK'
    BY <2>1, <2>2, <2>5 DEF IInv, TypeOK, TaskStates
  <2>7. \A i \in 1..Len(waiters) : waiters[i] # c /\ waiters[i] \in Callers
    BY <2>2 DEF IInv, NoLostWaiter, TypeOK
  <2>8. NoLostWaiter'
    <3>1. \A d \in Callers : task'[d] = "queued" =>
             \E i \in 1..Len(waiters') : waiters'[i] = d
      <4> SUFFICES ASSUME NEW d \in Callers, task'[d] = "queued"
                   PROVE  \E i \in 1..Len(waiters') : waiters'[i] = d
        OBVIOUS
      <4>1. CASE d = c
        BY <4>1, <2>1
      <4>2. CASE d # c
        <5>1. PICK i \in 1..Len(waiters) : waiters[i] = d
          BY <4>2, <2>2 DEF IInv, TypeOK, NoLostWaiter
        <5> QED BY <5>1, <2>1
      <4> QED BY <4>1, <4>2
    <3>2. \A i, j \in 1..Len(waiters') : waiters'[i] = waiters'[j] => i = j
      <4> SUFFICES ASSUME NEW i \in 1..Len(waiters'), NEW j \in 1..Len(waiters'),
                          waiters'[i] = waiters'[j]
                   PROVE  i = j
        OBVIOUS
      <4>1. \A k \in 1..Len(waiters') : k \in 1..Len(waiters) \/ k = Len(waiters) + 1
        BY <2>1
      <4>2. CASE i \in 1..Len(waiters) /\ j \in 1..Len(waiters)
        BY <4>2, <2>1 DEF IInv, NoLostWaiter
      <4> QED BY <4>1, <4>2, <2>1, <2>7
    <3>3. \A i \in 1..Len(waiters') : task'[waiters'[i]] \in {"queued", "withdrawn"}
      <4> SUFFICES ASSUME NEW i \in 1..Len(waiters')
                   PROVE  task'[waiters'[i]] \in {"queued", "withdrawn"}
        OBVIOUS
      <4>1. CASE i = Len(waiters) + 1
        BY <4>1, <2>1, <2>2 DEF IInv, TypeOK
      <4>2. CASE i \in 1..Len(waiters)
        BY <4>2, <2>1, <2>2, <2>7 DEF IInv, TypeOK, NoLostWaiter
      <4> QED BY <4>1, <4>2, <2>1
    <3> QED BY <3>1, <3>2, <3>3 DEF NoLostWaiter
  <2>9. WorkConserving'
    <3>1. active = MaxActive
      BY <1>3 DEF AcquireEnqueue, IInv, WorkConserving, TypeOK
    <3> QED BY <3>1, <2>1, <2>2, <1>3 DEF WorkConserving, AcquireEnqueue
  <2> QED BY <2>4, <2>5, <2>6, <2>8, <2>9 DEF IInv
<1>4. ASSUME NEW c \in Callers, Interrupt(c) PROVE IInv'
  <2>1. Owners' = Owners
    BY <1>4 DEF Interrupt, Owners, SlotStates, IInv, TypeOK
  <2>2. SlotAccounting' /\ WorkConserving' /\ SaturationTracked'
    BY <1>4, <2>1 DEF Interrupt, IInv, SlotAccounting, WorkConserving, SaturationTracked, saturated
  <2>3. TypeOK'
    BY <1>4 DEF Interrupt, IInv, TypeOK, TaskStates
  <2>4. NoLostWaiter'
    BY <1>4 DEF Interrupt, IInv, TypeOK, NoLostWaiter
  <2> QED BY <2>2, <2>3, <2>4 DEF IInv
<1>5. ASSUME NEW c \in Callers, ResumeAdmitted(c) PROVE IInv'
  <2>1. Owners' = Owners
    BY <1>5 DEF ResumeAdmitted, Owners, SlotStates, IInv, TypeOK
  <2>2. SlotAccounting' /\ WorkConserving' /\ SaturationTracked'
    BY <1>5, <2>1
       DEF ResumeAdmitted, IInv, SlotAccounting, WorkConserving, SaturationTracked, saturated
  <2>3. TypeOK'
    BY <1>5 DEF ResumeAdmitted, IInv, TypeOK, TaskStates
  <2>4. NoLostWaiter'
    BY <1>5 DEF ResumeAdmitted, IInv, TypeOK, NoLostWaiter
  <2> QED BY <2>2, <2>3, <2>4 DEF IInv
<1>6. ASSUME NEW c \in Callers, ResumeGiveBack(c) PROVE IInv'
  BY <1>6, ReleaseIInv DEF ResumeGiveBack
<1>7. ASSUME NEW c \in Callers, ResumeWithdrawn(c) PROVE IInv'
  <2>0. /\ task[c] = "withdrawn" /\ task' = [task EXCEPT ![c] = "idle"]
        /\ active' = active /\ track_saturation
    BY <1>7 DEF ResumeWithdrawn
  <2>1. Owners' = Owners
    BY <2>0 DEF Owners, SlotStates, IInv, TypeOK
  <2>2. SlotAccounting' /\ SaturationTracked' /\ saturatedSince' \in BOOLEAN
    BY <2>0, <2>1 DEF IInv, SlotAccounting, SaturationTracked, track_saturation, saturated
  <2>3. task' \in [Callers -> TaskStates] /\ \A d \in Callers \ {c} : task'[d] = task[d]
    BY <2>0 DEF IInv, TypeOK, TaskStates
  <2>4. CASE (\A i \in 1..Len(waiters) : waiters[i] # c) /\ waiters' = waiters
    <3>1. NoLostWaiter'
      BY <2>0, <2>4 DEF IInv, TypeOK, NoLostWaiter
    <3> QED BY <2>0, <2>2, <2>3, <2>4, <3>1 DEF IInv, TypeOK, WorkConserving
  <2>5. ASSUME NEW i \in 1..Len(waiters), waiters[i] = c, waiters' = Without(waiters, i)
        PROVE  IInv'
    <3>1. /\ waiters' \in Seq(Callers) /\ Len(waiters') = Len(waiters) - 1
          /\ \A j \in 1..(Len(waiters) - 1) :
                waiters'[j] = IF j < i THEN waiters[j] ELSE waiters[j + 1]
      BY <2>5, WithoutProperties DEF IInv, TypeOK
    <3> DEFINE old(j) == IF j < i THEN j ELSE j + 1
    <3>2. Len(waiters) \in Nat /\ i \in Nat
      BY LenProperties DEF IInv, TypeOK
    <3>3. \A j \in 1..Len(waiters') :
             old(j) \in 1..Len(waiters) /\ old(j) # i /\ waiters'[j] = waiters[old(j)]
      BY <3>1, <3>2
    <3>4. \A j, k \in 1..Len(waiters') : old(j) = old(k) => j = k
      BY <3>1, <3>2
    <3>5. \A k \in 1..Len(waiters) : k # i => \E j \in 1..Len(waiters') : old(j) = k
      <4> SUFFICES ASSUME NEW k \in 1..Len(waiters), k # i
                   PROVE  \E j \in 1..Len(waiters') : old(j) = k
        OBVIOUS
      <4>1. CASE k < i
        BY <4>1, <3>1, <3>2
      <4>2. CASE k > i
        <5>1. k - 1 \in 1..Len(waiters') /\ old(k - 1) = k
          BY <4>2, <3>1, <3>2
        <5> QED BY <5>1
      <4> QED BY <4>1, <4>2, <3>2
    <3> HIDE DEF old
    <3>6. NoLostWaiter'
      <4>1. \A d \in Callers : task'[d] = "queued" =>
               \E j \in 1..Len(waiters') : waiters'[j] = d
        <5> SUFFICES ASSUME NEW d \in Callers, task'[d] = "queued"
                     PROVE  \E j \in 1..Len(waiters') : waiters'[j] = d
          OBVIOUS
        <5>1. d # c /\ task[d] = "queued"
          BY <2>0 DEF IInv, TypeOK
        <5>2. PICK k \in 1..Len(waiters) : waiters[k] = d
          BY <5>1 DEF IInv, NoLostWaiter
        <5>3. PICK j \in 1..Len(waiters') : old(j) = k
          BY <5>1, <5>2, <2>5, <3>5
        <5> QED BY <5>2, <5>3, <3>3
      <4>2. \A j, k \in 1..Len(waiters') : waiters'[j] = waiters'[k] => j = k
        BY <3>3, <3>4 DEF IInv, NoLostWaiter
      <4>3. \A j \in 1..Len(waiters') : task'[waiters'[j]] \in {"queued", "withdrawn"}
        <5> SUFFICES ASSUME NEW j \in 1..Len(waiters')
                     PROVE  task'[waiters'[j]] \in {"queued", "withdrawn"}
          OBVIOUS
        <5>1. waiters'[j] # c /\ waiters'[j] \in Callers
          BY <3>3, <2>5 DEF IInv, NoLostWaiter, TypeOK
        <5> QED BY <5>1, <3>3, <2>3 DEF IInv, NoLostWaiter
      <4> QED BY <4>1, <4>2, <4>3 DEF NoLostWaiter
    <3>7. WorkConserving'
      <4>1. waiters # <<>>
        BY <3>2
      <4> QED BY <4>1, <2>0, <3>1, <3>2 DEF IInv, WorkConserving
    <3> QED BY <2>0, <2>2, <2>3, <3>1, <3>6, <3>7 DEF IInv, TypeOK
  <2> QED BY <1>7, <2>4, <2>5 DEF ResumeWithdrawn
<1>8. ASSUME NEW c \in Callers, ExitSlot(c) PROVE IInv'
  BY <1>8, ReleaseIInv DEF ExitSlot
<1> QED BY <1>1, <1>2, <1>3, <1>4, <1>5, <1>6, <1>7, <1>8 DEF Next, Resume

----------------------------------------------------------------------------
\* The gate implements the pool of slots, step by step.

\* Taking entries out of a queue leaves the others in their order: f says where
\* the entries that stay were, and the entries a and b are among them.
LEMMA SameOrder ==
    ASSUME NEW a, NEW b, Len(waiters) \in Nat, Len(waiters') \in Nat,
           NEW f, f \in [1..Len(waiters') -> 1..Len(waiters)],
           \A j \in 1..Len(waiters') : waiters'[j] = waiters[f[j]],
           \A j, k \in 1..Len(waiters') : j < k <=> f[j] < f[k],
           \A i \in 1..Len(waiters) :
              waiters[i] \in {a, b} => \E j \in 1..Len(waiters') : f[j] = i
    PROVE  Before(a, b)' <=> Before(a, b)
<1>1. ASSUME NEW j \in 1..Len(waiters'), NEW k \in 1..Len(waiters'),
             j < k, waiters'[j] = a, waiters'[k] = b
      PROVE  Before(a, b)
  <2>1. f[j] \in 1..Len(waiters) /\ f[k] \in 1..Len(waiters) /\ f[j] < f[k]
    BY <1>1
  <2> QED BY <1>1, <2>1 DEF Before
<1>2. ASSUME NEW i \in 1..Len(waiters), NEW l \in 1..Len(waiters),
             i < l, waiters[i] = a, waiters[l] = b
      PROVE  Before(a, b)'
  <2>1. PICK j \in 1..Len(waiters') : f[j] = i
    BY <1>2
  <2>2. PICK k \in 1..Len(waiters') : f[k] = l
    BY <1>2
  <2>3. j < k /\ waiters'[j] = a /\ waiters'[k] = b
    BY <1>2, <2>1, <2>2
  <2> QED BY <2>3 DEF Before
<1> QED BY <1>1, <1>2 DEF Before

\* There are no more live waiters than futures in the deque.
LEMMA WaitingBounded ==
    ASSUME IInv
    PROVE  IsFiniteSet(Waiting) /\ Cardinality(Waiting) \in Nat
           /\ Cardinality(Waiting) <= Len(waiters)
<1> DEFINE place == [c \in Waiting |-> CHOOSE i \in 1..Len(waiters) : waiters[i] = c]
<1>1. Len(waiters) \in Nat
  BY LenProperties DEF IInv, TypeOK
<1>2. \A c \in Waiting : place[c] \in 1..Len(waiters) /\ waiters[place[c]] = c
  BY DEF Waiting, IInv, NoLostWaiter
<1>3. place \in Injection(Waiting, 1..Len(waiters))
  <2>1. place \in [Waiting -> 1..Len(waiters)]
    BY <1>2
  <2> HIDE DEF place
  <2> QED BY <1>2, <2>1 DEF Injection, IsInjective
<1> HIDE DEF place
<1>4. IsFiniteSet(1..Len(waiters)) /\ Cardinality(1..Len(waiters)) = Len(waiters)
  <2>1. /\ IsFiniteSet(1..Len(waiters))
        /\ Cardinality(1..Len(waiters)) = IF 1 > Len(waiters) THEN 0 ELSE Len(waiters) - 1 + 1
    <3>1. 1 \in Int /\ Len(waiters) \in Int
      BY <1>1
    <3> HIDE <1>1
    <3> QED BY <3>1, FS_Interval, Zenon
  <2> QED BY <1>1, <2>1
<1>5. IsFiniteSet(Waiting) /\ Cardinality(Waiting) <= Len(waiters)
  BY <1>3, <1>4, FS_Injection
<1> QED BY <1>5, FS_CardinalityType

\* If the callers that still wait keep their order, so does the pool's queue.
LEMMA OthersKeepOrder ==
    ASSUME Waiting' \subseteq Waiting,
           \A c, d \in Waiting' : Before(c, d)' <=> Before(c, d)
    PROVE  Ahead' = {p \in Ahead : p[1] \in Waiting' /\ p[2] \in Waiting'}
<1>1. \A p : p \in Ahead' <=> p \in Waiting' \X Waiting' /\ Before(p[1], p[2])
  BY DEF Ahead
<1>2. \A p : p \in Waiting' \X Waiting' =>
               p \in Waiting \X Waiting /\ p[1] \in Waiting' /\ p[2] \in Waiting'
  OBVIOUS
<1>3. \A p : p \in Ahead /\ p[1] \in Waiting' /\ p[2] \in Waiting' =>
               p \in Waiting' \X Waiting' /\ Before(p[1], p[2])
  BY DEF Ahead
<1> QED BY <1>1, <1>2, <1>3 DEF Ahead

LEMMA NoPoolStep ==
    ASSUME Owners' = Owners, Waiting' = Waiting,
           \A c, d \in Waiting : Before(c, d)' <=> Before(c, d)
    PROVE  UNCHANGED Pool!vars
<1>1. Ahead' = Ahead
  BY OthersKeepOrder DEF Ahead
<1> QED BY <1>1 DEF Pool!vars

LEMMA OnePoolLeavesQueue ==
    ASSUME NEW c \in Waiting, Waiting' = Waiting \ {c},
           \A a, b \in Waiting' : Before(a, b)' <=> Before(a, b)
    PROVE  Pool!Out(c)
<1>1. Ahead' = {p \in Ahead : p[1] \in Waiting' /\ p[2] \in Waiting'}
  BY OthersKeepOrder
<1>2. \A p \in Ahead : p[1] \in Waiting /\ p[2] \in Waiting
  BY DEF Ahead
<1>3. Ahead' = {p \in Ahead : p[1] # c /\ p[2] # c}
  BY <1>1, <1>2
<1> QED BY <1>3 DEF Pool!Out

\* Counting in the pool is counting here.
LEMMA PoolCardinality == \A S : Pool!Cardinality(S) = Cardinality(S)
BY DEF Cardinality, Pool!Cardinality

LEMMA AcquireSteps ==
    ASSUME IInv, NEW c \in Callers
    PROVE  /\ AcquireFree(c) => Pool!Enter(c)
           /\ AcquireEnqueue(c) => Pool!Join(c)
<1> USE GateAssumption
<1>1. ASSUME AcquireFree(c) PROVE Pool!Enter(c)
  <2>1. Owners' = Owners \cup {c} /\ c \notin Owners
    BY <1>1 DEF AcquireFree, Owners, SlotStates, IInv, TypeOK
  <2>2. Waiting = {} /\ Waiting' = {}
    BY <1>1 DEF AcquireFree, Waiting, IInv, TypeOK, NoLostWaiter
  <2>3. Ahead = {} /\ Ahead' = {}
    BY <2>2 DEF Ahead
  <2>4. Cardinality(Owners) < MaxActive
    BY <1>1 DEF AcquireFree, IInv, SlotAccounting
  <2> QED BY <2>1, <2>2, <2>3, <2>4, PoolCardinality DEF Pool!Enter
<1>2. ASSUME AcquireEnqueue(c) PROVE Pool!Join(c)
  <2>1. /\ Len(waiters') = Len(waiters) + 1
        /\ \A i \in 1..Len(waiters) : waiters'[i] = waiters[i]
        /\ waiters'[Len(waiters) + 1] = c
        /\ Len(waiters) \in Nat
    BY <1>2, AppendProperties, LenProperties DEF AcquireEnqueue, IInv, TypeOK
  <2>2. task' = [task EXCEPT ![c] = "queued"] /\ task[c] = "idle"
    BY <1>2 DEF AcquireEnqueue
  <2>3. Owners' = Owners /\ c \notin Owners \cup Waiting
    BY <2>2 DEF Owners, Waiting, SlotStates, IInv, TypeOK
  <2>4. Waiting' = Waiting \cup {c}
    BY <2>2 DEF Waiting, IInv, TypeOK
  <2>5. Cardinality(Owners) = MaxActive
    BY <1>2 DEF AcquireEnqueue, IInv, WorkConserving, SlotAccounting, TypeOK
  <2>6. Cardinality(Waiting) < MaxQueued
    <3>1. Len(waiters) < MaxQueued
      BY <1>2 DEF AcquireEnqueue
    <3> QED BY <2>1, <3>1, WaitingBounded
  <2>7. \A i \in 1..Len(waiters) : waiters[i] # c
    BY <2>2 DEF IInv, NoLostWaiter
  <2>8. \A i \in 1..Len(waiters') : i \in 1..Len(waiters) \/ i = Len(waiters) + 1
    BY <2>1
  <2>9. \A i \in 1..Len(waiters) : i \in 1..Len(waiters') /\ i < Len(waiters) + 1
    BY <2>1
  <2>10. \A a, b \in Waiting : Before(a, b)' <=> Before(a, b)
    <3> SUFFICES ASSUME NEW a \in Waiting, NEW b \in Waiting
                 PROVE  Before(a, b)' <=> Before(a, b)
      OBVIOUS
    <3>1. a # c /\ b # c
      BY <2>3
    <3> QED BY <2>1, <2>8, <2>9, <3>1 DEF Before
  <2>11. \A a \in Waiting : Before(a, c)'
    <3> SUFFICES ASSUME NEW a \in Waiting PROVE Before(a, c)'
      OBVIOUS
    <3>1. PICK i \in 1..Len(waiters) : waiters[i] = a
      BY DEF Waiting, IInv, NoLostWaiter
    <3>2. Len(waiters) + 1 \in 1..Len(waiters')
      BY <2>1
    <3> QED BY <2>1, <2>9, <3>1, <3>2 DEF Before
  <2>12. \A b \in Waiting \cup {c} : ~Before(c, b)'
    <3> SUFFICES ASSUME NEW b, Before(c, b)' PROVE FALSE
      OBVIOUS
    <3>1. PICK i, j \in 1..Len(waiters') : i < j /\ waiters'[i] = c
      BY DEF Before
    <3>2. i \in 1..Len(waiters)
      BY <2>1, <2>8, <3>1
    <3> QED BY <2>1, <2>7, <3>1, <3>2
  <2>13. Ahead' = Ahead \cup (Waiting \X {c})
    <3>1. \A p : p \in Ahead' <=> p \in Waiting' \X Waiting' /\ Before(p[1], p[2])'
      BY DEF Ahead
    <3>2. \A p : p \in Waiting' \X Waiting' =>
                    \/ p \in Waiting \X Waiting /\ p \notin Waiting \X {c}
                    \/ p \in Waiting \X {c} /\ p[1] \in Waiting /\ p[2] = c
                    \/ p[1] = c /\ p[2] \in Waiting \cup {c} /\ p \notin Ahead /\ p \notin Waiting \X {c}
      BY <2>3, <2>4 DEF Ahead
    <3>3. \A p \in (Waiting \X Waiting) \cup (Waiting \X {c}) : p \in Waiting' \X Waiting'
      BY <2>4
    <3>4. \A p : p \in Ahead <=> p \in Waiting \X Waiting /\ Before(p[1], p[2])
      BY DEF Ahead
    <3>5. \A p \in Waiting \X Waiting : Before(p[1], p[2])' <=> Before(p[1], p[2])
      BY <2>10
    <3> QED BY <2>11, <2>12, <3>1, <3>2, <3>3, <3>4, <3>5
  <2> QED BY <2>3, <2>4, <2>5, <2>6, <2>13, PoolCardinality DEF Pool!Join
<1> QED BY <1>1, <1>2

\* A timeout or cancellation takes a live waiter out of the queue; once the slot
\* is handed over it changes nothing the pool sees.
LEMMA InterruptSteps ==
    ASSUME IInv, NEW c \in Callers, Interrupt(c)
    PROVE  Pool!Withdraw(c) \/ UNCHANGED Pool!vars
<1>1. Owners' = Owners
  BY DEF Interrupt, Owners, SlotStates, IInv, TypeOK
<1>2. \A a, b : Before(a, b)' <=> Before(a, b)
  BY DEF Interrupt, Before
<1>3. CASE task[c] = "queued"
  <2>1. task' = [task EXCEPT ![c] = "withdrawn"]
    BY <1>3 DEF Interrupt
  <2>2. c \in Waiting /\ Waiting' = Waiting \ {c}
    BY <1>3, <2>1 DEF Waiting, IInv, TypeOK
  <2>3. Pool!Out(c)
    BY <1>2, <2>2, OnePoolLeavesQueue
  <2> QED BY <1>1, <2>2, <2>3 DEF Pool!Withdraw
<1>4. CASE task[c] = "handed"
  <2>1. task' = [task EXCEPT ![c] = "revoked"]
    BY <1>4 DEF Interrupt
  <2>2. Waiting' = Waiting
    BY <1>4, <2>1 DEF Waiting, IInv, TypeOK
  <2> QED BY <1>1, <1>2, <2>2, NoPoolStep
<1> QED BY <1>3, <1>4 DEF Interrupt

\* The task that resumes into the body had the slot, and one that resumes with
\* its future cancelled had left the queue.
LEMMA ResumeSteps ==
    ASSUME IInv, NEW c \in Callers, ResumeAdmitted(c) \/ ResumeWithdrawn(c)
    PROVE  UNCHANGED Pool!vars
<1>1. CASE ResumeAdmitted(c)
  <2>1. task[c] = "handed" /\ task' = [task EXCEPT ![c] = "holding"] /\ waiters' = waiters
    BY <1>1 DEF ResumeAdmitted
  <2>2. Owners' = Owners /\ Waiting' = Waiting
    BY <2>1 DEF Owners, Waiting, SlotStates, IInv, TypeOK
  <2>3. \A a, b : Before(a, b)' <=> Before(a, b)
    BY <2>1 DEF Before
  <2> QED BY <2>2, <2>3, NoPoolStep
<1>2. CASE ResumeWithdrawn(c)
  <2>1. task[c] = "withdrawn" /\ task' = [task EXCEPT ![c] = "idle"]
    BY <1>2 DEF ResumeWithdrawn
  <2>2. Owners' = Owners /\ Waiting' = Waiting /\ c \notin Waiting
    BY <2>1 DEF Owners, Waiting, SlotStates, IInv, TypeOK
  <2>3. CASE waiters' = waiters
    <3>1. \A a, b : Before(a, b)' <=> Before(a, b)
      BY <2>3 DEF Before
    <3> QED BY <2>2, <3>1, NoPoolStep
  <2>4. ASSUME NEW i \in 1..Len(waiters), waiters[i] = c, waiters' = Without(waiters, i)
        PROVE  UNCHANGED Pool!vars
    <3> DEFINE f == [j \in 1..Len(waiters') |-> IF j < i THEN j ELSE j + 1]
    <3>1. /\ Len(waiters) \in Nat /\ i \in Nat /\ Len(waiters') = Len(waiters) - 1
          /\ \A j \in 1..(Len(waiters) - 1) :
                waiters'[j] = IF j < i THEN waiters[j] ELSE waiters[j + 1]
      <4>1. waiters \in Seq(Callers)
        BY DEF IInv, TypeOK
      <4>2. Len(waiters) \in Nat /\ i \in Nat
        BY <4>1, LenProperties
      <4> QED BY <2>4, <4>1, <4>2, WithoutProperties
    <3>2. \A j \in 1..Len(waiters') : f[j] = IF j < i THEN j ELSE j + 1
      OBVIOUS
    <3>3. f \in [1..Len(waiters') -> 1..Len(waiters)]
      <4>1. \A j \in 1..Len(waiters') : (IF j < i THEN j ELSE j + 1) \in 1..Len(waiters)
        BY <3>1
      <4> QED BY <4>1
    <3> HIDE DEF f
    <3>4. \A j \in 1..Len(waiters') : waiters'[j] = waiters[f[j]]
      BY <3>1, <3>2
    <3>5. \A j, k \in 1..Len(waiters') : j < k <=> f[j] < f[k]
      BY <3>1, <3>2
    <3>6. \A l \in 1..Len(waiters) : l # i => \E j \in 1..Len(waiters') : f[j] = l
      <4> SUFFICES ASSUME NEW l \in 1..Len(waiters), l # i
                   PROVE  \E j \in 1..Len(waiters') : f[j] = l
        OBVIOUS
      <4>1. CASE l < i
        <5>1. l \in 1..Len(waiters') /\ f[l] = l
          BY <4>1, <3>1, <3>2
        <5> QED BY <5>1
      <4>2. CASE l > i
        <5>1. l - 1 \in 1..Len(waiters') /\ f[l - 1] = l
          BY <4>2, <3>1, <3>2
        <5> QED BY <5>1
      <4> QED BY <4>1, <4>2, <3>1
    <3>7. \A a, b \in Waiting : Before(a, b)' <=> Before(a, b)
      <4> SUFFICES ASSUME NEW a \in Waiting, NEW b \in Waiting
                   PROVE  Before(a, b)' <=> Before(a, b)
        OBVIOUS
      <4>1. \A l \in 1..Len(waiters) :
               waiters[l] \in {a, b} => \E j \in 1..Len(waiters') : f[j] = l
        BY <2>2, <2>4, <3>6
      <4>2. Len(waiters') \in Nat
        BY <3>1
      <4> QED BY <3>1, <3>3, <3>4, <3>5, <4>1, <4>2, SameOrder
    <3> QED BY <2>2, <3>7, NoPoolStep
  <2> QED BY <1>2, <2>3, <2>4 DEF ResumeWithdrawn
<1> QED BY <1>1, <1>2

\* A release is a Leave of the pool: the first pending future from the left is
\* the first live waiter of the pool's queue.
LEMMA ReleaseSteps ==
    ASSUME IInv, NEW c \in Callers, task[c] \in {"revoked", "holding"}, release(c)
    PROVE  Pool!Leave(c)
<1>0. c \in Owners
  BY DEF Owners, SlotStates
<1>1. CASE FreeSlot(c)
  <2>1. task' = [task EXCEPT ![c] = "idle"] /\ Live = {}
    BY <1>1 DEF FreeSlot
  <2>2. Owners' = Owners \ {c}
    BY <2>1, <1>0 DEF Owners, SlotStates, IInv, TypeOK
  <2>3. Waiting = {}
    BY <2>1 DEF Waiting, Live, IInv, NoLostWaiter
  <2>4. Waiting' = {}
    BY <2>1, <2>3 DEF Waiting, IInv, TypeOK
  <2>5. Ahead = {} /\ Ahead' = {}
    BY <2>3, <2>4 DEF Ahead
  <2> QED BY <1>0, <2>2, <2>3, <2>4, <2>5 DEF Pool!Leave
<1>2. CASE HandOver(c)
  <2>1. PICK i \in Live :
          /\ \A j \in Live : i <= j
          /\ waiters' = SubSeq(waiters, i + 1, Len(waiters))
          /\ task' = [task EXCEPT ![c] = "idle", ![waiters[i]] = "handed"]
    BY <1>2 DEF HandOver
  <2>2. PICK d : d = waiters[i]
    OBVIOUS
  <2>3. /\ i \in 1..Len(waiters) /\ Len(waiters) \in Nat
        /\ d \in Callers /\ task[d] = "queued" /\ d # c
    BY <2>2 DEF Live, IInv, TypeOK
  <2>4. /\ Len(waiters') = Len(waiters) - i
        /\ \A j \in 1..Len(waiters') : waiters'[j] = waiters[i + j]
    <3>1. CASE i = Len(waiters)
      BY <3>1, <2>1, <2>3, SubSeqEmpty, EmptySeq
    <3>2. CASE i < Len(waiters)
      BY <3>2, <2>1, <2>3, SubSeqProperties, LenProperties DEF IInv, TypeOK
    <3> QED BY <3>1, <3>2, <2>3
  <2>5. \A e \in Callers : task'[e] = IF e = d THEN "handed"
                                     ELSE IF e = c THEN "idle" ELSE task[e]
    BY <2>1, <2>2, <2>3 DEF IInv, TypeOK
  <2>6. Owners' = (Owners \ {c}) \cup {d}
    BY <2>5, <2>3, <1>0 DEF Owners, SlotStates
  <2>7. d \in Waiting /\ Waiting' = Waiting \ {d}
    BY <2>5, <2>3 DEF Waiting
  <2>8. \A k \in 1..Len(waiters) : waiters[k] \in Waiting => k >= i
    BY <2>1 DEF Live, Waiting
  <2>9. Pool!First(d)
    <3> SUFFICES ASSUME NEW e \in Waiting, <<e, d>> \in Ahead PROVE FALSE
      BY <2>7 DEF Pool!First
    <3>1. Before(e, d)
      BY DEF Ahead
    <3>2. PICK j, k \in 1..Len(waiters) : j < k /\ waiters[j] = e /\ waiters[k] = d
      BY <3>1 DEF Before
    <3>3. k = i
      BY <2>2, <2>3, <3>2 DEF IInv, NoLostWaiter
    <3>4. j >= i
      BY <2>8, <3>2
    <3> QED BY <2>3, <3>2, <3>3, <3>4
  <2>10. Pool!Out(d)
    <3> DEFINE f == [j \in 1..Len(waiters') |-> i + j]
    <3>1. f \in [1..Len(waiters') -> 1..Len(waiters)] /\ Len(waiters') \in Nat
      <4>1. \A j \in 1..Len(waiters') : i + j \in 1..Len(waiters)
        BY <2>3, <2>4
      <4>2. Len(waiters') \in Nat
        BY <2>3, <2>4
      <4> QED BY <4>1, <4>2
    <3>2. \A j \in 1..Len(waiters') : f[j] = i + j /\ waiters'[j] = waiters[f[j]]
      BY <2>4
    <3> HIDE DEF f
    <3>3. \A j, k \in 1..Len(waiters') : j < k <=> f[j] < f[k]
      BY <2>3, <2>4, <3>2
    <3>4. \A k \in 1..Len(waiters) : k > i => \E j \in 1..Len(waiters') : f[j] = k
      <4> SUFFICES ASSUME NEW k \in 1..Len(waiters), k > i
                   PROVE  \E j \in 1..Len(waiters') : f[j] = k
        OBVIOUS
      <4>1. k - i \in 1..Len(waiters') /\ i + (k - i) = k
        BY <2>3, <2>4
      <4> QED BY <4>1, <3>2
    <3>5. \A a, b \in Waiting' : Before(a, b)' <=> Before(a, b)
      <4> SUFFICES ASSUME NEW a \in Waiting', NEW b \in Waiting'
                   PROVE  Before(a, b)' <=> Before(a, b)
        OBVIOUS
      <4>1. \A k \in 1..Len(waiters) : waiters[k] \in {a, b} => k > i
        <5> SUFFICES ASSUME NEW k \in 1..Len(waiters), waiters[k] \in {a, b} PROVE k > i
          OBVIOUS
        <5>1. waiters[k] \in Waiting /\ waiters[k] # d
          BY <2>7
        <5>2. k >= i /\ k # i
          BY <5>1, <2>2, <2>8
        <5> QED BY <5>2, <2>3
      <4>2. \A l \in 1..Len(waiters) :
               waiters[l] \in {a, b} => \E j \in 1..Len(waiters') : f[j] = l
        BY <3>4, <4>1
      <4> QED BY <2>3, <3>1, <3>2, <3>3, <4>2, SameOrder, SMTT(30)
    <3> QED BY <2>7, <3>5, OnePoolLeavesQueue
  <2> QED BY <1>0, <2>3, <2>6, <2>9, <2>10 DEF Pool!Leave
<1> QED BY <1>1, <1>2 DEF release

LEMMA InitPool == Init => Pool!Init
<1> SUFFICES ASSUME Init PROVE Pool!Init
  OBVIOUS
<1>1. Owners = {} /\ Waiting = {}
  BY DEF Init, Owners, Waiting, SlotStates
<1>2. Ahead = {}
  BY <1>1 DEF Ahead
<1> QED BY <1>1, <1>2 DEF Pool!Init

LEMMA NextPool == IInv /\ [Next]_vars => [Pool!Next]_Pool!vars
<1> SUFFICES ASSUME IInv, [Next]_vars PROVE Pool!Next \/ UNCHANGED Pool!vars
  OBVIOUS
<1>1. CASE UNCHANGED vars
  <2>1. Owners' = Owners /\ Waiting' = Waiting
    BY <1>1 DEF vars, Owners, Waiting
  <2>2. \A a, b : Before(a, b)' <=> Before(a, b)
    BY <1>1 DEF vars, Before
  <2> QED BY <2>1, <2>2, NoPoolStep
<1>2. ASSUME NEW c \in Callers,
             AcquireFree(c) \/ AcquireEnqueue(c) \/ Interrupt(c) \/ Resume(c) \/ ExitSlot(c)
      PROVE  \/ Pool!Enter(c) \/ Pool!Join(c) \/ Pool!Leave(c) \/ Pool!Withdraw(c)
             \/ UNCHANGED Pool!vars
  <2>1. CASE AcquireFree(c)
    BY <2>1, AcquireSteps
  <2>2. CASE AcquireEnqueue(c)
    BY <2>2, AcquireSteps
  <2>3. CASE Interrupt(c)
    BY <2>3, InterruptSteps
  <2>4. CASE ResumeAdmitted(c) \/ ResumeWithdrawn(c)
    BY <2>4, ResumeSteps
  <2>5. CASE ResumeGiveBack(c)
    BY <2>5, ReleaseSteps DEF ResumeGiveBack
  <2>6. CASE ExitSlot(c)
    BY <2>6, ReleaseSteps DEF ExitSlot
  <2> QED BY <1>2, <2>1, <2>2, <2>3, <2>4, <2>5, <2>6 DEF Resume
<1> QED BY <1>1, <1>2 DEF Next, Pool!Next

\* Every behaviour of the gate, seen through who owns a slot and who still waits
\* in which order, is one of the FIFO pool of slots: futures that resolve late,
\* timeouts after the hand-over and cancelled futures left in the deque are
\* invisible to the callers of concurrency.py.
THEOREM GateImplementsPool == Spec => Pool!SafeSpec
<1>1. Init /\ [][Next]_vars => []IInv
  BY InitIInv, NextIInv, PTL
<1> QED BY <1>1, InitPool, NextPool, PTL DEF Spec, Pool!SafeSpec

\* Who gets a slot in a release: the leftmost live waiter, so it was in front of
\* every caller that goes on waiting.
LEMMA ReleaseInOrder ==
    ASSUME IInv, NEW x \in Callers, release(x), task[x] \in {"revoked", "holding"},
           NEW c \in Callers, NEW d \in Callers, c # d,
           task[d] \notin SlotStates, task'[d] \in SlotStates,
           task[c] = "queued", task'[c] = "queued"
    PROVE  Before(d, c)
<1>1. d # x
  BY DEF SlotStates
<1>2. CASE FreeSlot(x)
  BY <1>1, <1>2 DEF FreeSlot, IInv, TypeOK
<1>3. CASE HandOver(x)
  <2>1. PICK i \in Live :
          /\ \A j \in Live : i <= j
          /\ task' = [task EXCEPT ![x] = "idle", ![waiters[i]] = "handed"]
    BY <1>3 DEF HandOver
  <2>2. i \in 1..Len(waiters) /\ Len(waiters) \in Nat /\ waiters[i] \in Callers
    BY DEF Live, IInv, TypeOK
  <2>3. waiters[i] = d
    BY <1>1, <2>1, <2>2 DEF IInv, TypeOK
  <2>4. PICK k \in 1..Len(waiters) : waiters[k] = c
    BY DEF IInv, NoLostWaiter
  <2>5. k \in Live /\ k # i
    BY <2>3, <2>4 DEF Live
  <2>6. i < k
    BY <2>1, <2>2, <2>5
  <2> QED BY <2>2, <2>3, <2>4, <2>6 DEF Before
<1> QED BY <1>2, <1>3 DEF release

LEMMA StepInOrder ==
    ASSUME IInv, [Next]_vars, NEW c \in Callers, NEW d \in Callers, c # d,
           task[d] \notin SlotStates, task'[d] \in SlotStates,
           task[c] = "queued", task'[c] = "queued"
    PROVE  Before(d, c)
<1>1. CASE UNCHANGED vars
  BY <1>1 DEF vars
<1>2. ASSUME NEW x \in Callers,
             AcquireFree(x) \/ AcquireEnqueue(x) \/ Interrupt(x) \/ Resume(x) \/ ExitSlot(x)
      PROVE  Before(d, c)
  <2>1. CASE AcquireFree(x)
    <3>1. \A i \in 1..Len(waiters) : FALSE
      BY <2>1 DEF AcquireFree
    <3> QED BY <3>1 DEF IInv, NoLostWaiter
  <2>2. CASE AcquireEnqueue(x)
    BY <2>2 DEF AcquireEnqueue, IInv, TypeOK, SlotStates
  <2>3. CASE Interrupt(x)
    BY <2>3 DEF Interrupt, IInv, TypeOK, SlotStates
  <2>4. CASE ResumeAdmitted(x) \/ ResumeWithdrawn(x)
    BY <2>4 DEF ResumeAdmitted, ResumeWithdrawn, IInv, TypeOK, SlotStates
  <2>5. CASE ResumeGiveBack(x)
    BY <2>5, ReleaseInOrder DEF ResumeGiveBack
  <2>6. CASE ExitSlot(x)
    BY <2>6, ReleaseInOrder DEF ExitSlot
  <2> QED BY <1>2, <2>1, <2>2, <2>3, <2>4, <2>5, <2>6 DEF Resume
<1> QED BY <1>1, <1>2 DEF Next

\* Slots go in the order of arrival among the callers that still wait: nobody is
\* admitted past a pending future, by a fast path of _acquire or by _release.
THEOREM GateOrder == Spec => NoOvertaking
<1>1. IInv /\ [Next]_vars =>
        \A c, d \in Callers :
           (task[d] \notin SlotStates /\ task'[d] \in SlotStates
               /\ c # d /\ task[c] = "queued" /\ task'[c] = "queued")
           => Before(d, c)
  BY StepInOrder
<1> QED BY <1>1, InitIInv, NextIInv, PTL DEF Spec, NoOvertaking

----------------------------------------------------------------------------
\* The gate's counter equals the number of callers that own a slot, and never
\* exceeds inference_concurrency: concurrency.py hands slots over, gives them
\* back and frees them without leaking or doubling one.
THEOREM GateAccounting == Spec => [](TypeOK /\ SlotAccounting)
<1>1. IInv => TypeOK /\ SlotAccounting
  BY DEF IInv
<1> QED BY <1>1, InitIInv, NextIInv, PTL DEF Spec

\* A live waiter stays in the deque exactly once, and nobody waits while a slot
\* is free: the loops of _release and the except clause of _acquire agree.
THEOREM GateQueue == Spec => [](NoLostWaiter /\ WorkConserving)
<1>1. IInv => NoLostWaiter /\ WorkConserving
  BY DEF IInv
<1> QED BY <1>1, InitIInv, NextIInv, PTL DEF Spec

\* The saturation clock of readiness runs exactly while the gate is saturated.
THEOREM GateSaturation == Spec => []SaturationTracked
<1>1. IInv => SaturationTracked
  BY DEF IInv
<1> QED BY <1>1, InitIInv, NextIInv, PTL DEF Spec

----------------------------------------------------------------------------
(* The parser's gate.                                                      *)

\* The counter counts the requests that hold a slot.
ParserSlotAccounting == busy = Cardinality(Holders)

\* The line holds each waiting request at most once, and no other.
LineSound ==
    /\ \A i, j \in 1..Len(line) : line[i] = line[j] => i = j
    /\ \A i \in 1..Len(line) : at[line[i]] = "waiting"

\* Where a request may have a child or a thread.
HelperStates ==
    \A r \in Requests :
        /\ work = "child" =>
              /\ at[r] # "shielded"
              /\ at[r] \in {"idle", "waiting"} => helper[r] = "none"
        /\ work = "thread" =>
              /\ at[r] \in {"idle", "waiting", "shielded"}
              /\ helper[r] \in {"none", "running", "done"}
              /\ at[r] = "waiting" => helper[r] = "none"

ParserIInv == ParserTypeOK /\ ParserSlotAccounting /\ LineSound /\ HelperStates

LEMMA HoldersFinite ==
    ASSUME ParserAssumption
    PROVE  IsFiniteSet(Holders) /\ Cardinality(Holders) \in Nat
BY FS_Subset, FS_CardinalityType DEF Holders, ParserAssumption

LEMMA ParserInitIInv == ASSUME ParserAssumption, ParserInit PROVE ParserIInv
<1>1. Len(<<>>) = 0 /\ <<>> \in Seq(Requests)
  BY EmptySeq
<1>2. ParserTypeOK
  <2>1. busy \in 0..Capacity
    BY DEF ParserInit, ParserAssumption
  <2>2. line \in Seq(Requests)
    BY <1>1 DEF ParserInit
  <2> QED BY <2>1, <2>2 DEF ParserInit, ParserTypeOK
<1>3. Holders = {}
  BY DEF ParserInit, Holders
<1>4. ParserSlotAccounting
  BY <1>3, FS_EmptySet DEF ParserInit, ParserSlotAccounting
<1>5. LineSound
  <2>1. \A i \in 1..Len(line) : FALSE
    BY <1>1 DEF ParserInit
  <2> QED BY <2>1 DEF LineSound
<1>6. HelperStates
  BY DEF ParserInit, HelperStates
<1> QED BY <1>2, <1>4, <1>5, <1>6 DEF ParserIInv

\* Steps that move no slot: the line and who holds a slot stay as they are.
LEMMA NoSlotMoves ==
    ASSUME ParserAssumption, ParserIInv, ParserTypeOK', HelperStates',
           busy' = busy, line' = line, Holders' = Holders,
           \A i \in 1..Len(line) : at'[line[i]] = "waiting"
    PROVE  ParserIInv'
BY DEF ParserIInv, ParserSlotAccounting, LineSound

\* A slot is given back: the first in line has it, or there is one holder less.
SlotGivenBack(r) ==
    /\ r \in Holders
    /\ \/ /\ line = <<>> /\ line' = <<>>
          /\ Holders' = Holders \ {r}
       \/ /\ line # <<>> /\ line' = Tail(line)
          /\ Holders' = (Holders \ {r}) \cup {line[1]}

LEMMA ReleaseKeeps ==
    ASSUME ParserAssumption, ParserIInv, NEW r \in Requests, r \in Holders, releaseSlot,
           work' = work,
           \A q \in Requests \ {r} : at'[q] = at[q] /\ helper'[q] = helper[q],
           at'[r] \in {"idle", "shielded"},
           work = "thread" => helper'[r] # "running"
    PROVE  /\ busy' \in 0..Capacity /\ line' \in Seq(Requests)
           /\ ParserSlotAccounting' /\ LineSound'
           /\ SlotGivenBack(r)
<1>1. IsFiniteSet(Holders) /\ Cardinality(Holders) \in Nat /\ Cardinality(Holders) # 0
  BY HoldersFinite, FS_EmptySet
<1>2. busy = Cardinality(Holders) /\ busy \in 0..Capacity /\ Capacity \in Nat
      /\ line \in Seq(Requests)
  BY DEF ParserIInv, ParserTypeOK, ParserSlotAccounting, ParserAssumption
<1>3. \A i \in 1..Len(line) : line[i] \in Requests /\ line[i] # r
  <2> SUFFICES ASSUME NEW i \in 1..Len(line) PROVE line[i] \in Requests /\ line[i] # r
    OBVIOUS
  <2>1. line[i] \in Requests /\ at[line[i]] = "waiting"
    BY <1>2, ElementOfSeq DEF ParserIInv, LineSound
  <2>2. ASSUME line[i] = r PROVE FALSE
    <3>1. at[r] = "waiting" /\ InLine(r)
      BY <2>1, <2>2 DEF InLine
    <3>2. work = "thread" /\ helper[r] = "running"
      BY <3>1 DEF Holders
    <3> QED BY <3>1, <3>2 DEF ParserIInv, HelperStates
  <2> QED BY <2>1, <2>2
<1>4. CASE line # <<>> /\ line' = Tail(line) /\ busy' = busy
  <2> DEFINE h == line[1]
  <2>1. /\ Len(line) \in Nat /\ Len(line) >= 1 /\ h \in Requests /\ h # r
        /\ line' \in Seq(Requests) /\ Len(line') = Len(line) - 1
        /\ \A i \in 1..Len(line') : line'[i] = line[i + 1]
    <3>1. Len(line) \in Nat /\ Len(line) >= 1
      BY <1>2, <1>4, LenProperties, EmptySeq
    <3> QED BY <3>1, <1>2, <1>3, <1>4, HeadTailProperties
  <2>2. \A q \in Requests : InLine(q)' <=> InLine(q) /\ q # h
    <3> SUFFICES ASSUME NEW q \in Requests PROVE InLine(q)' <=> InLine(q) /\ q # h
      OBVIOUS
    <3>1. ASSUME NEW i \in 1..Len(line'), line'[i] = q PROVE InLine(q) /\ q # h
      <4>1. i + 1 \in 1..Len(line) /\ 1 \in 1..Len(line) /\ i + 1 # 1
            /\ line[i + 1] = q
        BY <2>1, <3>1
      <4> QED BY <4>1 DEF InLine, ParserIInv, LineSound
    <3>2. ASSUME NEW i \in 1..Len(line), line[i] = q, q # h PROVE InLine(q)'
      <4>1. i # 1
        BY <3>2
      <4>2. i - 1 \in 1..Len(line') /\ line'[i - 1] = q
        BY <2>1, <3>2, <4>1
      <4> QED BY <4>2 DEF InLine
    <3> QED BY <3>1, <3>2 DEF InLine
  <2>3. at[h] = "waiting" /\ InLine(h) /\ helper[h] = "none"
    <3>1. at[h] = "waiting" /\ InLine(h)
      BY <2>1 DEF ParserIInv, LineSound, InLine
    <3> QED BY <2>1, <3>1 DEF ParserIInv, HelperStates, ParserTypeOK
  <2> HIDE DEF h
  <2>4. h \notin Holders /\ h \in Holders' /\ r \notin Holders'
    BY <2>1, <2>2, <2>3 DEF Holders
  <2>5. \A q \in Requests \ {h, r} : q \in Holders' <=> q \in Holders
    BY <2>2 DEF Holders
  <2>6. Holders' = (Holders \ {r}) \cup {h}
    <3>1. Holders \subseteq Requests /\ Holders' \subseteq Requests
      BY DEF Holders
    <3> QED BY <2>1, <2>4, <2>5, <3>1
  <2>7. Cardinality(Holders') = Cardinality(Holders)
    <3>1. /\ IsFiniteSet(Holders \ {r}) /\ h \notin Holders \ {r}
          /\ Cardinality(Holders \ {r}) = Cardinality(Holders) - 1
      BY <1>1, <2>4, FS_RemoveElement
    <3>2. Cardinality((Holders \ {r}) \cup {h}) = Cardinality(Holders \ {r}) + 1
      BY <3>1, FS_AddElement
    <3> QED BY <1>1, <2>6, <3>1, <3>2
  <2>8. LineSound'
    <3>1. \A i, j \in 1..Len(line') : line'[i] = line'[j] => i = j
      <4> SUFFICES ASSUME NEW i \in 1..Len(line'), NEW j \in 1..Len(line'),
                          line'[i] = line'[j]
                   PROVE  i = j
        OBVIOUS
      <4>1. /\ i + 1 \in 1..Len(line) /\ j + 1 \in 1..Len(line)
            /\ line[i + 1] = line[j + 1]
        BY <2>1
      <4>2. i + 1 = j + 1
        BY <4>1 DEF ParserIInv, LineSound
      <4> QED BY <2>1, <4>2
    <3>2. \A i \in 1..Len(line') : at'[line'[i]] = "waiting"
      <4> SUFFICES ASSUME NEW i \in 1..Len(line') PROVE at'[line'[i]] = "waiting"
        OBVIOUS
      <4>1. i + 1 \in 1..Len(line) /\ line'[i] = line[i + 1]
        BY <2>1
      <4> QED BY <1>3, <4>1 DEF ParserIInv, LineSound
    <3> QED BY <3>1, <3>2 DEF LineSound
  <2>9. Holders' = (Holders \ {r}) \cup {line[1]}
    BY <2>6 DEF h
  <2> QED BY <1>2, <1>4, <2>1, <2>7, <2>8, <2>9 DEF ParserSlotAccounting, SlotGivenBack
<1>5. CASE line = <<>> /\ line' = line /\ busy' = busy - 1
  <2>1. Len(line) = 0
    BY <1>5, EmptySeq
  <2>2. Holders' = Holders \ {r}
    BY <1>5, <2>1 DEF Holders, InLine
  <2>3. Cardinality(Holders') = Cardinality(Holders) - 1
    BY <1>1, <2>2, FS_RemoveElement
  <2>4. LineSound'
    <3>1. \A i \in 1..Len(line') : FALSE
      BY <1>5, <2>1
    <3> QED BY <3>1 DEF LineSound
  <2> QED BY <1>1, <1>2, <1>5, <2>2, <2>3, <2>4 DEF ParserSlotAccounting, SlotGivenBack
<1> QED BY <1>4, <1>5 DEF releaseSlot

LEMMA AcquireIInv ==
    ASSUME ParserAssumption, ParserIInv, NEW r \in Requests, AcquireSlot(r) \/ AcquireWait(r)
    PROVE  /\ ParserIInv' /\ r \notin Holders
           /\ AcquireSlot(r) => Holders' = Holders \cup {r}
           /\ AcquireWait(r) => Holders' = Holders
<1>1. IsFiniteSet(Holders) /\ Cardinality(Holders) \in Nat
  BY HoldersFinite
<1>2. \A i \in 1..Len(line) : line[i] # r
  BY DEF AcquireSlot, AcquireWait, ParserIInv, LineSound
<1>3. r \notin Holders
  BY DEF AcquireSlot, AcquireWait, Holders
<1>4. CASE AcquireSlot(r)
  <2>1. ParserTypeOK'
    BY <1>4 DEF AcquireSlot, Begin, ParserIInv, ParserTypeOK, ParserAssumption
  <2>2. HelperStates'
    BY <1>4 DEF AcquireSlot, Begin, ParserIInv, ParserTypeOK, HelperStates
  <2>3. Holders' = Holders \cup {r}
    BY <1>4 DEF AcquireSlot, Begin, Holders, InLine, ParserIInv, ParserTypeOK
  <2>4. Cardinality(Holders') = Cardinality(Holders) + 1
    BY <1>1, <1>3, <2>3, FS_AddElement
  <2>5. ParserSlotAccounting'
    BY <1>4, <2>4 DEF AcquireSlot, ParserSlotAccounting, ParserIInv
  <2>6. LineSound'
    BY <1>2, <1>4 DEF AcquireSlot, Begin, LineSound, ParserIInv, ParserTypeOK
  <2>7. ~AcquireWait(r)
    BY <1>4 DEF AcquireSlot, AcquireWait, ParserIInv, ParserTypeOK, ParserAssumption
  <2> QED BY <1>3, <2>1, <2>2, <2>3, <2>5, <2>6, <2>7 DEF ParserIInv
<1>5. CASE AcquireWait(r)
  <2>1. /\ Len(line) \in Nat /\ line' \in Seq(Requests) /\ Len(line') = Len(line) + 1
        /\ \A i \in 1..Len(line) : line'[i] = line[i]
        /\ line'[Len(line) + 1] = r
    BY <1>5, AppendProperties, LenProperties DEF AcquireWait, ParserIInv, ParserTypeOK
  <2>2. at' = [at EXCEPT ![r] = "waiting"] /\ UNCHANGED <<work, busy, raised, helper>>
        /\ helper[r] = "none" /\ at[r] = "idle"
    BY <1>5 DEF AcquireWait
  <2>3. ParserTypeOK'
    BY <2>1, <2>2 DEF ParserIInv, ParserTypeOK
  <2>4. HelperStates'
    BY <2>2 DEF ParserIInv, ParserTypeOK, HelperStates
  <2>5. \A q \in Requests \ {r} : InLine(q)' <=> InLine(q)
    <3> SUFFICES ASSUME NEW q \in Requests \ {r} PROVE InLine(q)' <=> InLine(q)
      OBVIOUS
    <3>1. \A i \in 1..Len(line') : i \in 1..Len(line) \/ i = Len(line) + 1
      BY <2>1
    <3>2. \A i \in 1..Len(line) : i \in 1..Len(line')
      BY <2>1
    <3> QED BY <2>1, <3>1, <3>2 DEF InLine
  <2>6. InLine(r)'
    BY <2>1 DEF InLine
  <2>7. Holders' = Holders
    <3>1. \A q \in Requests : at'[q] = IF q = r THEN "waiting" ELSE at[q]
      BY <2>2 DEF ParserIInv, ParserTypeOK
    <3> QED BY <2>2, <2>5, <2>6, <3>1, <1>3 DEF Holders
  <2>8. LineSound'
    <3>1. \A i \in 1..Len(line') : i \in 1..Len(line) \/ i = Len(line) + 1
      BY <2>1
    <3>2. \A q \in Requests : at'[q] = IF q = r THEN "waiting" ELSE at[q]
      BY <2>2 DEF ParserIInv, ParserTypeOK
    <3>3. \A i \in 1..Len(line) : line[i] \in Requests
      BY ElementOfSeq DEF ParserIInv, ParserTypeOK
    <3> QED BY <1>2, <2>1, <3>1, <3>2, <3>3 DEF LineSound, ParserIInv
  <2>9. ~AcquireSlot(r)
    BY <1>5 DEF AcquireSlot, AcquireWait, ParserIInv, ParserTypeOK, ParserAssumption
  <2> QED BY <1>3, <2>2, <2>3, <2>4, <2>7, <2>8, <2>9 DEF ParserIInv, ParserSlotAccounting
<1> QED BY <1>4, <1>5

LEMMA TurnedAwayIInv ==
    ASSUME ParserAssumption, ParserIInv, NEW r \in Requests, TurnedAway(r)
    PROVE  /\ ParserIInv'
           /\ \/ Leave(r) /\ busy' = busy /\ Holders' = Holders
              \/ ~InLine(r) /\ SlotGivenBack(r)
<1>1. /\ at[r] = "waiting" /\ at' = [at EXCEPT ![r] = "idle"]
      /\ raised' = [raised EXCEPT ![r] = FALSE] /\ UNCHANGED <<work, helper>>
      /\ helper[r] = "none"
  <2>1. /\ at[r] = "waiting" /\ at' = [at EXCEPT ![r] = "idle"]
        /\ raised' = [raised EXCEPT ![r] = FALSE] /\ UNCHANGED <<work, helper>>
    BY DEF TurnedAway, Ends
  <2> QED BY <2>1 DEF ParserIInv, HelperStates, ParserTypeOK
<1>2. \A q \in Requests : at'[q] = IF q = r THEN "idle" ELSE at[q]
  BY <1>1 DEF ParserIInv, ParserTypeOK
<1>3. HelperStates'
  BY <1>1, <1>2 DEF ParserIInv, HelperStates
<1>4. at' \in [Requests -> {"idle", "waiting", "starting", "working", "cleaning", "shielded"}]
      /\ raised' \in [Requests -> BOOLEAN] /\ work' \in {"child", "thread"}
      /\ helper' \in [Requests -> {"none", "starting", "failed", "running", "done"}]
  BY <1>1 DEF ParserIInv, ParserTypeOK
<1>5. CASE Leave(r) /\ busy' = busy
  <2>1. PICK i \in 1..Len(line) :
          line[i] = r /\ line' = Without(line, i)
    BY <1>5 DEF Leave, Without
  <2>2. line \in Seq(Requests) /\ Len(line) \in Nat /\ i \in Nat
    BY LenProperties DEF ParserIInv, ParserTypeOK
  <2>3. /\ line' \in Seq(Requests) /\ Len(line') = Len(line) - 1
        /\ \A j \in 1..Len(line') :
              line'[j] = IF j < i THEN line[j] ELSE line[j + 1]
    <3>1. /\ line' \in Seq(Requests) /\ Len(line') = Len(line) - 1
          /\ \A j \in 1..(Len(line) - 1) :
                line'[j] = IF j < i THEN line[j] ELSE line[j + 1]
      BY <2>1, <2>2, WithoutProperties
    <3> QED BY <3>1
  <2>4. \A q \in Requests \ {r} : InLine(q)' <=> InLine(q)
    <3> SUFFICES ASSUME NEW q \in Requests \ {r} PROVE InLine(q)' <=> InLine(q)
      OBVIOUS
    <3>1. ASSUME NEW j \in 1..Len(line'), line'[j] = q PROVE InLine(q)
      <4>1. j \in 1..Len(line) /\ j + 1 \in 1..Len(line)
        BY <2>2, <2>3
      <4> QED BY <2>3, <3>1, <4>1 DEF InLine
    <3>2. ASSUME NEW j \in 1..Len(line), line[j] = q PROVE InLine(q)'
      <4>1. j # i
        BY <2>1, <3>2
      <4>2. CASE j < i
        <5>1. j \in 1..Len(line')
          BY <2>2, <2>3, <4>2
        <5> QED BY <2>3, <3>2, <4>2, <5>1 DEF InLine
      <4>3. CASE j > i
        <5>1. j - 1 \in 1..Len(line') /\ ~(j - 1 < i) /\ (j - 1) + 1 = j
          BY <2>2, <2>3, <4>3
        <5> QED BY <2>3, <3>2, <5>1 DEF InLine
      <4> QED BY <2>2, <4>1, <4>2, <4>3
    <3> QED BY <3>1, <3>2 DEF InLine
  <2>5. r \notin Holders
    <3>1. InLine(r)
      BY <2>1 DEF InLine
    <3> QED BY <1>1, <3>1 DEF Holders
  <2>6. Holders' = Holders
    BY <1>1, <1>2, <2>4, <2>5 DEF Holders
  <2>7. LineSound'
    <3>1. \A j, k \in 1..Len(line') : line'[j] = line'[k] => j = k
      <4> SUFFICES ASSUME NEW j \in 1..Len(line'), NEW k \in 1..Len(line'),
                          line'[j] = line'[k]
                   PROVE  j = k
        OBVIOUS
      <4> DEFINE J == IF j < i THEN j ELSE j + 1
                 K == IF k < i THEN k ELSE k + 1
      <4>1. j \in 1..(Len(line) - 1) /\ k \in 1..(Len(line) - 1)
        BY <2>2, <2>3
      <4>2. J \in 1..Len(line) /\ K \in 1..Len(line)
        BY <2>2, <4>1
      <4>3. line'[j] = line[J] /\ line'[k] = line[K]
        BY <2>3
      <4>4. J = K
        BY <4>2, <4>3 DEF ParserIInv, LineSound
      <4> QED BY <2>2, <4>1, <4>4
    <3>2. \A j \in 1..Len(line') : at'[line'[j]] = "waiting"
      <4> SUFFICES ASSUME NEW j \in 1..Len(line') PROVE at'[line'[j]] = "waiting"
        OBVIOUS
      <4> DEFINE J == IF j < i THEN j ELSE j + 1
      <4>1. J \in 1..Len(line) /\ J # i /\ line'[j] = line[J]
        BY <2>2, <2>3
      <4>2. line[J] # r /\ line[J] \in Requests /\ at[line[J]] = "waiting"
        BY <2>1, <2>2, <4>1, ElementOfSeq DEF ParserIInv, LineSound
      <4> QED BY <1>2, <4>1, <4>2
    <3> QED BY <3>1, <3>2 DEF LineSound
  <2> QED BY <1>3, <1>4, <1>5, <2>3, <2>6, <2>7 DEF ParserIInv, ParserTypeOK, ParserSlotAccounting
<1>6. CASE ~InLine(r) /\ releaseSlot
  <2>1. r \in Holders
    BY <1>1, <1>6 DEF Holders
  <2>2. /\ busy' \in 0..Capacity /\ line' \in Seq(Requests)
        /\ ParserSlotAccounting' /\ LineSound' /\ SlotGivenBack(r)
    BY <1>1, <1>2, <1>6, <2>1, ReleaseKeeps
  <2> QED BY <1>3, <1>4, <1>6, <2>2 DEF ParserIInv, ParserTypeOK
<1> QED BY <1>5, <1>6 DEF TurnedAway

LEMMA EndsIInv ==
    ASSUME ParserAssumption, ParserIInv, NEW r \in Requests, Finish(r) \/ ThreadEnds(r)
    PROVE  ParserIInv' /\ SlotGivenBack(r)
<1>1. r \in Holders
  BY DEF Finish, ThreadEnds, Holders
<1>2. /\ releaseSlot /\ work' = work
      /\ at' = [at EXCEPT ![r] = IF Finish(r) THEN "idle" ELSE @]
      /\ helper' = [helper EXCEPT ![r] = IF ~Finish(r) /\ at[r] = "shielded" THEN "done" ELSE "none"]
      /\ raised' \in [Requests -> BOOLEAN]
  BY DEF Finish, ThreadEnds, Ends, ParserIInv, ParserTypeOK, HelperStates
<1>3. \A q \in Requests \ {r} : at'[q] = at[q] /\ helper'[q] = helper[q]
  BY <1>2 DEF ParserIInv, ParserTypeOK
<1>4. at'[r] \in {"idle", "shielded"} /\ helper'[r] \in {"none", "done"}
      /\ (at'[r] = "idle" => helper'[r] = "none") /\ (work = "child" => at'[r] = "idle")
  BY <1>2 DEF Finish, ThreadEnds, ParserIInv, ParserTypeOK, HelperStates
<1>5. /\ busy' \in 0..Capacity /\ line' \in Seq(Requests)
      /\ ParserSlotAccounting' /\ LineSound' /\ SlotGivenBack(r)
  BY <1>1, <1>2, <1>3, <1>4, ReleaseKeeps
<1>6. HelperStates'
  BY <1>2, <1>3, <1>4 DEF ParserIInv, HelperStates
<1>7. at' \in [Requests -> {"idle", "waiting", "starting", "working", "cleaning", "shielded"}]
      /\ work' \in {"child", "thread"}
      /\ helper' \in [Requests -> {"none", "starting", "failed", "running", "done"}]
  BY <1>2 DEF ParserIInv, ParserTypeOK
<1> QED BY <1>2, <1>5, <1>6, <1>7 DEF ParserIInv, ParserTypeOK

\* The steps in which a slot stays where it is.
LEMMA QuietIInv ==
    ASSUME ParserAssumption, ParserIInv, NEW r \in Requests,
           \/ InterruptWait(r) \/ CancelShielded(r) \/ ChildExits(r) \/ WorkEnds(r)
           \/ Admitted(r) \/ SpawnResolves(r) \/ Started(r) \/ InterruptWork(r)
           \/ Reap(r) \/ ShieldEnds(r)
    PROVE  ParserIInv' /\ Holders' = Holders /\ line' = line
<1> DEFINE Quiet ==
      /\ UNCHANGED <<work, busy, line>> /\ ParserTypeOK' /\ HelperStates'
      /\ \A q \in Requests \ {r} : at'[q] = at[q] /\ helper'[q] = helper[q]
      /\ at[r] = "waiting" /\ InLine(r) => at'[r] = "waiting" /\ helper'[r] = helper[r]
      /\ r \in Holders <=> r \in Holders'
<1>1. ASSUME Quiet PROVE ParserIInv' /\ Holders' = Holders /\ line' = line
  <2>1. \A q \in Requests : InLine(q)' <=> InLine(q)
    BY <1>1 DEF InLine
  <2>2. Holders' = Holders
    BY <1>1, <2>1 DEF Holders
  <2>3. \A i \in 1..Len(line) : at'[line[i]] = "waiting"
    <3> SUFFICES ASSUME NEW i \in 1..Len(line) PROVE at'[line[i]] = "waiting"
      OBVIOUS
    <3>1. line[i] \in Requests /\ at[line[i]] = "waiting" /\ InLine(line[i])
      BY ElementOfSeq DEF ParserIInv, ParserTypeOK, LineSound, InLine
    <3> QED BY <1>1, <3>1
  <2> QED BY <1>1, <2>2, <2>3, NoSlotMoves
<1>2. CASE InterruptWait(r)
  BY <1>1, <1>2 DEF InterruptWait, ParserIInv, ParserTypeOK, HelperStates, Holders, InLine
<1>3. CASE CancelShielded(r)
  BY <1>1, <1>3 DEF CancelShielded, ParserIInv, ParserTypeOK, HelperStates, Holders, InLine
<1>4. CASE ChildExits(r)
  BY <1>1, <1>4 DEF ChildExits, ParserIInv, ParserTypeOK, HelperStates, Holders, InLine
<1>5. CASE WorkEnds(r)
  BY <1>1, <1>5 DEF WorkEnds, ParserIInv, ParserTypeOK, HelperStates, Holders, InLine
<1>6. CASE Admitted(r)
  BY <1>1, <1>6 DEF Admitted, Begin, ParserIInv, ParserTypeOK, HelperStates, Holders, InLine
<1>7. CASE SpawnResolves(r)
  BY <1>1, <1>7 DEF SpawnResolves, ParserIInv, ParserTypeOK, HelperStates, Holders, InLine
<1>8. CASE Started(r)
  BY <1>1, <1>8 DEF Started, ParserIInv, ParserTypeOK, HelperStates, Holders, InLine
<1>9. CASE InterruptWork(r)
  BY <1>1, <1>9 DEF InterruptWork, ParserIInv, ParserTypeOK, HelperStates, Holders, InLine
<1>10. CASE Reap(r)
  BY <1>1, <1>10 DEF Reap, ParserIInv, ParserTypeOK, HelperStates, Holders, InLine
<1>11. CASE ShieldEnds(r)
  BY <1>1, <1>11 DEF ShieldEnds, Ends, ParserIInv, ParserTypeOK, HelperStates, Holders, InLine
<1> QED BY <1>2, <1>3, <1>4, <1>5, <1>6, <1>7, <1>8, <1>9, <1>10, <1>11

LEMMA StepIInv == ASSUME ParserAssumption, ParserIInv, [ParserNext]_parserVars PROVE ParserIInv'
<1>1. CASE UNCHANGED parserVars
  BY <1>1 DEF parserVars, ParserIInv, ParserTypeOK, ParserSlotAccounting, Holders, InLine,
              LineSound, HelperStates
<1>2. ASSUME NEW r \in Requests,
             \/ AcquireSlot(r) \/ AcquireWait(r)
             \/ InterruptWait(r) \/ CancelShielded(r)
             \/ ChildExits(r) \/ WorkEnds(r)
             \/ Served(r)
      PROVE  ParserIInv'
  BY <1>2, AcquireIInv, TurnedAwayIInv, EndsIInv, QuietIInv DEF Served
<1> QED BY <1>1, <1>2 DEF ParserNext

LEMMA IInvHelpers == ASSUME ParserAssumption, ParserIInv PROVE HelpersHoldSlots
<1>1. Alive \subseteq Holders
  BY DEF Alive, Holders, ParserIInv, ParserTypeOK, HelperStates
<1>2. IsFiniteSet(Holders) /\ Cardinality(Holders) \in Nat
  BY HoldersFinite
<1>3. Cardinality(Alive) \in Nat /\ Cardinality(Alive) <= Cardinality(Holders)
  BY <1>1, <1>2, FS_Subset, FS_CardinalityType
<1>4. Cardinality(Holders) <= Capacity
  BY DEF ParserIInv, ParserTypeOK, ParserSlotAccounting, ParserAssumption
<1>5. Cardinality(Alive) <= Capacity
  BY <1>2, <1>3, <1>4 DEF ParserAssumption
<1> QED BY <1>1, <1>5 DEF HelpersHoldSlots

----------------------------------------------------------------------------
\* The parser's gate implements the pool of slots, step by step.

\* Nobody waits while a slot is free.
ParserWorkConserving == line # <<>> => busy = Capacity

LEMMA StepWorkConserving ==
    ASSUME ParserAssumption, ParserIInv, ParserWorkConserving, [ParserNext]_parserVars
    PROVE  ParserWorkConserving'
<1>1. busy \in 0..Capacity /\ Capacity \in Nat
  BY DEF ParserIInv, ParserTypeOK, ParserAssumption
<1>2. ASSUME releaseSlot PROVE ParserWorkConserving'
  BY <1>2 DEF releaseSlot, ParserWorkConserving
<1>3. ASSUME NEW r \in Requests,
             \/ AcquireSlot(r) \/ AcquireWait(r)
             \/ InterruptWait(r) \/ CancelShielded(r)
             \/ ChildExits(r) \/ WorkEnds(r)
             \/ Served(r)
      PROVE  ParserWorkConserving'
  <2>1. CASE AcquireSlot(r)
    BY <1>1, <2>1 DEF AcquireSlot, ParserWorkConserving
  <2>2. CASE AcquireWait(r)
    BY <1>1, <2>2 DEF AcquireWait, ParserWorkConserving
  <2>3. CASE TurnedAway(r)
    <3>1. CASE Leave(r) /\ busy' = busy
      <4>1. line # <<>>
        BY <3>1, EmptySeq DEF Leave
      <4> QED BY <3>1, <4>1 DEF ParserWorkConserving
    <3> QED BY <1>2, <2>3, <3>1 DEF TurnedAway
  <2>4. CASE Finish(r) \/ ThreadEnds(r)
    BY <1>2, <2>4 DEF Finish, ThreadEnds
  <2>5. CASE \/ InterruptWait(r) \/ CancelShielded(r) \/ ChildExits(r) \/ WorkEnds(r)
             \/ Admitted(r) \/ SpawnResolves(r) \/ Started(r) \/ InterruptWork(r)
             \/ Reap(r) \/ ShieldEnds(r)
    BY <2>5 DEF ParserWorkConserving, InterruptWait, CancelShielded, ChildExits, WorkEnds,
                Admitted, SpawnResolves, Started, InterruptWork, Reap, ShieldEnds
  <2> QED BY <1>3, <2>1, <2>2, <2>3, <2>4, <2>5 DEF Served
<1>4. CASE UNCHANGED parserVars
  BY <1>4 DEF parserVars, ParserWorkConserving
<1> QED BY <1>3, <1>4 DEF ParserNext

\* The requests in line, and which of them is in front of which.
ParserWaiting == {r \in Requests : InLine(r)}

ParserBefore(c, d) == \E i, j \in 1..Len(line) : i < j /\ line[i] = c /\ line[j] = d

LEMMA ParserPoolCardinality == \A S : ParserPool!Cardinality(S) = Cardinality(S)
BY DEF Cardinality, ParserPool!Cardinality

\* Taking entries out of the line leaves the others in their order: f says where
\* the entries that stay were, and c and d are among them.
LEMMA ParserSameOrder ==
    ASSUME NEW c, NEW d, Len(line) \in Nat, Len(line') \in Nat,
           NEW f, f \in [1..Len(line') -> 1..Len(line)],
           \A j \in 1..Len(line') : line'[j] = line[f[j]],
           \A j, k \in 1..Len(line') : j < k <=> f[j] < f[k],
           \A i \in 1..Len(line) :
              line[i] \in {c, d} => \E j \in 1..Len(line') : f[j] = i
    PROVE  ParserBefore(c, d)' <=> ParserBefore(c, d)
<1>1. ASSUME NEW j \in 1..Len(line'), NEW k \in 1..Len(line'),
             j < k, line'[j] = c, line'[k] = d
      PROVE  ParserBefore(c, d)
  <2>1. f[j] \in 1..Len(line) /\ f[k] \in 1..Len(line) /\ f[j] < f[k]
    BY <1>1
  <2> QED BY <1>1, <2>1 DEF ParserBefore
<1>2. ASSUME NEW i \in 1..Len(line), NEW l \in 1..Len(line),
             i < l, line[i] = c, line[l] = d
      PROVE  ParserBefore(c, d)'
  <2>1. PICK j \in 1..Len(line') : f[j] = i
    BY <1>2
  <2>2. PICK k \in 1..Len(line') : f[k] = l
    BY <1>2
  <2>3. j < k /\ line'[j] = c /\ line'[k] = d
    BY <1>2, <2>1, <2>2
  <2> QED BY <2>3 DEF ParserBefore
<1> QED BY <1>1, <1>2 DEF ParserBefore

\* An entry of the line is taken out, at its head or further back.
LEMMA EntryLeaves ==
    ASSUME ParserIInv, NEW i \in 1..Len(line), line' = Without(line, i)
    PROVE  line[i] \in ParserWaiting /\ ParserPool!Out(line[i])
<1>1. line \in Seq(Requests) /\ Len(line) \in Nat /\ i \in Nat
  BY LenProperties DEF ParserIInv, ParserTypeOK
<1>2. /\ Len(line') = Len(line) - 1
      /\ \A j \in 1..(Len(line) - 1) :
            line'[j] = IF j < i THEN line[j] ELSE line[j + 1]
  BY <1>1, WithoutProperties
<1> DEFINE f == [j \in 1..Len(line') |-> IF j < i THEN j ELSE j + 1]
<1>3. \A j \in 1..Len(line') : f[j] = IF j < i THEN j ELSE j + 1
  OBVIOUS
<1>4. f \in [1..Len(line') -> 1..Len(line)]
  <2>1. \A j \in 1..Len(line') : (IF j < i THEN j ELSE j + 1) \in 1..Len(line)
    BY <1>1, <1>2
  <2> QED BY <2>1
<1> HIDE DEF f
<1>5. \A j \in 1..Len(line') : line'[j] = line[f[j]] /\ f[j] # i
  BY <1>1, <1>2, <1>3
<1>6. \A j, k \in 1..Len(line') : j < k <=> f[j] < f[k]
  BY <1>1, <1>2, <1>3
<1>7. \A l \in 1..Len(line) : l # i => \E j \in 1..Len(line') : f[j] = l
  <2> SUFFICES ASSUME NEW l \in 1..Len(line), l # i
               PROVE  \E j \in 1..Len(line') : f[j] = l
    OBVIOUS
  <2>1. CASE l < i
    <3>1. l \in 1..Len(line') /\ f[l] = l
      BY <2>1, <1>1, <1>2, <1>3
    <3> QED BY <3>1
  <2>2. CASE l > i
    <3>1. l - 1 \in 1..Len(line') /\ f[l - 1] = l
      BY <2>2, <1>1, <1>2, <1>3
    <3> QED BY <3>1
  <2> QED BY <2>1, <2>2, <1>1
<1>8. PICK r : r = line[i]
  OBVIOUS
<1>9. r \in ParserWaiting
  BY <1>1, <1>8, ElementOfSeq DEF ParserWaiting, InLine
<1>10. \A q \in Requests : InLine(q)' <=> InLine(q) /\ q # r
  <2> SUFFICES ASSUME NEW q \in Requests PROVE InLine(q)' <=> InLine(q) /\ q # r
    OBVIOUS
  <2>1. ASSUME NEW j \in 1..Len(line'), line'[j] = q PROVE InLine(q) /\ q # r
    <3>1. f[j] \in 1..Len(line) /\ f[j] # i /\ line[f[j]] = q
      BY <1>4, <1>5, <2>1
    <3> QED BY <1>8, <3>1 DEF InLine, ParserIInv, LineSound
  <2>2. ASSUME NEW l \in 1..Len(line), line[l] = q, q # r PROVE InLine(q)'
    <3>1. PICK j \in 1..Len(line') : f[j] = l
      BY <1>7, <1>8, <2>2
    <3> QED BY <1>5, <2>2, <3>1 DEF InLine
  <2> QED BY <2>1, <2>2 DEF InLine
<1>11. ParserWaiting' = ParserWaiting \ {r}
  BY <1>10 DEF ParserWaiting
<1>12. \A c, d \in ParserWaiting \ {r} : ParserBefore(c, d)' <=> ParserBefore(c, d)
  <2> SUFFICES ASSUME NEW c \in ParserWaiting \ {r}, NEW d \in ParserWaiting \ {r}
               PROVE  ParserBefore(c, d)' <=> ParserBefore(c, d)
    OBVIOUS
  <2>1. \A l \in 1..Len(line) :
           line[l] \in {c, d} => \E j \in 1..Len(line') : f[j] = l
    BY <1>7, <1>8
  <2>2. Len(line') \in Nat
    BY <1>1, <1>2
  <2> QED BY <1>1, <1>4, <1>5, <1>6, <2>1, <2>2, ParserSameOrder
<1>13. \A c, d : ParserBefore(c, d)' => InLine(c)' /\ InLine(d)'
  BY DEF ParserBefore, InLine
<1>14. \A c, d : ParserBefore(c, d) => InLine(c) /\ InLine(d)
  BY DEF ParserBefore, InLine
<1>15. \A p \in Requests \X Requests :
          ParserBefore(p[1], p[2])' <=> ParserBefore(p[1], p[2]) /\ p[1] # r /\ p[2] # r
  <2> SUFFICES ASSUME NEW c \in Requests, NEW d \in Requests
               PROVE  ParserBefore(c, d)' <=> ParserBefore(c, d) /\ c # r /\ d # r
    OBVIOUS
  <2>1. CASE c \in ParserWaiting \ {r} /\ d \in ParserWaiting \ {r}
    BY <1>12, <2>1
  <2>2. CASE ~(c \in ParserWaiting \ {r} /\ d \in ParserWaiting \ {r})
    BY <1>10, <1>13, <1>14, <2>2 DEF ParserWaiting
  <2> QED BY <2>1, <2>2
<1>16. LineOrder' = {p \in LineOrder : p[1] # r /\ p[2] # r}
  BY <1>15 DEF LineOrder, ParserBefore
<1> QED BY <1>8, <1>9, <1>11, <1>16 DEF ParserPool!Out, ParserWaiting

\* Giving a slot back is a Leave of the pool, of whoever had it.
LEMMA GivenBackLeaves ==
    ASSUME ParserIInv, NEW r \in Requests, SlotGivenBack(r)
    PROVE  ParserPool!Leave(r)
<1>1. line \in Seq(Requests) /\ Len(line) \in Nat
  BY LenProperties DEF ParserIInv, ParserTypeOK
<1>2. CASE line = <<>> /\ line' = <<>> /\ Holders' = Holders \ {r}
  <2>1. \A i \in 1..Len(line) : FALSE
    BY <1>2
  <2>2. \A i \in 1..Len(line') : FALSE
    BY <1>2
  <2>3. ParserWaiting = {} /\ ParserWaiting' = {} /\ LineOrder = {} /\ LineOrder' = {}
    BY <2>1, <2>2 DEF ParserWaiting, InLine, LineOrder
  <2> QED BY <1>2, <2>3 DEF ParserPool!Leave, ParserWaiting, SlotGivenBack
<1>3. CASE line # <<>> /\ line' = Tail(line) /\ Holders' = (Holders \ {r}) \cup {line[1]}
  <2>1. 1 \in 1..Len(line)
    BY <1>1, <1>3, EmptySeq
  <2>2. line' = Without(line, 1)
    <3>1. Without(line, 1) \in Seq(Requests) /\ Tail(line) \in Seq(Requests)
          /\ Len(Without(line, 1)) = Len(line) - 1 /\ Len(Tail(line)) = Len(line) - 1
          /\ \A j \in 1..(Len(line) - 1) : Without(line, 1)[j] = Tail(line)[j]
      BY <1>1, <1>3, <2>1, WithoutProperties, HeadTailProperties
    <3> QED BY <1>1, <1>3, <3>1, SeqEqual
  <2>3. PICK h : h = line[1]
    OBVIOUS
  <2>4. h \in ParserWaiting /\ ParserPool!Out(h)
    BY <2>1, <2>2, <2>3, EntryLeaves
  <2>5. ParserPool!First(h)
    <3> SUFFICES ASSUME NEW d, <<d, h>> \in LineOrder PROVE FALSE
      BY <2>4 DEF ParserPool!First, ParserWaiting
    <3>1. PICK i, j \in 1..Len(line) : i < j /\ line[j] = h
      BY DEF LineOrder
    <3>2. j = 1
      BY <2>1, <2>3, <3>1 DEF ParserIInv, LineSound
    <3> QED BY <3>1, <3>2
  <2>6. h \in Requests
    BY <2>4 DEF ParserWaiting
  <2> QED BY <1>3, <2>3, <2>4, <2>5, <2>6 DEF ParserPool!Leave, SlotGivenBack
<1> QED BY <1>2, <1>3 DEF SlotGivenBack

\* There are no more requests in line than futures.
LEMMA ParserWaitingBounded ==
    ASSUME ParserIInv
    PROVE  Cardinality(ParserWaiting) \in Nat /\ Cardinality(ParserWaiting) <= Len(line)
<1> DEFINE place == [r \in ParserWaiting |-> CHOOSE i \in 1..Len(line) : line[i] = r]
<1>1. Len(line) \in Nat
  BY LenProperties DEF ParserIInv, ParserTypeOK
<1>2. \A r \in ParserWaiting : place[r] \in 1..Len(line) /\ line[place[r]] = r
  BY DEF ParserWaiting, InLine
<1>3. place \in Injection(ParserWaiting, 1..Len(line))
  <2>1. place \in [ParserWaiting -> 1..Len(line)]
    BY <1>2
  <2> HIDE DEF place
  <2> QED BY <1>2, <2>1 DEF Injection, IsInjective
<1> HIDE DEF place
<1>4. IsFiniteSet(1..Len(line)) /\ Cardinality(1..Len(line)) = Len(line)
  <2>1. /\ IsFiniteSet(1..Len(line))
        /\ Cardinality(1..Len(line)) = IF 1 > Len(line) THEN 0 ELSE Len(line) - 1 + 1
    <3>1. 1 \in Int /\ Len(line) \in Int
      BY <1>1
    <3> QED BY <3>1, FS_Interval, Zenon
  <2> QED BY <1>1, <2>1
<1>5. IsFiniteSet(ParserWaiting) /\ Cardinality(ParserWaiting) <= Len(line)
  BY <1>3, <1>4, FS_Injection
<1> QED BY <1>5, FS_CardinalityType

LEMMA ParserAcquireSteps ==
    ASSUME ParserAssumption, ParserIInv, ParserWorkConserving, NEW r \in Requests
    PROVE  /\ AcquireSlot(r) => ParserPool!Enter(r)
           /\ AcquireWait(r) => ParserPool!Join(r)
<1>1. /\ line \in Seq(Requests) /\ Len(line) \in Nat
      /\ busy = Cardinality(Holders) /\ busy \in 0..Capacity /\ Capacity \in Nat
  BY LenProperties DEF ParserIInv, ParserTypeOK, ParserSlotAccounting, ParserAssumption
<1>2. ASSUME AcquireSlot(r) PROVE ParserPool!Enter(r)
  <2>1. r \notin Holders /\ Holders' = Holders \cup {r}
    BY <1>2, AcquireIInv
  <2>2. busy < Capacity /\ line' = line
    BY <1>2 DEF AcquireSlot
  <2>3. line = <<>>
    BY <1>1, <2>2 DEF ParserWorkConserving
  <2>4. \A i \in 1..Len(line) : FALSE
    BY <2>3
  <2>5. ParserWaiting = {} /\ ParserWaiting' = {} /\ LineOrder = {} /\ LineOrder' = {}
    BY <2>2, <2>4 DEF ParserWaiting, InLine, LineOrder
  <2> QED BY <1>1, <2>1, <2>2, <2>5, ParserPoolCardinality DEF ParserPool!Enter, ParserWaiting
<1>3. ASSUME AcquireWait(r) PROVE ParserPool!Join(r)
  <2>1. r \notin Holders /\ Holders' = Holders
    BY <1>3, AcquireIInv
  <2>2. line' = Append(line, r) /\ busy >= Capacity /\ Len(line) < MaxWaiters /\ at[r] = "idle"
    BY <1>3 DEF AcquireWait
  <2>3. /\ Len(line') = Len(line) + 1 /\ line'[Len(line) + 1] = r
        /\ \A i \in 1..Len(line) : line'[i] = line[i]
    BY <1>1, <2>2, AppendProperties
  <2>4. \A i \in 1..Len(line') : i \in 1..Len(line) \/ i = Len(line) + 1
    BY <1>1, <2>3
  <2>5. \A i \in 1..Len(line) : i \in 1..Len(line') /\ i < Len(line) + 1 /\ line[i] # r
    BY <1>1, <2>2, <2>3 DEF ParserIInv, LineSound
  <2>6. Len(line) + 1 \in 1..Len(line')
    BY <1>1, <2>3
  <2>7. ~InLine(r)
    BY <2>5 DEF InLine
  <2>8. \A q \in Requests : InLine(q)' <=> InLine(q) \/ q = r
    BY <2>3, <2>4, <2>5, <2>6 DEF InLine
  <2>9. \A c, d \in Requests :
           ParserBefore(c, d)' <=> ParserBefore(c, d) \/ (InLine(c) /\ d = r)
    <3> SUFFICES ASSUME NEW c \in Requests, NEW d \in Requests
                 PROVE  ParserBefore(c, d)' <=> ParserBefore(c, d) \/ (InLine(c) /\ d = r)
      OBVIOUS
    <3>1. ASSUME NEW i \in 1..Len(line'), NEW j \in 1..Len(line'),
                 i < j, line'[i] = c, line'[j] = d
          PROVE  ParserBefore(c, d) \/ (InLine(c) /\ d = r)
      <4>1. i \in 1..Len(line) /\ line[i] = c
        BY <1>1, <2>3, <2>4, <3>1
      <4>2. CASE j \in 1..Len(line)
        <5>1. line[j] = d
          BY <2>3, <3>1, <4>2
        <5> QED BY <3>1, <4>1, <4>2, <5>1 DEF ParserBefore
      <4>3. CASE j = Len(line) + 1
        BY <2>3, <3>1, <4>1, <4>3 DEF InLine
      <4> QED BY <2>4, <4>2, <4>3
    <3>2. ASSUME ParserBefore(c, d) PROVE ParserBefore(c, d)'
      BY <2>3, <2>5, <3>2 DEF ParserBefore
    <3>3. ASSUME InLine(c), d = r PROVE ParserBefore(c, d)'
      <4>1. PICK i \in 1..Len(line) : line[i] = c
        BY <3>3 DEF InLine
      <4> QED BY <2>3, <2>5, <2>6, <3>3, <4>1 DEF ParserBefore
    <3>4. ParserBefore(c, d)' => ParserBefore(c, d) \/ (InLine(c) /\ d = r)
      BY <3>1 DEF ParserBefore
    <3> QED BY <3>2, <3>3, <3>4
  <2>10. LineOrder' = LineOrder \cup (ParserWaiting \X {r})
    <3>1. \A p \in Requests \X Requests :
             /\ p \in LineOrder <=> ParserBefore(p[1], p[2])
             /\ p \in LineOrder' <=> ParserBefore(p[1], p[2])'
             /\ p \in ParserWaiting \X {r} <=> InLine(p[1]) /\ p[2] = r
      <4>1. \A p \in Requests \X Requests : p \in ParserWaiting \X {r} <=> InLine(p[1]) /\ p[2] = r
        BY DEF ParserWaiting
      <4> QED BY <4>1 DEF LineOrder, ParserBefore
    <3>2. \A p \in Requests \X Requests :
             ParserBefore(p[1], p[2])' <=> ParserBefore(p[1], p[2]) \/ (InLine(p[1]) /\ p[2] = r)
      <4>1. \A p \in Requests \X Requests : p[1] \in Requests /\ p[2] \in Requests
        OBVIOUS
      <4> QED BY <2>9, <4>1
    <3>3. LineOrder \subseteq Requests \X Requests /\ LineOrder' \subseteq Requests \X Requests
      BY DEF LineOrder
    <3>4. ParserWaiting \X {r} \subseteq Requests \X Requests
      BY DEF ParserWaiting
    <3>5. \A p \in Requests \X Requests :
             p \in LineOrder' <=> p \in LineOrder \/ p \in ParserWaiting \X {r}
      BY <3>1, <3>2
    <3> QED BY <3>3, <3>4, <3>5
  <2>11. ParserWaiting' = ParserWaiting \cup {r}
    BY <2>8 DEF ParserWaiting
  <2>12. Cardinality(ParserWaiting) < MaxWaiters
    BY <1>1, <2>2, ParserWaitingBounded DEF ParserAssumption
  <2>13. r \notin ParserWaiting /\ Cardinality(Holders) = Capacity
    BY <1>1, <2>2, <2>7 DEF ParserWaiting
  <2> QED BY <2>1, <2>10, <2>11, <2>12, <2>13, ParserPoolCardinality
          DEF ParserPool!Join, ParserWaiting
<1> QED BY <1>2, <1>3

LEMMA QuietPool ==
    ASSUME Holders' = Holders, line' = line
    PROVE  UNCHANGED ParserPool!vars
BY DEF ParserPool!vars, InLine, LineOrder

LEMMA StepPool ==
    ASSUME ParserAssumption, ParserIInv, ParserWorkConserving, [ParserNext]_parserVars
    PROVE  [ParserPool!Next]_ParserPool!vars
<1>1. CASE UNCHANGED parserVars
  <2>1. Holders' = Holders /\ line' = line
    BY <1>1 DEF parserVars, Holders, InLine
  <2> QED BY <2>1, QuietPool
<1>2. ASSUME NEW r \in Requests,
             \/ AcquireSlot(r) \/ AcquireWait(r)
             \/ InterruptWait(r) \/ CancelShielded(r)
             \/ ChildExits(r) \/ WorkEnds(r)
             \/ Served(r)
      PROVE  \/ ParserPool!Next \/ UNCHANGED ParserPool!vars
  <2>1. CASE AcquireSlot(r) \/ AcquireWait(r)
    BY <2>1, ParserAcquireSteps DEF ParserPool!Next
  <2>2. CASE TurnedAway(r)
    <3>1. CASE Leave(r) /\ Holders' = Holders
      <4>1. PICK i \in 1..Len(line) : line[i] = r /\ line' = Without(line, i)
        BY <3>1 DEF Leave, Without
      <4>2. r \in ParserWaiting /\ ParserPool!Out(r)
        BY <4>1, EntryLeaves
      <4>3. ParserPool!Withdraw(r)
        BY <3>1, <4>2 DEF ParserPool!Withdraw, ParserWaiting
      <4> QED BY <4>3 DEF ParserPool!Next
    <3>2. CASE SlotGivenBack(r)
      BY <3>2, GivenBackLeaves DEF ParserPool!Next
    <3> QED BY <2>2, <3>1, <3>2, TurnedAwayIInv
  <2>3. CASE Finish(r) \/ ThreadEnds(r)
    BY <2>3, EndsIInv, GivenBackLeaves DEF ParserPool!Next
  <2>4. CASE \/ InterruptWait(r) \/ CancelShielded(r) \/ ChildExits(r) \/ WorkEnds(r)
             \/ Admitted(r) \/ SpawnResolves(r) \/ Started(r) \/ InterruptWork(r)
             \/ Reap(r) \/ ShieldEnds(r)
    BY <2>4, QuietIInv, QuietPool
  <2> QED BY <1>2, <2>1, <2>2, <2>3, <2>4 DEF Served
<1> QED BY <1>1, <1>2 DEF ParserNext

LEMMA ParserInitPool == ParserInit => ParserPool!Init
<1> SUFFICES ASSUME ParserInit PROVE ParserPool!Init
  OBVIOUS
<1>1. \A i \in 1..Len(line) : FALSE
  BY DEF ParserInit
<1>2. Holders = {} /\ ParserWaiting = {} /\ LineOrder = {}
  BY <1>1 DEF ParserInit, Holders, InLine, ParserWaiting, LineOrder
<1> QED BY <1>2 DEF ParserPool!Init, ParserWaiting

----------------------------------------------------------------------------
\* A parser process or validation thread is alive only while the slot of its
\* request is held, so there are never more of them than slots: wherever a
\* deadline or a cancellation lands in acquire, run_bounded_worker and
\* validate_upload_async.
THEOREM ParserHelpersHoldSlots ==
    ASSUME ParserAssumption
    PROVE  ParserSpec => []HelpersHoldSlots
<1>1. ParserInit => ParserIInv
  BY ParserInitIInv
<1>2. ParserIInv /\ [ParserNext]_parserVars => ParserIInv'
  BY StepIInv
<1>3. ParserIInv => HelpersHoldSlots
  BY IInvHelpers
<1> QED BY <1>1, <1>2, <1>3, PTL DEF ParserSpec

\* The parser's admission gate is a FIFO pool of slots to its callers: whatever
\* a deadline, a cancellation or a thread that outlives its caller does in
\* acquire, run_bounded_worker and validate_upload_async, slots pass in the
\* order of arrival and nobody waits beside a free one.
THEOREM ParserImplementsPool ==
    ASSUME ParserAssumption
    PROVE  ParserSpec => ParserPool!SafeSpec
<1>1. ParserInit => ParserIInv
  BY ParserInitIInv
<1>2. ParserInit => ParserWorkConserving
  BY DEF ParserInit, ParserWorkConserving
<1>3. ParserIInv /\ [ParserNext]_parserVars => ParserIInv'
  BY StepIInv
<1>4. ParserIInv /\ ParserWorkConserving /\ [ParserNext]_parserVars => ParserWorkConserving'
  BY StepWorkConserving
<1>5. ParserIInv /\ ParserWorkConserving /\ [ParserNext]_parserVars =>
        [ParserPool!Next]_ParserPool!vars
  BY StepPool
<1> QED BY <1>1, <1>2, <1>3, <1>4, <1>5, ParserInitPool, PTL DEF ParserSpec, ParserPool!SafeSpec
===============================================================================
