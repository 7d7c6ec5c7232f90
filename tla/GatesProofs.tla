------------------------ MODULE GatesProofs ------------------------
(***************************************************************************)
(* Proofs about ConcurrencyGate, for any finite set of callers, any        *)
(* default and any limits it is set to.                                    *)
(***************************************************************************)
EXTENDS ImageRenders, SwarmSlots, FiniteSetTheorems, TLAPS

\* What the state before a drain and the state after it have in common: the
\* queue Q holds the tasks waiting in ph, each once, and n is the number of
\* tasks holding a slot in ph.
Held(ph) == {t \in Tasks : ph[t] \in {"released", "working"}}

Consistent(Q, ph, n) ==
  /\ Q \in Seq(Tasks)
  /\ ph \in [Tasks -> Phase]
  /\ n = Cardinality(Held(ph))
  /\ \A t \in Tasks : ph[t] = "waiting" <=> \E i \in DOMAIN Q : Q[i] = t
  /\ \A i, j \in DOMAIN Q : Q[i] = Q[j] => i = j

\* The inductive invariant: the four invariants the model checker checks.
GateInv == TypeOK /\ SlotsAccounted /\ QueueIsWaiting /\ NoIdleSlot

\* The first k elements of a sequence without repetitions are k elements.
LEMMA FirstElements ==
  ASSUME NEW Q \in Seq(Tasks), NEW k \in 0 .. Len(Q),
         \A i, j \in DOMAIN Q : Q[i] = Q[j] => i = j
  PROVE  Cardinality({Q[i] : i \in 1 .. k}) = k
<1> DEFINE T == {Q[i] : i \in 1 .. k}
           f == [i \in 1 .. k |-> Q[i]]
<1>1. f \in Bijection(1 .. k, T)
  <2>1. f \in [1 .. k -> T]  OBVIOUS
  <2>2. \A a, b \in 1 .. k : f[a] = f[b] => a = b  OBVIOUS
  <2>3. \A t \in T : \E i \in 1 .. k : f[i] = t  OBVIOUS
  <2>4. DOMAIN f = 1 .. k  OBVIOUS
  <2> HIDE DEF f, T
  <2> QED  BY <2>1, <2>2, <2>3, <2>4 DEF Bijection, Injection, Surjection, IsInjective
<1>2. ExistsBijection(1 .. k, T)  BY <1>1 DEF ExistsBijection
<1> HIDE DEF T
<1>3. Cardinality(T) = k  BY <1>2, FS_CountingElements
<1> QED  BY <1>3 DEF T

\* Waiters released from the front of the queue: the rest of it still holds the
\* tasks that wait, and exactly k more tasks hold a slot.
LEMMA Releasing ==
  ASSUME NEW Q, NEW ph, NEW n, Consistent(Q, ph, n), NEW k \in 0 .. Len(Q)
  PROVE  LET first == {Q[i] : i \in 1 .. k}
         IN  Consistent(SubSeq(Q, k + 1, Len(Q)),
                        [t \in Tasks |-> IF t \in first THEN "released" ELSE ph[t]], n + k)
<1> DEFINE first == {Q[i] : i \in 1 .. k}
           rest == SubSeq(Q, k + 1, Len(Q))
           after == [t \in Tasks |-> IF t \in first THEN "released" ELSE ph[t]]
<1> USE DEF Consistent
<1>0. Q \in Seq(Tasks) /\ Len(Q) \in Nat  OBVIOUS
<1>1. /\ rest \in Seq(Tasks) /\ Len(rest) = Len(Q) - k
      /\ \A i \in 1 .. Len(Q) - k : rest[i] = Q[i + k]
  BY <1>0
<1>2. first \subseteq Tasks  BY <1>0
<1>3. after \in [Tasks -> Phase]  BY DEF Phase
<1>4. ASSUME NEW t \in Tasks
      PROVE  after[t] = "waiting" <=> \E i \in DOMAIN rest : rest[i] = t
  <2>1. CASE t \in first
    <3>1. PICK a \in 1 .. k : Q[a] = t  BY <2>1
    <3>2. ASSUME NEW i \in DOMAIN rest, rest[i] = t PROVE FALSE
      <4>1. i \in 1 .. Len(Q) - k /\ Q[i + k] = t  BY <3>2, <1>1
      <4>2. i + k \in DOMAIN Q /\ a \in DOMAIN Q /\ i + k # a  BY <4>1, <1>0
      <4> QED  BY <3>1, <4>1, <4>2
    <3> QED  BY <2>1, <3>2
  <2>2. CASE t \notin first
    <3>1. after[t] = ph[t]  BY <2>2
    <3>2. ASSUME NEW i \in DOMAIN Q, Q[i] = t PROVE \E j \in DOMAIN rest : rest[j] = t
      <4>1. i \in 1 .. Len(Q) /\ i \notin 1 .. k  BY <3>2, <2>2, <1>0
      <4>2. i - k \in 1 .. Len(Q) - k  BY <4>1
      <4> QED  BY <4>2, <1>1, <3>2
    <3>3. ASSUME NEW j \in DOMAIN rest, rest[j] = t PROVE \E i \in DOMAIN Q : Q[i] = t
      BY <3>3, <1>1, <1>0
    <3> QED  BY <3>1, <3>2, <3>3
  <2> QED  BY <2>1, <2>2
<1>5. \A i, j \in DOMAIN rest : rest[i] = rest[j] => i = j
  <2> SUFFICES ASSUME NEW i \in DOMAIN rest, NEW j \in DOMAIN rest, rest[i] = rest[j]
               PROVE  i = j
    OBVIOUS
  <2>1. i \in 1 .. Len(Q) - k /\ j \in 1 .. Len(Q) - k /\ Q[i + k] = Q[j + k]  BY <1>1
  <2>2. i + k \in DOMAIN Q /\ j + k \in DOMAIN Q  BY <2>1, <1>0
  <2>3. i + k = j + k  BY <2>1, <2>2
  <2> QED  BY <2>1, <2>3
<1>6. n + k = Cardinality(Held(after))
  <2>1. IsFiniteSet(Held(ph)) /\ IsFiniteSet(first)
    BY <1>2, FS_Subset, GateAssumption DEF Held
  <2>2. Held(ph) \intersect first = {}
    <3>1. ASSUME NEW t \in first PROVE ph[t] = "waiting"
      BY <1>0, <1>2
    <3> QED  BY <3>1 DEF Held
  <2>3. Held(after) = Held(ph) \union first  BY <1>2 DEF Held
  <2>4. Cardinality(first) = k  BY FirstElements, <1>0
  <2>5. Cardinality({}) = 0  BY FS_EmptySet
  <2> HIDE DEF first, after
  <2>6. Cardinality(Held(ph) \union first) =
          Cardinality(Held(ph)) + Cardinality(first) - Cardinality(Held(ph) \intersect first)
    BY <2>1, FS_Union
  <2>7. Cardinality(Held(ph)) \in Nat  BY <2>1, FS_CardinalityType
  <2>8. n = Cardinality(Held(ph))  BY DEF Consistent
  <2>9. Cardinality(Held(ph) \intersect first) = 0  BY <2>2, <2>5
  <2>10. Cardinality(Held(after)) = Cardinality(Held(ph)) + k  BY <2>3, <2>4, <2>6, <2>7, <2>9
  <2> QED  BY <2>8, <2>10
<1> QED  BY <1>1, <1>3, <1>4, <1>5, <1>6

\* A drain that starts from a consistent state ends in one, and leaves nobody
\* waiting beside a free slot.
LEMMA Draining ==
  ASSUME NEW Q, NEW ph, NEW n, Consistent(Q, ph, n), NEW lim \in Nat \ {0}
  PROVE  LET k == Released(Len(Q), lim - n)
             rest == SubSeq(Q, k + 1, Len(Q))
             after == [t \in Tasks |->
                         IF t \in {Q[i] : i \in 1 .. k} THEN "released" ELSE ph[t]]
         IN  /\ Consistent(rest, after, n + k)
             /\ n + k \in Nat
             /\ rest # <<>> => n + k >= lim
<1> DEFINE k == Released(Len(Q), lim - n)
           rest == SubSeq(Q, k + 1, Len(Q))
           after == [t \in Tasks |->
                       IF t \in {Q[i] : i \in 1 .. k} THEN "released" ELSE ph[t]]
           m == n + k
<1>1. n \in Nat
  <2>1. IsFiniteSet(Held(ph))  BY FS_Subset, GateAssumption DEF Held
  <2> QED  BY <2>1, FS_CardinalityType DEF Consistent
<1>2. Q \in Seq(Tasks) /\ Len(Q) \in Nat  BY DEF Consistent
<1>3. k \in 0 .. Len(Q)  BY <1>1, <1>2 DEF Released, Smaller
<1>4. Consistent(rest, after, m)
  <2> HIDE DEF k
  <2> QED  BY <1>3, Releasing DEF k
<1>5. m \in Nat  BY <1>1, <1>3
<1>6. rest # <<>> => m >= lim
  <2> SUFFICES ASSUME m < lim PROVE rest = <<>>  BY <1>1, <1>3
  <2>1. k = Len(Q)  BY <1>1, <1>2 DEF Released, Smaller
  <2> QED  BY <2>1, <1>2
<1> QED  BY <1>4, <1>5, <1>6

LEMMA GateInvMeaning ==
  GateInv <=> /\ limit \in Nat \ {0}
              /\ inFlight \in Nat
              /\ Consistent(queue, phase, inFlight)
              /\ queue # <<>> => inFlight >= limit
BY DEF GateInv, TypeOK, SlotsAccounted, QueueIsWaiting, NoIdleSlot, Consistent, Held, Holders

\* A task that gives its slot back leaves a consistent state with one holder less.
LEMMA Leaving ==
  ASSUME GateInv, NEW t \in Tasks, phase[t] = "working"
  PROVE  /\ Consistent(queue, [phase EXCEPT ![t] = "out"], inFlight - 1)
         /\ inFlight - 1 \in Nat
<1> DEFINE ph == [phase EXCEPT ![t] = "out"]
<1>1. Held(ph) = Held(phase) \ {t}  BY DEF Held, GateInv, TypeOK
<1>2. IsFiniteSet(Held(phase)) /\ t \in Held(phase)
  BY FS_Subset, GateAssumption DEF Held
<1>3. Cardinality(Held(ph)) = Cardinality(Held(phase)) - 1
  BY <1>1, <1>2, FS_RemoveElement
<1>4. inFlight = Cardinality(Held(phase))  BY DEF GateInv, SlotsAccounted, Held, Holders
<1>5. Cardinality(Held(ph)) \in Nat
  <2>1. IsFiniteSet(Held(ph))  BY <1>1, <1>2, FS_RemoveElement
  <2> QED  BY <2>1, FS_CardinalityType
<1>6. ph \in [Tasks -> Phase]  BY DEF GateInv, TypeOK, Phase
<1>7. inFlight - 1 = Cardinality(Held(ph))  BY <1>3, <1>4, <1>5 DEF GateInv, TypeOK
<1>8. \A u \in Tasks : ph[u] = "waiting" <=> phase[u] = "waiting"
  BY DEF GateInv, TypeOK
<1>9. queue \in Seq(Tasks) /\ QueueIsWaiting  BY DEF GateInv, TypeOK
<1> HIDE DEF ph
<1>10. Consistent(queue, ph, inFlight - 1)
  BY <1>6, <1>7, <1>8, <1>9 DEF Consistent, QueueIsWaiting
<1> QED  BY <1>10, <1>5, <1>7 DEF ph

\* AtLeastOne makes a limit of any integer.
LEMMA LimitType ==
  ASSUME NEW n \in Int
  PROVE  AtLeastOne(n) \in Nat \ {0}
BY DEF AtLeastOne

LEMMA InitInv == Init => GateInv
<1> SUFFICES ASSUME Init PROVE GateInv  OBVIOUS
<1>1. Holders = {}  BY DEF Init, Holders
<1>2. Cardinality(Holders) = 0  BY <1>1, FS_EmptySet
<1> QED  BY <1>2, LimitType, GateAssumption
         DEF Init, GateInv, TypeOK, SlotsAccounted, QueueIsWaiting, NoIdleSlot, Phase

\* Every step of the gate keeps the invariant.
LEMMA StepInv ==
  ASSUME GateInv, [Next]_vars
  PROVE  GateInv'
<1>1. ASSUME NEW t \in Tasks, Enter(t) PROVE GateInv'
  <2>1. CASE inFlight < limit
    <3>1. /\ inFlight' = inFlight + 1 /\ phase' = [phase EXCEPT ![t] = "working"]
          /\ UNCHANGED <<queue, limit>> /\ phase[t] = "out"
      BY <1>1, <2>1 DEF Enter
    <3>2. Holders' = Holders \union {t} /\ t \notin Holders
      BY <3>1 DEF Holders, GateInv, TypeOK
    <3>3. IsFiniteSet(Holders)  BY FS_Subset, GateAssumption DEF Holders
    <3>4. Cardinality(Holders') = Cardinality(Holders) + 1  BY <3>2, <3>3, FS_AddElement
    <3>5. queue = <<>>  BY <2>1 DEF GateInv, NoIdleSlot, TypeOK
    <3>6. phase' \in [Tasks -> Phase]  BY <3>1 DEF GateInv, TypeOK, Phase
    <3>7. \A u \in Tasks : phase'[u] # "waiting"
      BY <3>1, <3>5 DEF GateInv, TypeOK, QueueIsWaiting
    <3> QED  BY <3>1, <3>4, <3>5, <3>6, <3>7
             DEF GateInv, TypeOK, SlotsAccounted, QueueIsWaiting, NoIdleSlot
  <2>2. CASE ~(inFlight < limit)
    <3>1. /\ queue' = Append(queue, t) /\ phase' = [phase EXCEPT ![t] = "waiting"]
          /\ UNCHANGED <<inFlight, limit>> /\ phase[t] = "out"
      BY <1>1, <2>2 DEF Enter
    <3>2. queue \in Seq(Tasks) /\ Len(queue) \in Nat  BY DEF GateInv, TypeOK
    <3>3. /\ queue' \in Seq(Tasks) /\ Len(queue') = Len(queue) + 1
          /\ queue'[Len(queue) + 1] = t
          /\ \A i \in 1 .. Len(queue) : queue'[i] = queue[i]
      BY <3>1, <3>2
    <3>4. Holders' = Holders  BY <3>1 DEF Holders, GateInv, TypeOK
    <3>5. phase' \in [Tasks -> Phase]  BY <3>1 DEF GateInv, TypeOK, Phase
    <3>6. \A i \in 1 .. Len(queue) : queue[i] # t
      BY <3>1, <3>2 DEF GateInv, QueueIsWaiting
    <3>7. QueueIsWaiting'
      <4>1. \A u \in Tasks : phase'[u] = "waiting" <=> phase[u] = "waiting" \/ u = t
        BY <3>1 DEF GateInv, TypeOK
      <4>2. DOMAIN queue = 1 .. Len(queue) /\ DOMAIN queue' = 1 .. Len(queue) + 1
        BY <3>2, <3>3
      <4>3. \A u \in Tasks : phase[u] = "waiting" <=> \E i \in 1 .. Len(queue) : queue[i] = u
        BY <4>2 DEF GateInv, QueueIsWaiting
      <4>4. \A u \in Tasks : phase'[u] = "waiting" <=>
                               \E i \in 1 .. Len(queue) + 1 : queue'[i] = u
        BY <4>1, <4>3, <3>2, <3>3
      <4>5. \A i, j \in 1 .. Len(queue) + 1 : queue'[i] = queue'[j] => i = j
        <5>1. \A i, j \in 1 .. Len(queue) : queue[i] = queue[j] => i = j
          BY <4>2 DEF GateInv, QueueIsWaiting
        <5> QED  BY <5>1, <3>2, <3>3, <3>6
      <4> QED  BY <4>2, <4>4, <4>5 DEF QueueIsWaiting
    <3> QED  BY <2>2, <3>1, <3>3, <3>4, <3>5, <3>7
             DEF GateInv, TypeOK, SlotsAccounted, NoIdleSlot
  <2> QED  BY <2>1, <2>2
<1>2. ASSUME NEW t \in Tasks, Continue(t) PROVE GateInv'
  <2>1. Holders' = Holders  BY <1>2 DEF Continue, Holders, GateInv, TypeOK
  <2>2. \A u \in Tasks : phase'[u] = "waiting" <=> phase[u] = "waiting"
    BY <1>2 DEF Continue, GateInv, TypeOK
  <2>3. phase' \in [Tasks -> Phase]  BY <1>2 DEF Continue, GateInv, TypeOK, Phase
  <2> QED  BY <1>2, <2>1, <2>2, <2>3
           DEF Continue, GateInv, TypeOK, SlotsAccounted, QueueIsWaiting, NoIdleSlot
<1>3. ASSUME NEW t \in Tasks, Finish(t) PROVE GateInv'
  <2> DEFINE ph == [phase EXCEPT ![t] = "out"]
  <2>1. Consistent(queue, ph, inFlight - 1)  BY <1>3, Leaving DEF Finish
  <2>2. limit \in Nat \ {0}  BY DEF GateInv, TypeOK
  <2>3. /\ inFlight' = inFlight - 1 + Released(Len(queue), limit - (inFlight - 1))
        /\ queue' = SubSeq(queue, Released(Len(queue), limit - (inFlight - 1)) + 1, Len(queue))
        /\ phase' = [u \in Tasks |->
             IF u \in {queue[i] : i \in 1 .. Released(Len(queue), limit - (inFlight - 1))}
             THEN "released" ELSE ph[u]]
        /\ limit' = limit
    BY <1>3 DEF Finish, Drain
  <2> HIDE DEF ph
  <2>4. /\ Consistent(queue', phase', inFlight')
        /\ inFlight' \in Nat
        /\ queue' # <<>> => inFlight' >= limit
    BY <2>1, <2>2, <2>3, Draining
  <2> QED  BY <2>2, <2>3, <2>4
           DEF GateInv, TypeOK, SlotsAccounted, QueueIsWaiting, NoIdleSlot, Consistent, Held, Holders
<1>4. ASSUME NEW n \in Asked, SetLimit(n) PROVE GateInv'
  <2> DEFINE lim == AtLeastOne(n)
  <2>1. Consistent(queue, phase, inFlight)  BY GateInvMeaning
  <2>2. lim \in Nat \ {0}  BY LimitType, GateAssumption
  <2>3. /\ inFlight' = inFlight + Released(Len(queue), lim - inFlight)
        /\ queue' = SubSeq(queue, Released(Len(queue), lim - inFlight) + 1, Len(queue))
        /\ phase' = [u \in Tasks |->
             IF u \in {queue[i] : i \in 1 .. Released(Len(queue), lim - inFlight)}
             THEN "released" ELSE phase[u]]
        /\ limit' = lim
    BY <1>4 DEF SetLimit, Drain
  <2> HIDE DEF lim
  <2>4. /\ Consistent(queue', phase', inFlight')
        /\ inFlight' \in Nat
        /\ queue' # <<>> => inFlight' >= lim
    BY <2>1, <2>2, <2>3, Draining
  <2> QED  BY <2>2, <2>3, <2>4
           DEF GateInv, TypeOK, SlotsAccounted, QueueIsWaiting, NoIdleSlot, Consistent, Held, Holders
<1>5. CASE UNCHANGED vars
  BY <1>5 DEF vars, GateInv, TypeOK, SlotsAccounted, QueueIsWaiting, NoIdleSlot, Holders
<1> QED  BY <1>1, <1>2, <1>3, <1>4, <1>5 DEF Next

-----------------------------------------------------------------------------

\* No slot leaks, no wake-up is lost, and nobody waits beside a free slot, for
\* every number of callers and every sequence of limits.
THEOREM GateInvariant == Spec => [](TypeOK /\ SlotsAccounted /\ QueueIsWaiting /\ NoIdleSlot)
<1>1. Spec => []GateInv  BY InitInv, StepInv, PTL DEF Spec
<1> QED  BY <1>1, PTL DEF GateInv

\* The count of calls in flight is the number of callers that hold a slot: no
\* hand-over leaks a slot or makes one.
THEOREM SlotsAlwaysAccounted == Spec => []SlotsAccounted
<1>1. Spec => []GateInv  BY InitInv, StepInv, PTL DEF Spec
<1> QED  BY <1>1, PTL DEF GateInv

\* A slot is given only below the ceiling.
THEOREM CeilingKept == Spec => GrantsUnderCeiling
<1>1. Spec => []GateInv  BY InitInv, StepInv, PTL DEF Spec
<1>2. ASSUME GateInv, [Next]_vars PROVE inFlight' > inFlight => inFlight' <= limit'
  <2>1. ASSUME NEW t \in Tasks, Enter(t) PROVE inFlight' > inFlight => inFlight' <= limit'
    BY <1>2, <2>1 DEF Enter, GateInv, TypeOK
  <2>2. ASSUME NEW t \in Tasks, Continue(t) PROVE inFlight' > inFlight => inFlight' <= limit'
    BY <1>2, <2>2 DEF Continue, GateInv, TypeOK
  <2>3. ASSUME NEW t \in Tasks, Finish(t) PROVE inFlight' > inFlight => inFlight' <= limit'
    <3>1. inFlight \in Nat /\ limit \in Nat /\ Len(queue) \in Nat
      BY <1>2 DEF GateInv, TypeOK
    <3>2. inFlight' = inFlight - 1 + Released(Len(queue), limit - (inFlight - 1)) /\ limit' = limit
      BY <2>3 DEF Finish, Drain
    <3> QED  BY <3>1, <3>2 DEF Released, Smaller
  <2>4. ASSUME NEW n \in Asked, SetLimit(n) PROVE inFlight' > inFlight => inFlight' <= limit'
    <3>1. inFlight \in Nat /\ AtLeastOne(n) \in Nat /\ Len(queue) \in Nat
      BY <1>2, LimitType, GateAssumption DEF GateInv, TypeOK
    <3>2. /\ inFlight' = inFlight + Released(Len(queue), AtLeastOne(n) - inFlight)
          /\ limit' = AtLeastOne(n)
      BY <2>4 DEF SetLimit, Drain
    <3> QED  BY <3>1, <3>2 DEF Released, Smaller
  <2>5. CASE UNCHANGED vars  BY <1>2, <2>5 DEF vars, GateInv, TypeOK
  <2> QED  BY <1>2, <2>1, <2>2, <2>3, <2>4, <2>5 DEF Next
<1> QED  BY <1>1, <1>2, PTL DEF Spec, GrantsUnderCeiling

\* What a drain does to the phases: the first k of the queue are released, and
\* nobody starts working by it.
LEMMA InOrder ==
  ASSUME GateInv, NEW lim \in Int, NEW used \in Int, NEW ph \in [Tasks -> Phase],
         \A u \in Tasks : ph[u] = phase[u] \/ ph[u] = "out",
         Drain(lim, used, ph), NEW t \in Tasks
  PROVE  /\ phase[t] # "working" => phase'[t] # "working"
         /\ phase[t] = "waiting" /\ phase'[t] = "released" =>
              \A i, j \in DOMAIN queue : i < j /\ queue[j] = t => phase'[queue[i]] = "released"
<1> DEFINE k == Released(Len(queue), lim - used)
           first == {queue[i] : i \in 1 .. k}
<1>1. queue \in Seq(Tasks) /\ Len(queue) \in Nat  BY DEF GateInv, TypeOK
<1>2. phase' = [u \in Tasks |-> IF u \in first THEN "released" ELSE ph[u]]  BY DEF Drain
<1>3. k \in Int  BY <1>1 DEF Released, Smaller
<1>4. phase[t] # "working" => phase'[t] # "working"  BY <1>2
<1>5. ASSUME phase[t] = "waiting", phase'[t] = "released",
             NEW i \in DOMAIN queue, NEW j \in DOMAIN queue, i < j, queue[j] = t
      PROVE  phase'[queue[i]] = "released"
  <2>1. t \in first  BY <1>2, <1>5
  <2>2. PICK a \in 1 .. k : queue[a] = t  BY <2>1
  <2>3. k <= Len(queue)  BY <1>1 DEF Released, Smaller
  <2>4. a = j  BY <1>1, <1>3, <1>5, <2>2, <2>3 DEF GateInv, QueueIsWaiting
  <2>5. i \in 1 .. k  BY <1>1, <1>3, <1>5, <2>2, <2>4
  <2>6. queue[i] \in first /\ queue[i] \in Tasks  BY <1>1, <2>5
  <2> HIDE DEF first
  <2> QED  BY <1>2, <2>6
<1> QED  BY <1>4, <1>5

\* A newcomer never overtakes the queue, and waiters get slots in the order
\* they came.
THEOREM InArrivalOrder == Spec => FirstComeFirstServed
<1> DEFINE Overtakes(t) == phase[t] = "out" /\ phase'[t] = "working" /\ queue # <<>>
           Before(t) == \A i, j \in DOMAIN queue :
                          i < j /\ queue[j] = t => phase'[queue[i]] = "released"
           Fair(t) == /\ ~Overtakes(t)
                      /\ phase[t] = "waiting" /\ phase'[t] = "released" => Before(t)
<1>1. Spec => []GateInv  BY InitInv, StepInv, PTL DEF Spec
<1>2. ASSUME GateInv, [Next]_vars, NEW t \in Tasks PROVE Fair(t)
  <2>0. phase \in [Tasks -> Phase] /\ limit \in Int /\ inFlight \in Int
    BY <1>2 DEF GateInv, TypeOK
  <2>1. ASSUME NEW u \in Tasks, Enter(u) PROVE Fair(t)
    <3>1. CASE inFlight < limit
      <4>1. queue = <<>>  BY <1>2, <3>1 DEF GateInv, NoIdleSlot, TypeOK
      <4>2. phase' = [phase EXCEPT ![u] = "working"]  BY <2>1, <3>1 DEF Enter
      <4> QED  BY <4>1, <4>2, <2>0
    <3>2. CASE ~(inFlight < limit)
      <4>1. phase' = [phase EXCEPT ![u] = "waiting"]  BY <2>1, <3>2 DEF Enter
      <4> QED  BY <4>1, <2>0
    <3> QED  BY <3>1, <3>2
  <2>2. ASSUME NEW u \in Tasks, Continue(u) PROVE Fair(t)
    BY <2>0, <2>2 DEF Continue
  <2>3. ASSUME NEW u \in Tasks, Finish(u) PROVE Fair(t)
    <3>1. Drain(limit, inFlight - 1, [phase EXCEPT ![u] = "out"])  BY <2>3 DEF Finish
    <3>2. [phase EXCEPT ![u] = "out"] \in [Tasks -> Phase]  BY <2>0 DEF Phase
    <3>3. \A v \in Tasks : [phase EXCEPT ![u] = "out"][v] = phase[v]
                             \/ [phase EXCEPT ![u] = "out"][v] = "out"
      BY <2>0
    <3>4. inFlight - 1 \in Int  BY <2>0
    <3> QED  BY <1>2, <2>0, <3>1, <3>2, <3>3, <3>4, InOrder
  <2>4. ASSUME NEW n \in Asked, SetLimit(n) PROVE Fair(t)
    <3>1. Drain(AtLeastOne(n), inFlight, phase)  BY <2>4 DEF SetLimit
    <3>2. AtLeastOne(n) \in Int  BY LimitType, GateAssumption
    <3> QED  BY <1>2, <2>0, <3>1, <3>2, InOrder
  <2>5. CASE UNCHANGED vars  BY <2>5 DEF vars
  <2> QED  BY <1>2, <2>1, <2>2, <2>3, <2>4, <2>5 DEF Next
<1>3. GateInv /\ [Next]_vars =>
        [\A t \in Tasks :
           /\ phase[t] = "out" /\ phase'[t] = "working" => queue = <<>>
           /\ phase[t] = "waiting" /\ phase'[t] = "released" =>
                \A i, j \in DOMAIN queue : i < j /\ queue[j] = t => phase'[queue[i]] = "released"]_vars
  BY <1>2
<1> QED  BY <1>1, <1>3, PTL DEF Spec, FirstComeFirstServed

-----------------------------------------------------------------------------
(* The renders of one device: what they do at the gate are steps of the    *)
(* gate, so that all of the above holds of them.                           *)

LEMMA RenderStepIsGateStep == [RNext]_allVars => [Next]_vars
<1> SUFFICES ASSUME [RNext]_allVars PROVE [Next]_vars
  OBVIOUS
<1>1. ASSUME NEW t \in Tasks, REnter(t) PROVE Next  BY <1>1 DEF REnter, Next
<1>2. ASSUME NEW t \in Tasks, RContinue(t) PROVE Next  BY <1>2 DEF RContinue, Next
<1>3. ASSUME NEW t \in Tasks, Succeed(t) \/ Fail(t) \/ TimeOut(t) PROVE Next
  BY <1>3 DEF Succeed, Fail, TimeOut, Ends, Next
<1>4. ASSUME NEW t \in Tasks, Waited(t) \/ EngineDone(t) PROVE UNCHANGED vars
  BY <1>4 DEF Waited, EngineDone
<1>5. ASSUME NEW n \in Asked, RSetLimit(n) PROVE Next  BY <1>5 DEF RSetLimit, Next
<1>6. CASE UNCHANGED allVars  BY <1>6 DEF allVars
<1> QED  BY <1>1, <1>2, <1>3, <1>4, <1>5, <1>6 DEF RNext

\* The calls that render keep the rules of the gate, in the state and in every
\* step: no slot leaks, nobody waits beside a free one or is passed.
THEOREM RendersKeepTheGate ==
  RSpec => Spec /\ [](SlotsAccounted /\ NoIdleSlot) /\ FirstComeFirstServed
<1>1. RInit => Init  BY DEF RInit
<1>2. RSpec => Spec  BY <1>1, RenderStepIsGateStep, PTL DEF RSpec, Spec
<1> QED  BY <1>2, GateInvariant, InArrivalOrder, PTL

\* While the device renders one picture at a time: at most one call holds a
\* slot; the engine works on nothing but the render the mark stands for; a
\* call that renders found the engine free; and one that waits, waits for all
\* the engine works on.
OneAtATime ==
  /\ limit = 1
  /\ inFlight <= 1
  /\ engine \subseteq {mark}
  /\ \A t \in Tasks :
       /\ step[t] = "render" => engine = {}
       /\ step[t] = "delay" => engine \subseteq {waits[t]}

RenderInv == GateInv /\ RTypeOK /\ (single => OneAtATime)

\* Only the call that continues starts to work by a step of the gate, and only
\* the one that finishes stops.
LEMMA EnterWorks ==
  ASSUME GateInv, NEW t \in Tasks, Enter(t)
  PROVE  /\ phase[t] = "out"
         /\ \A u \in Tasks : phase'[u] = "working" <=> phase[u] = "working" \/ (u = t /\ phase'[t] = "working")
BY DEF Enter, GateInv, TypeOK

LEMMA ContinueWorks ==
  ASSUME GateInv, NEW t \in Tasks, Continue(t)
  PROVE  /\ phase[t] = "released"
         /\ \A u \in Tasks : phase'[u] = "working" <=> phase[u] = "working" \/ u = t
BY DEF Continue, GateInv, TypeOK

LEMMA FinishWorks ==
  ASSUME GateInv, NEW t \in Tasks, Finish(t)
  PROVE  \A u \in Tasks : phase'[u] = "working" <=> phase[u] = "working" /\ u # t
<1> DEFINE ph == [phase EXCEPT ![t] = "out"]
           first == {queue[i] : i \in 1 .. Released(Len(queue), limit - (inFlight - 1))}
<1>1. /\ phase' = [u \in Tasks |-> IF u \in first THEN "released" ELSE ph[u]]
      /\ phase[t] = "working"
  BY DEF Finish, Drain
<1>2. ASSUME NEW u \in first PROVE u \in Tasks /\ phase[u] = "waiting"
  <2>1. queue \in Seq(Tasks) /\ Len(queue) \in Nat /\ limit \in Nat /\ inFlight \in Nat
    BY DEF GateInv, TypeOK
  <2>2. \A i \in 1 .. Released(Len(queue), limit - (inFlight - 1)) : i \in DOMAIN queue
    BY <2>1 DEF Released, Smaller
  <2>3. PICK i \in DOMAIN queue : u = queue[i]  BY <2>2
  <2> QED  BY <2>1, <2>3 DEF GateInv, QueueIsWaiting
<1> HIDE DEF first
<1> QED  BY <1>1, <1>2 DEF GateInv, TypeOK

LEMMA SetLimitWorks ==
  ASSUME GateInv, NEW n \in Asked, SetLimit(n)
  PROVE  \A u \in Tasks : phase'[u] = "working" <=> phase[u] = "working"
<1> DEFINE first == {queue[i] : i \in 1 .. Released(Len(queue), AtLeastOne(n) - inFlight)}
<1>1. phase' = [u \in Tasks |-> IF u \in first THEN "released" ELSE phase[u]]
  BY DEF SetLimit, Drain
<1>2. ASSUME NEW u \in first PROVE u \in Tasks /\ phase[u] = "waiting"
  <2>1. queue \in Seq(Tasks) /\ Len(queue) \in Nat /\ AtLeastOne(n) \in Nat /\ inFlight \in Nat
    BY LimitType, GateAssumption DEF GateInv, TypeOK
  <2>2. \A i \in 1 .. Released(Len(queue), AtLeastOne(n) - inFlight) : i \in DOMAIN queue
    BY <2>1 DEF Released, Smaller
  <2>3. PICK i \in DOMAIN queue : u = queue[i]  BY <2>2
  <2> QED  BY <2>1, <2>3 DEF GateInv, QueueIsWaiting
<1> HIDE DEF first
<1> QED  BY <1>1, <1>2 DEF GateInv, TypeOK

LEMMA RInitInv == RInit => RenderInv
<1> SUFFICES ASSUME RInit PROVE RenderInv
  OBVIOUS
<1>1. Init  BY DEF RInit
<1>2. GateInv  BY <1>1, InitInv
<1>3. RTypeOK  BY <1>1, <1>2 DEF RInit, Init, RTypeOK, GateInv
<1>4. single => limit = 1  BY Zenon DEF RInit
<1>5. inFlight = 0 /\ engine = {} /\ \A t \in Tasks : step[t] = "none"
  BY <1>1 DEF RInit, Init
<1>6. single => OneAtATime  BY <1>4, <1>5 DEF OneAtATime
<1> QED  BY <1>2, <1>3, <1>6 DEF RenderInv

\* A step is typed when the steps of the calls follow their phases.
LEMMA RTypeStep ==
  ASSUME RenderInv, [RNext]_allVars
  PROVE  GateInv' /\ RTypeOK'
<1>0. GateInv'  BY RenderStepIsGateStep, StepInv DEF RenderInv
<1> USE DEF RenderInv, RTypeOK
<1>1. ASSUME NEW t \in Tasks, REnter(t) PROVE RTypeOK'
  <2>1. Enter(t) /\ UNCHANGED <<mark, engine>>  BY <1>1 DEF REnter
  <2>2. single' \in BOOLEAN  BY <1>1 DEF REnter, Notes
  <2>3. CASE phase'[t] = "working"
    <3>1. Starts(t)  BY <1>1, <2>3 DEF REnter
    <3>2. /\ step' \in [Tasks -> {"none", "delay", "render"}]
          /\ waits' \in [Tasks -> Tasks \union {NoRender}]
          /\ \A u \in Tasks : step'[u] # "none" <=> step[u] # "none" \/ u = t
      BY <3>1 DEF Starts
    <3> QED  BY <1>0, <2>1, <2>2, <2>3, <3>2, EnterWorks DEF GateInv
  <2>4. CASE phase'[t] # "working"
    <3>1. UNCHANGED <<step, waits>>  BY <1>1, <2>4 DEF REnter
    <3> QED  BY <1>0, <2>1, <2>2, <2>4, <3>1, EnterWorks DEF GateInv
  <2> QED  BY <2>3, <2>4
<1>2. ASSUME NEW t \in Tasks, RContinue(t) PROVE RTypeOK'
  <2>1. Continue(t) /\ UNCHANGED <<mark, engine>> /\ Starts(t)  BY <1>2 DEF RContinue
  <2>2. single' \in BOOLEAN  BY <1>2 DEF RContinue, Notes
  <2>3. /\ step' \in [Tasks -> {"none", "delay", "render"}]
        /\ waits' \in [Tasks -> Tasks \union {NoRender}]
        /\ \A u \in Tasks : step'[u] # "none" <=> step[u] # "none" \/ u = t
    BY <2>1 DEF Starts
  <2> QED  BY <1>0, <2>1, <2>2, <2>3, ContinueWorks DEF GateInv
<1>3. ASSUME NEW t \in Tasks, Waited(t) PROVE RTypeOK'
  <2>1. single' \in BOOLEAN  BY <1>3 DEF Waited, Notes
  <2> QED  BY <1>0, <1>3, <2>1 DEF Waited, vars, GateInv
<1>4. ASSUME NEW t \in Tasks, Succeed(t) \/ Fail(t) \/ TimeOut(t) PROVE RTypeOK'
  <2>1. Ends(t)  BY <1>4 DEF Succeed, Fail, TimeOut
  <2>2. single' \in BOOLEAN  BY <1>4 DEF Succeed, Fail, TimeOut, Notes
  <2>3. mark' \in Tasks \union {NoRender} /\ engine' \subseteq Tasks
    BY <1>4 DEF Succeed, Fail, TimeOut
  <2>4. /\ step' \in [Tasks -> {"none", "delay", "render"}]
        /\ \A u \in Tasks : step'[u] # "none" <=> step[u] # "none" /\ u # t
        /\ UNCHANGED waits /\ Finish(t)
    BY <2>1 DEF Ends
  <2> QED  BY <1>0, <2>2, <2>3, <2>4, FinishWorks DEF GateInv
<1>5. ASSUME NEW t \in Tasks, EngineDone(t) PROVE RTypeOK'
  <2>1. single' \in BOOLEAN  BY <1>5 DEF EngineDone, Notes
  <2>2. waits' \in [Tasks -> Tasks \union {NoRender}]  BY <1>5 DEF EngineDone
  <2> QED  BY <1>0, <1>5, <2>1, <2>2 DEF EngineDone, vars, GateInv
<1>6. ASSUME NEW n \in Asked, RSetLimit(n) PROVE RTypeOK'
  <2>1. single' \in BOOLEAN  BY <1>6 DEF RSetLimit, Notes
  <2> QED  BY <1>0, <1>6, <2>1, SetLimitWorks DEF RSetLimit, GateInv
<1>7. CASE UNCHANGED allVars
  BY <1>0, <1>7 DEF allVars, render, vars, GateInv
<1> HIDE DEF RenderInv, RTypeOK
<1>8. CASE RNext
  BY <1>0, <1>1, <1>2, <1>3, <1>4, <1>5, <1>6, <1>8 DEF RNext
<1> QED  BY <1>0, <1>7, <1>8

\* Two calls that hold a slot are at least two in flight.
LEMMA OneHolder ==
  ASSUME GateInv, inFlight <= 1, NEW t \in Tasks, NEW u \in Tasks,
         phase[t] \in {"released", "working"}, phase[u] \in {"released", "working"}
  PROVE  t = u
<1> SUFFICES ASSUME t # u PROVE FALSE
  OBVIOUS
<1>1. IsFiniteSet(Holders)  BY FS_Subset, GateAssumption DEF Holders
<1>2. {t} \cup {u} \in SUBSET Holders  BY DEF Holders
<1>3. IsFiniteSet({t}) /\ Cardinality({t}) = 1  BY FS_Singleton
<1>4. Cardinality({t} \cup {u}) = 2  BY <1>3, FS_AddElement
<1>5. Cardinality({t} \cup {u}) <= Cardinality(Holders)  BY <1>1, <1>2, FS_Subset
<1>6. inFlight = Cardinality(Holders) /\ inFlight \in Nat
  BY DEF GateInv, SlotsAccounted, TypeOK
<1> QED  BY <1>4, <1>5, <1>6

\* A device at rest whose limit is one: nothing is held, and nothing renders.
LEMMA RestIsOne ==
  ASSUME GateInv', RTypeOK', limit' = 1, AtRest'
  PROVE  OneAtATime'
<1>1. Holders' = {}  BY DEF AtRest, Holders
<1>2. inFlight' = 0  BY <1>1, FS_EmptySet DEF GateInv, SlotsAccounted
<1>3. \A t \in Tasks : step'[t] = "none"  BY DEF RTypeOK, AtRest
<1> QED  BY <1>2, <1>3 DEF OneAtATime, AtRest

\* While the limit stays one, at most one call gets a slot.
LEMMA StaysOne ==
  ASSUME GateInv, GateInv', [Next]_vars, limit' = 1, inFlight <= 1
  PROVE  inFlight' <= 1
<1>1. inFlight \in Nat /\ inFlight' \in Nat /\ Len(queue) \in Nat
  BY DEF GateInv, TypeOK
<1>2. ASSUME NEW t \in Tasks, Enter(t) PROVE inFlight' <= 1
  BY <1>1, <1>2 DEF Enter
<1>3. ASSUME NEW t \in Tasks, Continue(t) PROVE inFlight' <= 1
  BY <1>3 DEF Continue
<1>4. ASSUME NEW t \in Tasks, Finish(t) PROVE inFlight' <= 1
  <2>1. inFlight' = inFlight - 1 + Released(Len(queue), 1 - (inFlight - 1))
    BY <1>4 DEF Finish, Drain
  <2> QED  BY <1>1, <2>1 DEF Released, Smaller
<1>5. ASSUME NEW n \in Asked, SetLimit(n) PROVE inFlight' <= 1
  <2>1. inFlight' = inFlight + Released(Len(queue), 1 - inFlight)
    BY <1>5 DEF SetLimit, Drain
  <2> QED  BY <1>1, <2>1 DEF Released, Smaller
<1>6. CASE UNCHANGED vars  BY <1>6 DEF vars
<1> QED  BY <1>2, <1>3, <1>4, <1>5, <1>6 DEF Next

\* What a call that gets to its work finds while the device renders one picture
\* at a time: it is the only one, and the mark tells what the engine works on.
LEMMA StartsClean ==
  ASSUME RTypeOK, OneAtATime, NEW t \in Tasks, Starts(t), UNCHANGED <<mark, engine>>
  PROVE  /\ step'[t] = "render" => engine = {}
         /\ step'[t] = "delay" => engine \subseteq {waits'[t]}
         /\ \A u \in Tasks \ {t} : step'[u] = step[u] /\ waits'[u] = waits[u]
<1>1. /\ step'[t] = IF Busy THEN "delay" ELSE "render"
      /\ waits'[t] = IF Busy THEN mark ELSE NoRender
      /\ \A u \in Tasks \ {t} : step'[u] = step[u] /\ waits'[u] = waits[u]
  BY DEF Starts, RTypeOK
<1>2. ~Busy => engine = {}  BY DEF Busy, OneAtATime
<1> QED  BY <1>1, <1>2 DEF OneAtATime

LEMMA StepOne ==
  ASSUME RenderInv, [RNext]_allVars, single'
  PROVE  OneAtATime'
<1>1. GateInv' /\ RTypeOK'  BY RTypeStep
<1>2. [Next]_vars  BY RenderStepIsGateStep
<1>3. ASSUME limit' = 1, AtRest' PROVE OneAtATime'
  BY <1>1, <1>3, RestIsOne
<1>4. ASSUME single, limit' = 1, RNext PROVE OneAtATime'
  <2>0. GateInv /\ RTypeOK /\ OneAtATime  BY <1>4 DEF RenderInv
  <2>1. inFlight' <= 1  BY <1>1, <1>2, <1>4, <2>0, StaysOne DEF OneAtATime
  <2>2. ASSUME NEW t \in Tasks, REnter(t) PROVE OneAtATime'
    <3>1. UNCHANGED <<mark, engine>>  BY <2>2 DEF REnter
    <3>2. CASE phase'[t] = "working"
      <4>1. Starts(t)  BY <2>2, <3>2 DEF REnter
      <4> QED  BY <1>4, <2>0, <2>1, <3>1, <4>1, StartsClean DEF OneAtATime
    <3>3. CASE phase'[t] # "working"
      <4>1. UNCHANGED <<step, waits>>  BY <2>2, <3>3 DEF REnter
      <4> QED  BY <1>4, <2>0, <2>1, <3>1, <4>1 DEF OneAtATime
    <3> QED  BY <3>2, <3>3
  <2>3. ASSUME NEW t \in Tasks, RContinue(t) PROVE OneAtATime'
    <3>1. UNCHANGED <<mark, engine>> /\ Starts(t)  BY <2>3 DEF RContinue
    <3> QED  BY <1>4, <2>0, <2>1, <3>1, StartsClean DEF OneAtATime
  <2>4. ASSUME NEW t \in Tasks, Waited(t) PROVE OneAtATime'
    <3>1. /\ step[t] = "delay" /\ waits[t] = NoRender
          /\ step' = [step EXCEPT ![t] = "render"]
          /\ UNCHANGED <<waits, mark, engine>>
      BY <2>4 DEF Waited
    <3>2. engine = {}
      BY <2>0, <3>1, RendersAssumption DEF OneAtATime, RTypeOK
    <3> QED  BY <1>4, <2>1, <3>1, <3>2 DEF OneAtATime
  <2>5. ASSUME NEW t \in Tasks, Succeed(t) \/ Fail(t) \/ TimeOut(t) PROVE OneAtATime'
    <3>1. /\ step[t] = "render" /\ step' = [step EXCEPT ![t] = "none"] /\ UNCHANGED waits
          /\ phase[t] = "working"
      BY <2>5 DEF Succeed, Fail, TimeOut, Ends, Finish
    <3>2. engine = {}  BY <2>0, <3>1 DEF OneAtATime
    <3>3. engine' \subseteq {mark'}  BY <2>5, <3>2 DEF Succeed, Fail, TimeOut
    <3>4. \A u \in Tasks : step'[u] = "none"
      <4> SUFFICES ASSUME NEW u \in Tasks, u # t PROVE step'[u] = "none"
        BY <2>0, <3>1 DEF RTypeOK
      <4>1. phase[u] # "working"  BY <2>0, <3>1, OneHolder DEF OneAtATime
      <4> QED  BY <2>0, <3>1, <4>1 DEF RTypeOK
    <3> QED  BY <1>4, <2>1, <3>3, <3>4 DEF OneAtATime
  <2>6. ASSUME NEW t \in Tasks, EngineDone(t) PROVE OneAtATime'
    <3>1. /\ engine' = engine \ {t} /\ UNCHANGED <<mark, step>> /\ t \in engine
          /\ \A u \in Tasks : waits[u] # t => waits'[u] = waits[u]
      BY <2>6 DEF EngineDone
    <3>2. \A u \in Tasks : step[u] = "delay" => engine' \subseteq {waits'[u]}
      BY <2>0, <3>1 DEF OneAtATime
    <3> QED  BY <1>4, <2>0, <2>1, <3>1, <3>2 DEF OneAtATime
  <2>7. ASSUME NEW n \in Asked, RSetLimit(n) PROVE OneAtATime'
    <3>1. UNCHANGED <<step, waits, mark, engine>>  BY <2>7 DEF RSetLimit
    <3> QED  BY <1>4, <2>0, <2>1, <3>1 DEF OneAtATime
  <2> QED  BY <1>4, <2>2, <2>3, <2>4, <2>5, <2>6, <2>7 DEF RNext
<1>5. CASE UNCHANGED allVars
  BY <1>5 DEF allVars, vars, render, RenderInv, OneAtATime
<1>6. CASE RNext
  <2>1. Notes
    BY <1>6 DEF RNext, REnter, RContinue, Waited, Succeed, Fail, TimeOut, EngineDone, RSetLimit
  <2> QED  BY <1>3, <1>4, <1>6, <2>1 DEF Notes
<1> QED  BY <1>5, <1>6

LEMMA RenderInvariant == RSpec => []RenderInv
<1>1. RenderInv /\ [RNext]_allVars => RenderInv'
  BY RTypeStep, StepOne DEF RenderInv
<1> QED  BY <1>1, RInitInv, PTL DEF RSpec

\* A render's clock starts on a free engine, as long as the device has rendered
\* one picture at a time: the mark tells, whoever set, read and cleared it.
THEOREM RendersStartClean == RSpec => CleanStart
<1> DEFINE Clean == single => \A t \in Tasks :
                      step[t] # "render" /\ step'[t] = "render" => engine = {}
<1>1. ASSUME RenderInv, [RNext]_allVars PROVE Clean
  <2> SUFFICES ASSUME single, NEW t \in Tasks, step[t] # "render", step'[t] = "render"
               PROVE  engine = {}
    OBVIOUS
  <2>0. RTypeOK /\ OneAtATime  BY <1>1 DEF RenderInv
  <2>1. ASSUME NEW u \in Tasks, Starts(u), UNCHANGED <<mark, engine>> PROVE engine = {}
    BY <2>0, <2>1, StartsClean
  <2>2. ASSUME NEW u \in Tasks, REnter(u) PROVE engine = {}
    <3>1. UNCHANGED <<mark, engine>> /\ (Starts(u) \/ UNCHANGED step)
      BY <2>2 DEF REnter
    <3> QED  BY <2>1, <3>1
  <2>3. ASSUME NEW u \in Tasks, RContinue(u) PROVE engine = {}
    BY <2>1, <2>3 DEF RContinue
  <2>4. ASSUME NEW u \in Tasks, Waited(u) PROVE engine = {}
    <3>1. step[u] = "delay" /\ waits[u] = NoRender /\ step' = [step EXCEPT ![u] = "render"]
      BY <2>4 DEF Waited
    <3> QED  BY <2>0, <3>1, RendersAssumption DEF OneAtATime, RTypeOK
  <2>5. ASSUME NEW u \in Tasks, Succeed(u) \/ Fail(u) \/ TimeOut(u) PROVE FALSE
    BY <2>0, <2>5 DEF Succeed, Fail, TimeOut, Ends, RTypeOK
  <2>6. ASSUME NEW u \in Tasks, EngineDone(u) PROVE FALSE  BY <2>6 DEF EngineDone
  <2>7. ASSUME NEW n \in Asked, RSetLimit(n) PROVE FALSE  BY <2>7 DEF RSetLimit
  <2>8. CASE UNCHANGED allVars  BY <2>8 DEF allVars, render
  <2> QED  BY <1>1, <2>2, <2>3, <2>4, <2>5, <2>6, <2>7, <2>8 DEF RNext
<1>2. RenderInv /\ [RNext]_allVars =>
        [single => \A t \in Tasks :
           step[t] # "render" /\ step'[t] = "render" => engine = {}]_allVars
  BY <1>1
<1> QED  BY <1>2, RenderInvariant, PTL DEF RSpec, CleanStart

-----------------------------------------------------------------------------
(* The ceilings of the swarm: one semaphore per agent type and the global  *)
(* one, each with a queue Q of the runs W that wait on it, each once, and  *)
(* the number n of the runs H that hold a slot of it.                      *)

Semaphore(Q, W, H, n) ==
  /\ Q \in Seq(Runs)
  /\ W = {Q[i] : i \in DOMAIN Q}
  /\ \A i, j \in DOMAIN Q : Q[i] = Q[j] => i = j
  /\ H \in SUBSET Runs /\ W \cap H = {}
  /\ n = Cardinality(H)

WaitsOn(s) ==
  IF s = Global THEN {r \in Runs : at[r] = "globalQueue"}
  ELSE {r \in Runs : AgentOf[r] = s /\ at[r] = "agentQueue"}

SlotsInv ==
  /\ SlotsTypeOK
  /\ max[Global] = GlobalCap
  /\ active[Global] <= GlobalCap
  /\ \A s \in Semaphores : Semaphore(queues[s], WaitsOn(s), Holding(s), active[s])

LEMMA FiniteRuns ==
  ASSUME NEW H \in SUBSET Runs
  PROVE  IsFiniteSet(H) /\ Cardinality(H) \in Nat
<1>1. IsFiniteSet(H)  BY FS_Subset, SlotsAssumption
<1> QED  BY <1>1, FS_CardinalityType

\* A run takes a free slot.
LEMMA TakingSlot ==
  ASSUME NEW Q, NEW W, NEW H, NEW n, Semaphore(Q, W, H, n),
         NEW r \in Runs, r \notin H, r \notin W
  PROVE  Semaphore(Q, W, H \cup {r}, n + 1)
<1>1. IsFiniteSet(H) /\ Cardinality(H) \in Nat  BY FiniteRuns DEF Semaphore
<1>2. Cardinality(H \cup {r}) = Cardinality(H) + 1  BY <1>1, FS_AddElement
<1> QED  BY <1>2 DEF Semaphore

\* A run queues.
LEMMA QueueingUp ==
  ASSUME NEW Q, NEW W, NEW H, NEW n, Semaphore(Q, W, H, n),
         NEW r \in Runs, r \notin H, r \notin W
  PROVE  Semaphore(Append(Q, r), W \cup {r}, H, n)
<1> DEFINE R == Append(Q, r)
<1>1. Q \in Seq(Runs) /\ Len(Q) \in Nat /\ DOMAIN Q = 1 .. Len(Q)  BY DEF Semaphore
<1>2. /\ R \in Seq(Runs) /\ DOMAIN R = 1 .. Len(Q) + 1 /\ R[Len(Q) + 1] = r
      /\ \A i \in 1 .. Len(Q) : R[i] = Q[i]
  BY <1>1
<1> HIDE DEF R
<1>3. W = {Q[i] : i \in 1 .. Len(Q)}  BY <1>1 DEF Semaphore
<1>4. W \cup {r} = {R[i] : i \in DOMAIN R}
  <2>1. ASSUME NEW x \in W \cup {r} PROVE \E i \in DOMAIN R : x = R[i]
    <3>1. CASE x = r  BY <1>1, <1>2, <3>1
    <3>2. CASE x \in W
      <4>1. PICK i \in 1 .. Len(Q) : x = Q[i]  BY <1>3, <3>2
      <4> QED  BY <1>1, <1>2, <4>1
    <3> QED  BY <3>1, <3>2
  <2>2. ASSUME NEW i \in DOMAIN R PROVE R[i] \in W \cup {r}
    <3>1. i \in 1 .. Len(Q) \/ i = Len(Q) + 1  BY <1>1, <1>2
    <3> QED  BY <1>2, <1>3, <3>1
  <2> QED  BY <2>1, <2>2
<1>5. \A i, j \in DOMAIN R : R[i] = R[j] => i = j
  <2> SUFFICES ASSUME NEW i \in DOMAIN R, NEW j \in DOMAIN R, R[i] = R[j]
               PROVE  i = j
    OBVIOUS
  <2>1. \A k \in 1 .. Len(Q) : R[k] \in W  BY <1>2, <1>3
  <2>2. \A k, l \in 1 .. Len(Q) : Q[k] = Q[l] => k = l  BY <1>1 DEF Semaphore
  <2>3. /\ i \in 1 .. Len(Q) \/ i = Len(Q) + 1
        /\ j \in 1 .. Len(Q) \/ j = Len(Q) + 1
    BY <1>1, <1>2
  <2> QED  BY <1>2, <2>1, <2>2, <2>3
<1> QED  BY <1>2, <1>4, <1>5 DEF Semaphore, R

\* A run gives its slot back: the first in the queue gets it, or it is free.
LEMMA HandingOn ==
  ASSUME NEW s \in Semaphores, SlotsInv, NEW r \in Holding(s)
  PROVE  /\ Semaphore(Rest(s), WaitsOn(s) \ Woken(s), (Holding(s) \ {r}) \cup Woken(s), Count(s))
         /\ Count(s) \in Nat /\ Count(s) <= active[s]
         /\ Woken(s) \subseteq WaitsOn(s)
<1> DEFINE Q == queues[s]
           W == WaitsOn(s)
           H == Holding(s)
<1>0. Semaphore(Q, W, H, active[s])  BY DEF SlotsInv
<1> HIDE DEF Q, W, H
<1>1. /\ Q \in Seq(Runs) /\ Len(Q) \in Nat /\ DOMAIN Q = 1 .. Len(Q)
      /\ W = {Q[i] : i \in 1 .. Len(Q)}
      /\ \A i, j \in 1 .. Len(Q) : Q[i] = Q[j] => i = j
      /\ H \in SUBSET Runs /\ W \cap H = {} /\ active[s] = Cardinality(H)
  BY <1>0 DEF Semaphore
<1>2. r \in H  BY DEF H
<1>3. IsFiniteSet(H) /\ Cardinality(H) \in Nat  BY <1>1, FiniteRuns
<1>4. /\ IsFiniteSet(H \ {r}) /\ Cardinality(H \ {r}) = Cardinality(H) - 1
      /\ Cardinality(H \ {r}) \in Nat
  <2>1. IsFiniteSet(H \ {r}) /\ Cardinality(H \ {r}) = Cardinality(H) - 1
    BY <1>2, <1>3, FS_RemoveElement
  <2> QED  BY <2>1, FS_CardinalityType
<1>5. CASE Q = <<>>
  <2>1. Rest(s) = <<>> /\ Woken(s) = {} /\ Count(s) = active[s] - 1
    BY <1>1, <1>3, <1>4, <1>5 DEF Rest, Woken, Count, Q
  <2>2. W = {} /\ (H \ {r}) \cup {} = H \ {r} /\ W \ {} = {}  BY <1>1, <1>5
  <2>3. Semaphore(<<>>, {}, H \ {r}, active[s] - 1)
    BY <1>1, <1>4 DEF Semaphore
  <2>4. Count(s) \in Nat /\ Count(s) <= active[s]  BY <1>1, <1>3, <1>4, <2>1
  <2>5. Semaphore(Rest(s), W \ Woken(s), (H \ {r}) \cup Woken(s), Count(s))
    BY <2>1, <2>2, <2>3
  <2> QED  BY <2>1, <2>4, <2>5 DEF W, H
<1>6. CASE Q # <<>>
  <2> DEFINE h == Head(Q)
             T == Tail(Q)
  <2>1. Rest(s) = T /\ Woken(s) = {h} /\ Count(s) = active[s]
    BY <1>6 DEF Rest, Woken, Count, Q
  <2>2. Len(Q) \in Nat \ {0}  BY <1>1, <1>6
  <2>3. /\ T \in Seq(Runs) /\ DOMAIN T = 1 .. Len(Q) - 1
        /\ \A i \in 1 .. Len(Q) - 1 : T[i] = Q[i + 1]
        /\ h = Q[1]
    BY <1>1, <1>6, <2>2
  <2> HIDE DEF h, T
  <2>4. h \in W /\ h \notin H /\ h \in Runs
    <3>1. 1 \in 1 .. Len(Q)  BY <2>2
    <3> QED  BY <1>1, <2>3, <3>1
  <2>5. W \ {h} = {T[i] : i \in DOMAIN T}
    <3>1. ASSUME NEW x \in W \ {h} PROVE \E i \in DOMAIN T : x = T[i]
      <4>1. PICK i \in 1 .. Len(Q) : x = Q[i]  BY <1>1
      <4>2. i # 1  BY <2>3, <3>1, <4>1
      <4>3. i - 1 \in 1 .. Len(Q) - 1 /\ (i - 1) + 1 = i  BY <1>1, <4>1, <4>2
      <4> QED  BY <2>3, <4>1, <4>3
    <3>2. ASSUME NEW i \in DOMAIN T PROVE T[i] \in W \ {h}
      <4>1. i + 1 \in 1 .. Len(Q) /\ i + 1 # 1 /\ 1 \in 1 .. Len(Q) /\ T[i] = Q[i + 1]
        BY <1>1, <2>2, <2>3
      <4> QED  BY <1>1, <2>3, <4>1
    <3> QED  BY <3>1, <3>2
  <2>6. \A i, j \in DOMAIN T : T[i] = T[j] => i = j
    <3> SUFFICES ASSUME NEW i \in DOMAIN T, NEW j \in DOMAIN T, T[i] = T[j]
                 PROVE  i = j
      OBVIOUS
    <3>1. i + 1 \in 1 .. Len(Q) /\ j + 1 \in 1 .. Len(Q) /\ Q[i + 1] = Q[j + 1]
      BY <1>1, <2>2, <2>3
    <3>2. i + 1 = j + 1  BY <1>1, <3>1
    <3> QED  BY <2>2, <2>3, <3>2
  <2>7. Cardinality((H \ {r}) \cup {h}) = active[s]
    <3>1. Cardinality((H \ {r}) \cup {h}) = Cardinality(H \ {r}) + 1
      BY <1>4, <2>4, FS_AddElement
    <3> QED  BY <1>1, <1>3, <1>4, <3>1
  <2>8. Semaphore(T, W \ {h}, (H \ {r}) \cup {h}, active[s])
    BY <1>1, <2>3, <2>4, <2>5, <2>6, <2>7 DEF Semaphore
  <2> QED  BY <1>1, <1>3, <2>1, <2>4, <2>8 DEF W, H
<1> QED  BY <1>5, <1>6

LEMMA SlotsInitInv == SlotsInit => SlotsInv
<1> SUFFICES ASSUME SlotsInit PROVE SlotsInv
  OBVIOUS
<1>1. SlotsTypeOK /\ max[Global] = GlobalCap /\ active[Global] <= GlobalCap
  <2>1. \A s \in Agents : config[s] \in Nat \ {0}
    BY SlotsAssumption DEF SlotsInit
  <2>2. max \in [Semaphores -> Nat \ {0}] /\ max[Global] = GlobalCap
    BY <2>1, SlotsAssumption DEF SlotsInit, Semaphores
  <2>3. active \in [Semaphores -> Nat] /\ active[Global] = 0
    BY DEF SlotsInit, Semaphores
  <2>4. queues \in [Semaphores -> Seq(Runs)] /\ at \in [Runs -> Stage]
    BY DEF SlotsInit, Stage
  <2>5. active[Global] <= GlobalCap  BY <2>3, SlotsAssumption
  <2> QED  BY <2>2, <2>3, <2>4, <2>5 DEF SlotsInit, SlotsTypeOK
<1>2. ASSUME NEW s \in Semaphores
      PROVE  Semaphore(queues[s], WaitsOn(s), Holding(s), active[s])
  <2>1. /\ queues[s] = <<>> /\ active[s] = 0
        /\ WaitsOn(s) = {} /\ Holding(s) = {}
    BY DEF SlotsInit, WaitsOn, Holding, HasAgentSlot, HasGlobalSlot
  <2> QED  BY <2>1, FS_EmptySet DEF Semaphore
<1> QED  BY <1>1, <1>2 DEF SlotsInv

\* Asking a semaphore for a slot: of this one a slot is taken or its queue
\* grows, and the others are as they were.
LEMMA Asking ==
  ASSUME SlotsInv, NEW s \in Semaphores, NEW r \in Runs,
         NEW taken \in Stage, NEW waiting \in Stage,
         Acquire(s, r, taken, waiting), max' \in [Semaphores -> Nat \ {0}],
         max'[Global] = GlobalCap, config' \in [Agents -> Caps],
         r \notin WaitsOn(s), r \notin Holding(s),
         \A u \in Semaphores \ {s} :
            at' \in {[at EXCEPT ![r] = taken], [at EXCEPT ![r] = waiting]} =>
              WaitsOn(u)' = WaitsOn(u) /\ Holding(u)' = Holding(u),
         at' = [at EXCEPT ![r] = taken] =>
            WaitsOn(s)' = WaitsOn(s) /\ Holding(s)' = Holding(s) \cup {r},
         at' = [at EXCEPT ![r] = waiting] =>
            WaitsOn(s)' = WaitsOn(s) \cup {r} /\ Holding(s)' = Holding(s)
  PROVE  SlotsInv'
<1>0. /\ SlotsTypeOK /\ max[Global] = GlobalCap /\ active[Global] <= GlobalCap
      /\ \A u \in Semaphores : Semaphore(queues[u], WaitsOn(u), Holding(u), active[u])
  BY DEF SlotsInv
<1>1. CASE active[s] < max'[s]
  <2>1. /\ active' = [active EXCEPT ![s] = @ + 1]
        /\ at' = [at EXCEPT ![r] = taken] /\ UNCHANGED queues
    BY <1>1 DEF Acquire
  <2>2. /\ active' \in [Semaphores -> Nat] /\ at' \in [Runs -> Stage]
        /\ active'[s] = active[s] + 1 /\ \A u \in Semaphores \ {s} : active'[u] = active[u]
    BY <1>0, <2>1 DEF SlotsTypeOK
  <2>3. Semaphore(queues[s], WaitsOn(s), Holding(s) \cup {r}, active[s] + 1)
    BY <1>0, TakingSlot
  <2>4. \A u \in Semaphores :
          Semaphore(queues'[u], WaitsOn(u)', Holding(u)', active'[u])
    <3> TAKE u \in Semaphores
    <3>1. CASE u = s  BY <2>1, <2>2, <2>3, <3>1
    <3>2. CASE u # s  BY <1>0, <2>1, <2>2, <3>2
    <3> QED  BY <3>1, <3>2
  <2>5. active'[Global] <= GlobalCap
    <3>1. CASE s = Global  BY <1>0, <1>1, <2>2, <3>1, SlotsAssumption DEF SlotsTypeOK
    <3>2. CASE s # Global  BY <1>0, <2>2, <3>2 DEF Semaphores
    <3> QED  BY <3>1, <3>2
  <2>6. SlotsTypeOK'  BY <1>0, <2>1, <2>2 DEF SlotsTypeOK
  <2> QED  BY <2>4, <2>5, <2>6 DEF SlotsInv
<1>2. CASE ~(active[s] < max'[s])
  <2>1. /\ queues' = [queues EXCEPT ![s] = Append(@, r)]
        /\ at' = [at EXCEPT ![r] = waiting] /\ UNCHANGED active
    BY <1>2 DEF Acquire
  <2>2. /\ queues' \in [Semaphores -> Seq(Runs)] /\ at' \in [Runs -> Stage]
        /\ queues'[s] = Append(queues[s], r)
        /\ \A u \in Semaphores \ {s} : queues'[u] = queues[u]
    BY <1>0, <2>1 DEF SlotsTypeOK
  <2>3. Semaphore(Append(queues[s], r), WaitsOn(s) \cup {r}, Holding(s), active[s])
    BY <1>0, QueueingUp
  <2>4. \A u \in Semaphores :
          Semaphore(queues'[u], WaitsOn(u)', Holding(u)', active'[u])
    <3> TAKE u \in Semaphores
    <3>1. CASE u = s  BY <2>1, <2>2, <2>3, <3>1
    <3>2. CASE u # s  BY <1>0, <2>1, <2>2, <3>2
    <3> QED  BY <3>1, <3>2
  <2>5. SlotsTypeOK'  BY <1>0, <2>1, <2>2 DEF SlotsTypeOK
  <2> QED  BY <1>0, <2>1, <2>4, <2>5 DEF SlotsInv
<1> QED  BY <1>1, <1>2

\* A run ends: its slots of the global semaphore and of its agent's are handed
\* on, and the other semaphores are as they were.
LEMMA ReleasingSlots ==
  ASSUME SlotsInv, NEW r \in Runs, Release(r)
  PROVE  SlotsInv'
<1> DEFINE a == AgentOf[r]
<1>0. /\ SlotsTypeOK /\ max[Global] = GlobalCap /\ active[Global] <= GlobalCap
      /\ \A u \in Semaphores : Semaphore(queues[u], WaitsOn(u), Holding(u), active[u])
  BY DEF SlotsInv
<1>1. a \in Agents /\ a \in Semaphores /\ Global \in Semaphores /\ a # Global
  BY SlotsAssumption DEF Semaphores
<1>2. /\ at[r] = "running"
      /\ active' = [active EXCEPT ![Global] = Count(Global), ![a] = Count(a)]
      /\ queues' = [queues EXCEPT ![Global] = Rest(Global), ![a] = Rest(a)]
      /\ at' = [q \in Runs |->
           IF q \in Woken(Global) THEN "globalWoken"
           ELSE IF q \in Woken(a) THEN "agentWoken"
           ELSE IF q = r THEN "out" ELSE at[q]]
      /\ UNCHANGED <<config, max>>
  BY DEF Release
<1>3. r \in Holding(Global) /\ r \in Holding(a)
  BY <1>1, <1>2 DEF Holding, HasAgentSlot, HasGlobalSlot
<1> HIDE DEF a
<1>4. /\ Semaphore(Rest(Global), WaitsOn(Global) \ Woken(Global),
                   (Holding(Global) \ {r}) \cup Woken(Global), Count(Global))
      /\ Count(Global) \in Nat /\ Count(Global) <= active[Global]
      /\ Woken(Global) \subseteq WaitsOn(Global)
  BY <1>1, <1>3, HandingOn
<1>5. /\ Semaphore(Rest(a), WaitsOn(a) \ Woken(a), (Holding(a) \ {r}) \cup Woken(a), Count(a))
      /\ Count(a) \in Nat
      /\ Woken(a) \subseteq WaitsOn(a)
  BY <1>1, <1>3, HandingOn
<1>6. /\ \A q \in Woken(Global) : q \in Runs /\ at[q] = "globalQueue" /\ at'[q] = "globalWoken"
      /\ \A q \in Woken(a) : /\ q \in Runs /\ AgentOf[q] = a
                             /\ at[q] = "agentQueue" /\ at'[q] = "agentWoken"
  BY <1>1, <1>2, <1>4, <1>5 DEF WaitsOn
<1>7. at'[r] = "out" /\ r \notin Woken(Global) /\ r \notin Woken(a)
  BY <1>2, <1>6
<1>8. \A q \in Runs \ ({r} \cup Woken(Global) \cup Woken(a)) : at'[q] = at[q]
  BY <1>2
<1>9. /\ WaitsOn(Global)' = WaitsOn(Global) \ Woken(Global)
      /\ Holding(Global)' = (Holding(Global) \ {r}) \cup Woken(Global)
  BY <1>2, <1>6, <1>7, <1>8 DEF WaitsOn, Holding, HasGlobalSlot
<1>10. /\ WaitsOn(a)' = WaitsOn(a) \ Woken(a)
       /\ Holding(a)' = (Holding(a) \ {r}) \cup Woken(a)
  BY <1>1, <1>2, <1>6, <1>7, <1>8 DEF WaitsOn, Holding, HasAgentSlot, a
<1>11. ASSUME NEW u \in Semaphores \ {Global, a}
       PROVE  WaitsOn(u)' = WaitsOn(u) /\ Holding(u)' = Holding(u)
  BY <1>2, <1>6, <1>7, <1>8 DEF WaitsOn, Holding, HasAgentSlot, a
<1>12. /\ active'[Global] = Count(Global) /\ active'[a] = Count(a)
       /\ queues'[Global] = Rest(Global) /\ queues'[a] = Rest(a)
       /\ \A u \in Semaphores \ {Global, a} : active'[u] = active[u] /\ queues'[u] = queues[u]
       /\ DOMAIN active' = Semaphores /\ DOMAIN queues' = Semaphores
  BY <1>0, <1>1, <1>2 DEF SlotsTypeOK
<1>13. \A u \in Semaphores : Semaphore(queues'[u], WaitsOn(u)', Holding(u)', active'[u])
  <2> TAKE u \in Semaphores
  <2>1. CASE u = Global  BY <1>4, <1>9, <1>12, <2>1
  <2>2. CASE u = a  BY <1>5, <1>10, <1>12, <2>2
  <2>3. CASE u \notin {Global, a}  BY <1>0, <1>11, <1>12, <2>3
  <2> QED  BY <2>1, <2>2, <2>3
<1>14. SlotsTypeOK'
  <2>1. queues' \in [Semaphores -> Seq(Runs)]
    <3>1. Rest(Global) \in Seq(Runs) /\ Rest(a) \in Seq(Runs)
      BY <1>4, <1>5 DEF Semaphore
    <3> QED  BY <1>0, <1>1, <1>2, <3>1 DEF SlotsTypeOK
  <2>2. active' \in [Semaphores -> Nat]
    BY <1>0, <1>1, <1>2, <1>4, <1>5 DEF SlotsTypeOK
  <2>3. at' \in [Runs -> Stage]  BY <1>0, <1>2 DEF SlotsTypeOK, Stage
  <2> QED  BY <1>0, <1>2, <2>1, <2>2, <2>3 DEF SlotsTypeOK
<1>15. active'[Global] <= GlobalCap
  BY <1>0, <1>1, <1>4, <1>12, SlotsAssumption DEF SlotsTypeOK
<1> QED  BY <1>0, <1>2, <1>13, <1>14, <1>15 DEF SlotsInv

LEMMA SlotsStepInv == SlotsInv /\ [SlotsNext]_slotVars => SlotsInv'
<1> SUFFICES ASSUME SlotsInv, [SlotsNext]_slotVars PROVE SlotsInv'
  OBVIOUS
<1>0. /\ SlotsTypeOK /\ max[Global] = GlobalCap /\ active[Global] <= GlobalCap
      /\ \A s \in Semaphores : Semaphore(queues[s], WaitsOn(s), Holding(s), active[s])
  BY DEF SlotsInv
<1>1. ASSUME NEW r \in Runs, AskAgent(r) PROVE SlotsInv'
  <2> DEFINE a == AgentOf[r]
  <2>1. a \in Agents /\ a \in Semaphores /\ a # Global
    BY SlotsAssumption DEF Semaphores
  <2>2. /\ at[r] = "out" /\ max' = [max EXCEPT ![a] = config[a]]
        /\ Acquire(a, r, "agentWoken", "agentQueue") /\ UNCHANGED config
    BY <1>1 DEF AskAgent
  <2>3. config[a] \in Nat \ {0}  BY <1>0, <2>1, SlotsAssumption DEF SlotsTypeOK
  <2>4. max' \in [Semaphores -> Nat \ {0}] /\ max'[Global] = GlobalCap
    BY <1>0, <2>1, <2>2, <2>3 DEF SlotsTypeOK, Semaphores
  <2>5. r \notin WaitsOn(a) /\ r \notin Holding(a)
    BY <2>1, <2>2 DEF WaitsOn, Holding, HasAgentSlot
  <2>6. at' = [at EXCEPT ![r] = "agentWoken"] =>
          WaitsOn(a)' = WaitsOn(a) /\ Holding(a)' = Holding(a) \cup {r}
    BY <1>0, <2>1, <2>2 DEF SlotsTypeOK, WaitsOn, Holding, HasAgentSlot
  <2>7. at' = [at EXCEPT ![r] = "agentQueue"] =>
          WaitsOn(a)' = WaitsOn(a) \cup {r} /\ Holding(a)' = Holding(a)
    BY <1>0, <2>1, <2>2 DEF SlotsTypeOK, WaitsOn, Holding, HasAgentSlot
  <2>8. \A u \in Semaphores \ {a} :
          at' \in {[at EXCEPT ![r] = "agentWoken"], [at EXCEPT ![r] = "agentQueue"]} =>
            WaitsOn(u)' = WaitsOn(u) /\ Holding(u)' = Holding(u)
    BY <1>0, <2>1, <2>2 DEF SlotsTypeOK, WaitsOn, Holding, HasAgentSlot, HasGlobalSlot
  <2>9. "agentWoken" \in Stage /\ "agentQueue" \in Stage /\ config' \in [Agents -> Caps]
    BY <1>0, <2>2 DEF Stage, SlotsTypeOK
  <2> HIDE DEF a
  <2> QED  BY <2>1, <2>2, <2>4, <2>5, <2>6, <2>7, <2>8, <2>9, Asking
<1>2. ASSUME NEW r \in Runs, AskGlobal(r) PROVE SlotsInv'
  <2>1. /\ at[r] = "agentWoken" /\ max' = [max EXCEPT ![Global] = GlobalCap]
        /\ Acquire(Global, r, "globalWoken", "globalQueue") /\ UNCHANGED config
    BY <1>2 DEF AskGlobal
  <2>2. max' \in [Semaphores -> Nat \ {0}] /\ max'[Global] = GlobalCap
    BY <1>0, <2>1, SlotsAssumption DEF SlotsTypeOK, Semaphores
  <2>3. r \notin WaitsOn(Global) /\ r \notin Holding(Global)
    BY <2>1 DEF WaitsOn, Holding, HasGlobalSlot
  <2>4. at' = [at EXCEPT ![r] = "globalWoken"] =>
          WaitsOn(Global)' = WaitsOn(Global) /\ Holding(Global)' = Holding(Global) \cup {r}
    BY <1>0, <2>1 DEF SlotsTypeOK, WaitsOn, Holding, HasGlobalSlot
  <2>5. at' = [at EXCEPT ![r] = "globalQueue"] =>
          WaitsOn(Global)' = WaitsOn(Global) \cup {r} /\ Holding(Global)' = Holding(Global)
    BY <1>0, <2>1 DEF SlotsTypeOK, WaitsOn, Holding, HasGlobalSlot
  <2>6. \A u \in Semaphores \ {Global} :
          at' \in {[at EXCEPT ![r] = "globalWoken"], [at EXCEPT ![r] = "globalQueue"]} =>
            WaitsOn(u)' = WaitsOn(u) /\ Holding(u)' = Holding(u)
    BY <1>0, <2>1 DEF SlotsTypeOK, WaitsOn, Holding, HasAgentSlot
  <2>7. "globalWoken" \in Stage /\ "globalQueue" \in Stage /\ config' \in [Agents -> Caps]
    BY <1>0, <2>1 DEF Stage, SlotsTypeOK
  <2>8. Global \in Semaphores  BY DEF Semaphores
  <2> QED  BY <2>1, <2>2, <2>3, <2>4, <2>5, <2>6, <2>7, <2>8, Asking
<1>3. ASSUME NEW r \in Runs, Run(r) PROVE SlotsInv'
  <2>1. /\ at[r] = "globalWoken" /\ at' = [at EXCEPT ![r] = "running"]
        /\ UNCHANGED <<config, max, active, queues>>
    BY <1>3 DEF Run
  <2>2. \A s \in Semaphores : WaitsOn(s)' = WaitsOn(s) /\ Holding(s)' = Holding(s)
    BY <1>0, <2>1 DEF SlotsTypeOK, WaitsOn, Holding, HasAgentSlot, HasGlobalSlot
  <2>3. SlotsTypeOK'  BY <1>0, <2>1 DEF SlotsTypeOK, Stage
  <2> QED  BY <1>0, <2>1, <2>2, <2>3 DEF SlotsInv
<1>4. ASSUME NEW r \in Runs, Release(r) PROVE SlotsInv'  BY <1>4, ReleasingSlots
<1>5. ASSUME NEW a \in Agents, NEW n \in Caps, Configure(a, n) PROVE SlotsInv'
  <2>1. config' = [config EXCEPT ![a] = n] /\ UNCHANGED <<max, active, queues, at>>
    BY <1>5 DEF Configure
  <2>2. SlotsTypeOK'  BY <1>0, <2>1 DEF SlotsTypeOK
  <2>3. \A s \in Semaphores : WaitsOn(s)' = WaitsOn(s) /\ Holding(s)' = Holding(s)
    BY <2>1 DEF WaitsOn, Holding
  <2> QED  BY <1>0, <2>1, <2>2, <2>3 DEF SlotsInv
<1>6. CASE UNCHANGED slotVars
  <2>1. UNCHANGED <<config, max, active, queues, at>>  BY <1>6 DEF slotVars
  <2>2. \A s \in Semaphores : WaitsOn(s)' = WaitsOn(s) /\ Holding(s)' = Holding(s)
    BY <2>1 DEF WaitsOn, Holding
  <2>3. SlotsTypeOK'  BY <1>0, <2>1 DEF SlotsTypeOK
  <2> QED  BY <1>0, <2>1, <2>2, <2>3 DEF SlotsInv
<1> QED  BY <1>1, <1>2, <1>3, <1>4, <1>5, <1>6 DEF SlotsNext

\* Hand-offs between the runs neither leak a slot nor make one, of any agent
\* type, and the global ceiling holds, whatever the caps are reloaded to.
THEOREM SlotsAlwaysSafe == SlotsSpec => []SlotsSafe
<1>1. SlotsInv => SlotsSafe
  <2> SUFFICES ASSUME SlotsInv PROVE SlotsSafe
    OBVIOUS
  <2>1. \A s \in Semaphores : active[s] = Cardinality(Holding(s))
    BY DEF SlotsInv, Semaphore
  <2> DEFINE Running == {r \in Runs : at[r] = "running"}
  <2>2. Running \in SUBSET Holding(Global) /\ Holding(Global) \in SUBSET Runs
    BY DEF Holding, HasGlobalSlot
  <2>3. IsFiniteSet(Holding(Global)) /\ Cardinality(Holding(Global)) \in Nat
    BY <2>2, FiniteRuns
  <2> HIDE DEF Running
  <2>4. /\ Cardinality(Running) \in Nat
        /\ Cardinality(Running) <= Cardinality(Holding(Global))
    BY <2>2, <2>3, FS_Subset, FS_CardinalityType
  <2>5. Cardinality(Holding(Global)) <= GlobalCap
    BY <2>1 DEF SlotsInv, Semaphores
  <2>6. Cardinality(Running) <= GlobalCap
    BY <2>3, <2>4, <2>5, SlotsAssumption
  <2> QED  BY <2>1, <2>6 DEF SlotsSafe, Running
<1> QED  BY <1>1, SlotsInitInv, SlotsStepInv, PTL DEF SlotsSpec

\* No wake-up is lost: the queue of each semaphore holds the runs that wait on
\* it, each once.
THEOREM SlotQueuesHoldTheWaiting ==
  SlotsSpec => [](\A s \in Semaphores :
                    /\ WaitsOn(s) = {queues[s][i] : i \in DOMAIN queues[s]}
                    /\ \A i, j \in DOMAIN queues[s] : queues[s][i] = queues[s][j] => i = j)
<1>1. SlotsInv => \A s \in Semaphores :
                    /\ WaitsOn(s) = {queues[s][i] : i \in DOMAIN queues[s]}
                    /\ \A i, j \in DOMAIN queues[s] : queues[s][i] = queues[s][j] => i = j
  BY DEF SlotsInv, Semaphore
<1> QED  BY <1>1, SlotsInitInv, SlotsStepInv, PTL DEF SlotsSpec

=============================================================================
