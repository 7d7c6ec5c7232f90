------------------------- MODULE CapacityBrokerProofs -------------------------
(***************************************************************************)
(* Proofs about CapacityBroker, for any finite sets of delegations, permit *)
(* ids and processes, any weights, clocks, capacity and lifetimes.         *)
(***************************************************************************)
EXTENDS CapacityBroker, FiniteSetTheorems, TLAPS

Permit == [on : Tables \union {NoTable}, rest : -MaxSkew..TTL + MaxSkew,
           weight : Nat, gone : Held..TTL + 1]
Doing == [phase : {"idle", "waiting", "running"}, permit : Ids \union {NoPermit},
          waited : 0..Timeout, age : 0..RenewEvery, missed : 0..MaxMissed]

\* The cap on the tables, of a function that need not be the state.
WithinCapacity(ps) == \A l \in Tables : Cardinality(UnitsOf(ps, On(ps, l))) <= Capacity

-----------------------------------------------------------------------------
(* Counting units *)

\* The units of one permit are as many as its weight.
LEMMA UnitsOfOne ==
  ASSUME NEW x, NEW n \in Nat
  PROVE  IsFiniteSet({x} \X (1..n)) /\ Cardinality({x} \X (1..n)) = n
<1> DEFINE T == {x} \X (1..n)
           f == [k \in 1..n |-> <<x, k>>]
<1>1. f \in Bijection(1..n, T)
  <2>1. f \in [1..n -> T]  OBVIOUS
  <2>2. \A j, k \in 1..n : f[j] = f[k] => j = k  OBVIOUS
  <2>3. \A t \in T : \E k \in 1..n : f[k] = t  OBVIOUS
  <2>4. DOMAIN f = 1..n  OBVIOUS
  <2> HIDE DEF f, T
  <2> QED  BY <2>1, <2>2, <2>3, <2>4 DEF Bijection, Injection, Surjection, IsInjective
<1>2. ExistsBijection(1..n, T)  BY <1>1 DEF ExistsBijection
<1>3. IsFiniteSet(1..n) /\ Cardinality(1..n) = n  BY FS_Interval
<1> HIDE DEF T
<1>4. IsFiniteSet(T) /\ Cardinality(T) = n  BY <1>2, <1>3, FS_Bijection
<1> QED  BY <1>4 DEF T

\* A finite set of permits has finitely many units.
LEMMA FinitelyManyUnits ==
  ASSUME NEW ps, \A i \in Ids : ps[i].weight \in Nat, NEW S \in SUBSET Ids
  PROVE  /\ IsFiniteSet(UnitsOf(ps, S))
         /\ Cardinality(UnitsOf(ps, S)) \in Nat
<1> DEFINE Slots == {{i} \X (1..ps[i].weight) : i \in S}
           f == [i \in S |-> {i} \X (1..ps[i].weight)]
<1>1. IsFiniteSet(S)  BY FS_Subset, BrokerAssumption
<1>2. f \in Surjection(S, Slots)  BY DEF Surjection
<1>3. IsFiniteSet(Slots)
  <2> HIDE DEF f, Slots
  <2> QED  BY <1>1, <1>2, FS_Surjection
<1>4. ASSUME NEW T \in Slots PROVE IsFiniteSet(T)
  <2>1. PICK i \in S : T = {i} \X (1..ps[i].weight)  OBVIOUS
  <2>2. ps[i].weight \in Nat  OBVIOUS
  <2> QED  BY <2>1, <2>2, UnitsOfOne
<1>5. IsFiniteSet(UNION Slots)
  <2> HIDE DEF Slots
  <2> QED  BY <1>3, <1>4, FS_UNION
<1> QED  BY <1>5, FS_CardinalityType DEF UnitsOf

\* Fewer permits of the same weights have no more units.
LEMMA FewerUnits ==
  ASSUME NEW ps, \A i \in Ids : ps[i].weight \in Nat,
         NEW qs, NEW T \in SUBSET Ids, NEW S \in SUBSET T,
         \A i \in S : qs[i].weight = ps[i].weight
  PROVE  Cardinality(UnitsOf(qs, S)) <= Cardinality(UnitsOf(ps, T))
<1>1. UnitsOf(qs, S) \in SUBSET UnitsOf(ps, T)  BY DEF UnitsOf
<1>2. IsFiniteSet(UnitsOf(ps, T))  BY FinitelyManyUnits
<1> QED  BY <1>1, <1>2, FS_Subset

\* One more permit adds at most its weight.
LEMMA OneMore ==
  ASSUME NEW ps, \A i \in Ids : ps[i].weight \in Nat,
         NEW qs, NEW S \in SUBSET Ids, NEW j \in Ids, NEW n \in Nat,
         qs[j].weight = n, \A i \in S \ {j} : qs[i].weight = ps[i].weight
  PROVE  Cardinality(UnitsOf(qs, S \union {j})) <= Cardinality(UnitsOf(ps, S)) + n
<1> DEFINE U == UnitsOf(ps, S)
           V == {j} \X (1..n)
<1>1. IsFiniteSet(U) /\ Cardinality(U) \in Nat  BY FinitelyManyUnits
<1>2. IsFiniteSet(V) /\ Cardinality(V) = n  BY UnitsOfOne
<1>3. UnitsOf(qs, S \union {j}) \in SUBSET (U \union V)
  <2> SUFFICES ASSUME NEW i \in S \union {j}
               PROVE  {i} \X (1..qs[i].weight) \subseteq U \union V
    BY DEF UnitsOf
  <2>1. CASE i = j  BY <2>1
  <2>2. CASE i # j  BY <2>2 DEF UnitsOf
  <2> QED  BY <2>1, <2>2
<1> HIDE DEF U, V
<1>4. IsFiniteSet(U \union V)
      /\ Cardinality(U \union V) = Cardinality(U) + Cardinality(V) - Cardinality(U \cap V)
  BY <1>1, <1>2, FS_Union
<1>5. Cardinality(U \cap V) \in Nat  BY <1>1, FS_Intersection, FS_CardinalityType
<1>6. Cardinality(UnitsOf(qs, S \union {j})) <= Cardinality(U \union V)  BY <1>3, <1>4, FS_Subset
<1>7. Cardinality(UnitsOf(qs, S \union {j})) \in Nat
  BY <1>3, <1>4, FS_Subset, FS_CardinalityType
<1> QED  BY <1>1, <1>2, <1>4, <1>5, <1>6, <1>7 DEF U

\* Tables that only lose permits stay within the capacity.
LEMMA Losing ==
  ASSUME NEW ps \in [Ids -> Permit], WithinCapacity(ps), NEW qs,
         \A i \in Ids : qs[i].on # NoTable =>
           qs[i].on = ps[i].on /\ qs[i].weight = ps[i].weight
  PROVE  WithinCapacity(qs)
<1> SUFFICES ASSUME NEW l \in Tables
             PROVE  Cardinality(UnitsOf(qs, On(qs, l))) <= Capacity
  BY DEF WithinCapacity
<1>1. l # NoTable  BY BrokerAssumption DEF Tables, Redis, NoTable
<1>2. On(qs, l) \in SUBSET On(ps, l) /\ On(ps, l) \in SUBSET Ids  BY <1>1 DEF On
<1>3. \A i \in On(qs, l) : qs[i].weight = ps[i].weight  BY <1>1 DEF On
<1>4. \A i \in Ids : ps[i].weight \in Nat  BY DEF Permit
<1>5. Cardinality(UnitsOf(qs, On(qs, l))) <= Cardinality(UnitsOf(ps, On(ps, l)))
  BY <1>2, <1>3, <1>4, FewerUnits
<1>6. Cardinality(UnitsOf(ps, On(ps, l))) \in Nat  BY <1>2, <1>4, FinitelyManyUnits
<1>7. \A i \in Ids : i \in On(qs, l) => qs[i].weight \in Nat  BY <1>3, <1>4 DEF On
<1>8. Cardinality(UnitsOf(qs, On(qs, l))) \in Nat
  <2>1. UnitsOf(qs, On(qs, l)) \in SUBSET UnitsOf(ps, On(ps, l))  BY <1>2, <1>3 DEF UnitsOf
  <2> QED  BY <2>1, <1>2, <1>4, FinitelyManyUnits, FS_Subset, FS_CardinalityType
<1> QED  BY <1>5, <1>6, <1>8, BrokerAssumption DEF WithinCapacity

\* An acquire keeps the tables within the capacity, whatever the clock says.
LEMMA Acquiring ==
  ASSUME NEW ps \in [Ids -> Permit], WithinCapacity(ps), NEW l \in Tables, NEW w \in Work,
         NEW outcome \in Acquired(ps, l, w)
  PROVE  /\ outcome.permits \in [Ids -> Permit]
         /\ WithinCapacity(outcome.permits)
         /\ outcome.id \in Ids \union {NoPermit}
         /\ outcome.id # NoPermit =>
              /\ outcome.id \in Free(ps)
              /\ outcome.permits = [Pruned(ps, l, Now(w)) EXCEPT ![outcome.id] = Issued(l, Now(w), Weight[w])]
         /\ outcome.id = NoPermit => outcome.permits = Pruned(ps, l, Now(w))
<1> DEFINE qs == Pruned(ps, l, Now(w))
           g == Issued(l, Now(w), Weight[w])
<1>1. Now(w) \in Int /\ -MaxSkew <= Now(w) /\ Now(w) <= MaxSkew /\ MaxSkew \in Nat /\ TTL \in Nat
  BY BrokerAssumption DEF Now
<1>2. Unused \in Permit  BY <1>1 DEF Unused, Permit, Held
<1>3. g \in Permit
  <2>1. TTL + Now(w) \in -MaxSkew..TTL + MaxSkew  BY <1>1
  <2>2. Weight[w] \in Nat  BY BrokerAssumption
  <2>3. Held \in Held..TTL + 1  BY <1>1 DEF Held
  <2> QED  BY <2>1, <2>2, <2>3 DEF Issued, Permit
<1>4. qs \in [Ids -> Permit]  BY <1>2 DEF Pruned
<1>5. \A i \in Ids : qs[i].on # NoTable => qs[i].on = ps[i].on /\ qs[i].weight = ps[i].weight
  BY DEF Pruned, Unused
<1>6. WithinCapacity(qs)  BY <1>5, Losing
<1>7. CASE ~Fits(ps, l, Now(w), Weight[w])
  <2>1. outcome = [permits |-> qs, id |-> NoPermit]  BY <1>7 DEF Acquired
  <2> QED  BY <2>1, <1>4, <1>6
<1>8. CASE Fits(ps, l, Now(w), Weight[w])
  <2>1. PICK i \in Free(ps) : outcome = [permits |-> [qs EXCEPT ![i] = g], id |-> i]
    BY <1>8 DEF Acquired
  <2> DEFINE rs == [qs EXCEPT ![i] = g]
  <2>2. i \in Ids /\ i # NoPermit /\ ps[i].on = NoTable  BY BrokerAssumption DEF Free
  <2>3. rs \in [Ids -> Permit]  BY <1>3, <1>4, <2>2
  <2>4. l # NoTable  BY BrokerAssumption DEF Tables, Redis, NoTable
  <2>5. rs[i] = g /\ g.on = l /\ g.weight = Weight[w] /\ \A j \in Ids \ {i} : rs[j] = qs[j]
    BY <1>4, <2>2 DEF Issued
  <2>6. WithinCapacity(rs)
    <3> SUFFICES ASSUME NEW t \in Tables
                 PROVE  Cardinality(UnitsOf(rs, On(rs, t))) <= Capacity
      BY DEF WithinCapacity
    <3>1. \A j \in Ids : qs[j].weight \in Nat  BY <1>4 DEF Permit
    <3>2. CASE t # l
      <4>1. On(rs, t) \in SUBSET On(qs, t) /\ On(qs, t) \in SUBSET Ids  BY <2>5, <3>2 DEF On
      <4>2. \A j \in On(rs, t) : rs[j].weight = qs[j].weight  BY <2>5, <3>2 DEF On
      <4>3. UnitsOf(rs, On(rs, t)) = UnitsOf(qs, On(rs, t))
        <5> HIDE DEF rs, qs
        <5> QED  BY <4>2 DEF UnitsOf
      <4>4. Cardinality(UnitsOf(qs, On(rs, t))) <= Cardinality(UnitsOf(qs, On(qs, t)))
        <5> HIDE DEF rs, qs
        <5> QED  BY <4>1, <3>1, FewerUnits
      <4>5. Cardinality(UnitsOf(qs, On(rs, t))) \in Nat /\ Cardinality(UnitsOf(qs, On(qs, t))) \in Nat
        <5>1. On(rs, t) \in SUBSET Ids  BY <4>1
        <5> HIDE DEF rs, qs
        <5> QED  BY <4>1, <5>1, <3>1, FinitelyManyUnits
      <4>6. Cardinality(UnitsOf(qs, On(qs, t))) <= Capacity  BY <1>6 DEF WithinCapacity
      <4> HIDE DEF rs, qs
      <4> QED  BY <4>3, <4>4, <4>5, <4>6, BrokerAssumption
    <3>3. CASE t = l
      <4> DEFINE S == Counted(ps, l, Now(w))
      <4>1. S \in SUBSET Ids  BY DEF Counted, On
      <4>2. On(rs, l) = S \union {i}
        <5>1. ASSUME NEW j \in Ids \ {i} PROVE j \in On(rs, l) <=> j \in S
          BY <5>1, <2>4, <2>5 DEF On, Counted, Pruned, Unused
        <5>2. i \in On(rs, l)  BY <2>2, <2>5 DEF On
        <5> QED  BY <5>1, <5>2, <4>1, <2>2 DEF On
      <4>3. \A j \in S \ {i} : rs[j].weight = ps[j].weight
        BY <2>5 DEF On, Counted, Pruned
      <4>4. \A j \in Ids : ps[j].weight \in Nat  BY DEF Permit
      <4>5. Weight[w] \in Nat /\ rs[i].weight = Weight[w]  BY <2>5, BrokerAssumption
      <4>6. Cardinality(UnitsOf(rs, S \union {i})) <= Cardinality(UnitsOf(ps, S)) + Weight[w]
        <5> HIDE DEF rs, S
        <5> QED  BY <4>1, <4>3, <4>4, <4>5, <2>2, OneMore
      <4>7. Cardinality(UnitsOf(ps, S)) + Weight[w] <= Capacity  BY <1>8 DEF Fits
      <4>8. Cardinality(UnitsOf(ps, S)) \in Nat
        <5> HIDE DEF S
        <5> QED  BY <4>1, <4>4, FinitelyManyUnits
      <4>9. Cardinality(UnitsOf(rs, S \union {i})) \in Nat
        <5>1. \A j \in Ids : rs[j].weight \in Nat  BY <2>3 DEF Permit
        <5>2. S \union {i} \in SUBSET Ids  BY <4>1, <2>2
        <5> HIDE DEF rs, S
        <5> QED  BY <5>1, <5>2, FinitelyManyUnits
      <4> HIDE DEF rs, S
      <4> QED  BY <3>3, <4>2, <4>5, <4>6, <4>7, <4>8, <4>9, BrokerAssumption
    <3> QED  BY <3>2, <3>3
  <2> QED  BY <2>1, <2>2, <2>3, <2>6
<1> QED  BY <1>7, <1>8

-----------------------------------------------------------------------------
(* No table has more units than the endpoint *)

\* What a failed call leaves on Redis is within the capacity too.
LEMMA Leaving ==
  ASSUME TypeOK, TableWithinCapacity, NEW w \in Work, NEW left \in Left(w)
  PROVE  left.permits \in [Ids -> Permit] /\ WithinCapacity(left.permits)
<1>1. permits \in [Ids -> Permit] /\ WithinCapacity(permits)
  BY DEF TypeOK, TableWithinCapacity, Permit, WithinCapacity
<1>2. CASE left = [permits |-> permits, id |-> NoPermit]  BY <1>1, <1>2
<1>3. ASSUME NEW outcome \in Acquired(permits, Redis, w),
             left = [outcome EXCEPT !.permits =
                       [i \in Ids |-> IF i = outcome.id THEN Abandoned(@[i]) ELSE @[i]]]
      PROVE  left.permits \in [Ids -> Permit] /\ WithinCapacity(left.permits)
  <2> DEFINE ps == outcome.permits
             qs == [i \in Ids |-> IF i = outcome.id THEN Abandoned(ps[i]) ELSE ps[i]]
  <2>1. ps \in [Ids -> Permit] /\ WithinCapacity(ps)
    BY <1>1, Acquiring DEF Tables
  <2>2. left.permits = qs  BY <1>3 DEF Acquired
  <2>3. 0 \in Held..TTL + 1  BY BrokerAssumption DEF Held
  <2>4. \A g \in Permit : Abandoned(g) \in Permit
                         /\ Abandoned(g).on = g.on /\ Abandoned(g).weight = g.weight
    BY <2>3 DEF Abandoned, Permit
  <2>5. qs \in [Ids -> Permit]  BY <2>1, <2>4
  <2>6. \A i \in Ids : qs[i].on = ps[i].on /\ qs[i].weight = ps[i].weight  BY <2>1, <2>4
  <2> HIDE DEF ps, qs
  <2>7. WithinCapacity(qs)  BY <2>1, <2>6, Losing
  <2> QED  BY <2>2, <2>5, <2>7
<1> QED  BY <1>2, <1>3 DEF Left

BrokerInv == TypeOK /\ TableWithinCapacity

LEMMA Alike ==
  /\ TypeOK <=> /\ permits \in [Ids -> Permit] /\ work \in [Work -> Doing] /\ key \in 0..KeyTTL
                /\ orderly \in BOOLEAN
  /\ TableWithinCapacity <=> WithinCapacity(permits)
BY DEF TypeOK, TableWithinCapacity, Permit, Doing, WithinCapacity

LEMMA BrokerInit == Init => BrokerInv
<1> SUFFICES ASSUME Init PROVE BrokerInv  OBVIOUS
<1>1. Unused \in Permit /\ Resting \in Doing /\ 0 \in 0..KeyTTL
  BY BrokerAssumption DEF Unused, Resting, Permit, Doing, Held
<1>2. TypeOK  BY <1>1, Alike DEF Init
<1>3. \A l \in Tables : l # NoTable  BY BrokerAssumption DEF Tables, Redis, NoTable
<1>4. \A l \in Tables : On(permits, l) = {}  BY <1>3 DEF On, Init, Unused
<1>5. UnitsOf(permits, {}) = {}  BY DEF UnitsOf
<1>6. TableWithinCapacity  BY <1>4, <1>5, FS_EmptySet, BrokerAssumption DEF TableWithinCapacity
<1> QED  BY <1>2, <1>6 DEF BrokerInv

\* A delegation that was denied or admitted.
LEMMA Settling ==
  ASSUME work \in [Work -> Doing], NEW w \in Work, NEW outcome,
         outcome.id \in Ids \union {NoPermit}, Settled(w, outcome)
  PROVE  work' \in [Work -> Doing]
<1>0. 0 \in 0..Timeout /\ 0 \in 0..RenewEvery /\ 0 \in 0..MaxMissed  BY BrokerAssumption
<1>1. [Resting EXCEPT !.phase = "running", !.permit = outcome.id] \in Doing
      /\ [Resting EXCEPT !.phase = "running", !.permit = NoPermit] \in Doing /\ Resting \in Doing
  BY <1>0 DEF Resting, Doing
<1>2. [work[w] EXCEPT !.phase = "waiting"] \in Doing  BY DEF Doing
<1>3. [work EXCEPT ![w].phase = "waiting"] = [work EXCEPT ![w] = [work[w] EXCEPT !.phase = "waiting"]]
  OBVIOUS
<1>4. CASE Runs(w, outcome.id)  BY <1>1, <1>4 DEF Runs
<1>5. CASE Denied(w)  BY <1>1, <1>2, <1>3, <1>5 DEF Denied, Runs
<1> QED  BY <1>4, <1>5 DEF Settled

\* What was once out of order stays so.
LEMMA StillOrderly == ASSUME [Next]_vars PROVE orderly' = orderly \/ orderly' = FALSE
BY DEF Next, TryRedis, TryLocal, Renew, End, Tick, Crash, vars

LEMMA BrokerStep == BrokerInv /\ [Next]_vars => BrokerInv'
<1> SUFFICES ASSUME BrokerInv, [Next]_vars PROVE BrokerInv'  OBVIOUS
<1>0. /\ permits \in [Ids -> Permit] /\ work \in [Work -> Doing] /\ key \in 0..KeyTTL
      /\ WithinCapacity(permits)
  BY Alike DEF BrokerInv
<1>10. orderly' \in BOOLEAN  BY StillOrderly, Alike DEF BrokerInv
<1>1. SUFFICES /\ permits' \in [Ids -> Permit] /\ work' \in [Work -> Doing] /\ key' \in 0..KeyTTL
               /\ WithinCapacity(permits')
  BY <1>10 DEF BrokerInv, TypeOK, TableWithinCapacity, Permit, Doing, WithinCapacity
<1>2. KeyTTL \in Nat /\ TTL \in Nat /\ MaxSkew \in Nat /\ Unused \in Permit /\ Resting \in Doing
  BY BrokerAssumption DEF Unused, Resting, Permit, Doing, Held
<1>3. ASSUME NEW w \in Work, TryRedis(w) PROVE <1>1!1
  <2>1. PICK outcome \in Acquired(permits, Redis, w) : Settled(w, outcome) /\ key' = KeyAfter(outcome)
    BY <1>3 DEF TryRedis
  <2>2. /\ outcome.permits \in [Ids -> Permit] /\ WithinCapacity(outcome.permits)
        /\ outcome.id \in Ids \union {NoPermit}
    BY <1>0, Acquiring DEF Tables
  <2>3. work' \in [Work -> Doing]  BY <1>0, <2>1, <2>2, Settling
  <2> QED  BY <1>0, <1>2, <2>1, <2>2, <2>3 DEF Settled, KeyAfter
<1>4. ASSUME NEW w \in Work, TryLocal(w) PROVE <1>1!1
  <2>1. PICK left \in Left(w) : \E outcome \in Acquired(left.permits, Home[w], w) :
               Settled(w, outcome) /\ key' = KeyAfter(left)
    BY <1>4 DEF TryLocal
  <2>2. PICK outcome \in Acquired(left.permits, Home[w], w) :
               Settled(w, outcome) /\ key' = KeyAfter(left)
    BY <2>1
  <2>3. left.permits \in [Ids -> Permit] /\ WithinCapacity(left.permits)
    BY Leaving DEF BrokerInv
  <2>4. Home[w] \in Tables  BY BrokerAssumption DEF Tables
  <2>5. /\ outcome.permits \in [Ids -> Permit] /\ WithinCapacity(outcome.permits)
        /\ outcome.id \in Ids \union {NoPermit}
    BY <2>3, <2>4, Acquiring
  <2>6. work' \in [Work -> Doing]  BY <1>0, <2>2, <2>5, Settling
  <2> QED  BY <1>0, <1>2, <2>2, <2>5, <2>6 DEF Settled, KeyAfter
<1>5. ASSUME NEW w \in Work, Renew(w) PROVE <1>1!1
  <2> DEFINE i == work[w].permit
  <2>1. i \in Ids  BY <1>0, <1>5 DEF Renew, Due, Holds, Doing
  <2>2. work' \in [Work -> Doing]
    <3>0. 0 \in 0..RenewEvery /\ 0 \in 0..MaxMissed /\ work[w] \in Doing  BY <1>0, BrokerAssumption
    <3>1. [work[w] EXCEPT !.age = 0, !.missed = 0] \in Doing  BY <3>0 DEF Doing
    <3>4. work[w].missed < MaxMissed => work[w].missed + 1 \in 0..MaxMissed
      BY <3>0, BrokerAssumption DEF Doing
    <3>2. work[w].missed < MaxMissed => [work[w] EXCEPT !.age = 0, !.missed = @ + 1] \in Doing
      BY <3>0, <3>4 DEF Doing
    <3>3. \/ work' = [work EXCEPT ![w] = [work[w] EXCEPT !.age = 0, !.missed = 0]]
          \/ /\ work[w].missed < MaxMissed
             /\ work' = [work EXCEPT ![w] = [work[w] EXCEPT !.age = 0, !.missed = @ + 1]]
      BY <1>0, <1>5 DEF Renew
    <3> QED  BY <1>0, <3>1, <3>2, <3>3
  <2>3. CASE UNCHANGED <<permits, key>>  BY <1>0, <2>2, <2>3
  <2>4. CASE /\ permits' = [permits EXCEPT ![i].rest = TTL + Now(w)]
             /\ key' = IF permits[i].on = Redis THEN KeyTTL ELSE key
    <3>1. TTL + Now(w) \in -MaxSkew..TTL + MaxSkew  BY BrokerAssumption DEF Now
    <3>2. [permits[i] EXCEPT !.rest = TTL + Now(w)] \in Permit  BY <1>0, <2>1, <3>1 DEF Permit
    <3>3. permits' = [permits EXCEPT ![i] = [permits[i] EXCEPT !.rest = TTL + Now(w)]]  BY <2>4
    <3>4. permits' \in [Ids -> Permit]  BY <1>0, <3>2, <3>3
    <3>5. \A j \in Ids : permits'[j].on = permits[j].on /\ permits'[j].weight = permits[j].weight
      BY <1>0, <2>1, <3>2, <3>3 DEF Permit
    <3>6. WithinCapacity(permits')  BY <1>0, <3>5, Losing
    <3>7. key' \in 0..KeyTTL  BY <1>0, <1>2, <2>4
    <3> QED  BY <2>2, <3>4, <3>6, <3>7
  <2> QED  BY <1>5, <2>3, <2>4 DEF Renew, Renewed
<1>6. ASSUME NEW w \in Work, End(w) PROVE <1>1!1
  <2> DEFINE i == work[w].permit
  <2>1. work' \in [Work -> Doing] /\ key' = key  BY <1>0, <1>2, <1>6 DEF End
  <2>2. CASE UNCHANGED permits  BY <1>0, <2>1, <2>2
  <2>3. CASE i \in Ids /\ permits' = [permits EXCEPT ![i] = Unused]
    <3>1. permits' \in [Ids -> Permit]  BY <1>0, <1>2, <2>3
    <3>2. \A j \in Ids : permits'[j].on # NoTable =>
            permits'[j].on = permits[j].on /\ permits'[j].weight = permits[j].weight
      BY <1>0, <2>3 DEF Unused
    <3>3. WithinCapacity(permits')  BY <1>0, <3>2, Losing
    <3> QED  BY <1>0, <2>1, <3>1, <3>3
  <2>4. CASE i \in Ids /\ permits' = [permits EXCEPT ![i] = Abandoned(@)]
    <3>1. Abandoned(permits[i]) \in Permit /\ Abandoned(permits[i]).on = permits[i].on
          /\ Abandoned(permits[i]).weight = permits[i].weight
      BY <1>0, <1>2, <2>4 DEF Abandoned, Permit, Held
    <3>2. permits' \in [Ids -> Permit]  BY <1>0, <2>4, <3>1
    <3>3. \A j \in Ids : permits'[j].on = permits[j].on /\ permits'[j].weight = permits[j].weight
      BY <1>0, <2>4, <3>1
    <3>4. WithinCapacity(permits')  BY <1>0, <3>3, Losing
    <3> QED  BY <1>0, <2>1, <3>2, <3>4
  <2>5. Holds(w) => i \in Ids  BY <1>0 DEF Holds, Doing
  <2> QED  BY <1>6, <2>2, <2>3, <2>4, <2>5 DEF End, Released
<1>7. CASE Tick
  <2>1. ASSUME NEW g \in Permit
        PROVE  Older(g) \in Permit /\ Older(g).on = g.on /\ Older(g).weight = g.weight
    <3> DEFINE r == IF g.rest > -MaxSkew THEN g.rest - 1 ELSE g.rest
               n == IF g.gone \in 0..TTL THEN g.gone + 1 ELSE g.gone
    <3>1. g.rest \in -MaxSkew..TTL + MaxSkew /\ g.gone \in Held..TTL + 1  BY DEF Permit
    <3>2. r \in -MaxSkew..TTL + MaxSkew /\ n \in Held..TTL + 1  BY <1>2, <3>1 DEF Held
    <3>3. Older(g) = [g EXCEPT !.rest = r, !.gone = n]  BY DEF Older
    <3> HIDE DEF r, n
    <3> QED  BY <3>2, <3>3 DEF Permit
  <2>2. \A g \in Permit : Aged(g) = Unused \/ Aged(g) = Older(g)  BY DEF Aged
  <2>3. permits' = [i \in Ids |-> Aged(permits[i])]  BY <1>7 DEF Tick
  <2>4. permits' \in [Ids -> Permit]  BY <1>0, <1>2, <2>1, <2>2, <2>3
  <2>5. \A i \in Ids : permits'[i].on # NoTable =>
          permits'[i].on = permits[i].on /\ permits'[i].weight = permits[i].weight
    <3> SUFFICES ASSUME NEW i \in Ids, permits'[i].on # NoTable
                 PROVE  permits'[i].on = permits[i].on /\ permits'[i].weight = permits[i].weight
      OBVIOUS
    <3>1. permits[i] \in Permit /\ permits'[i] = Aged(permits[i])  BY <1>0, <2>3
    <3>2. Aged(permits[i]) = Older(permits[i])  BY <2>2, <3>1 DEF Unused
    <3> QED  BY <2>1, <3>1, <3>2
  <2>6. WithinCapacity(permits')  BY <1>0, <2>5, Losing
  <2>7. key' \in 0..KeyTTL
    <3>1. key' = IF key = 0 THEN 0 ELSE key - 1  BY <1>7 DEF Tick
    <3>2. key \in 0..KeyTTL  BY <1>0
    <3> QED  BY <1>2, <3>1, <3>2
  <2>8. work' \in [Work -> Doing]
    <3> SUFFICES ASSUME NEW w \in Work PROVE work'[w] \in Doing
      BY <1>7 DEF Tick
    <3>1. PICK m \in 0..Timeout, a \in 0..RenewEvery :
             work'[w] = [work[w] EXCEPT !.waited = m, !.age = a]
      <4>1. work[w] \in Doing  BY <1>0
      <4>2. work[w].waited < Timeout => work[w].waited + 1 \in 0..Timeout
        BY <4>1, BrokerAssumption DEF Doing
      <4>3. work[w].age < RenewEvery => work[w].age + 1 \in 0..RenewEvery
        BY <4>1, BrokerAssumption DEF Doing
      <4>4. work'[w] = [work[w] EXCEPT
              !.waited = IF work[w].phase = "waiting" /\ @ < Timeout THEN @ + 1 ELSE @,
              !.age = IF Holds(w) /\ @ < RenewEvery THEN @ + 1 ELSE @]
        BY <1>7 DEF Tick
      <4>5. work[w].waited \in 0..Timeout /\ work[w].age \in 0..RenewEvery  BY <4>1 DEF Doing
      <4> QED  BY <4>2, <4>3, <4>4, <4>5
    <3> QED  BY <1>0, <3>1 DEF Doing
  <2> QED  BY <2>4, <2>6, <2>7, <2>8
<1>8. ASSUME NEW p \in Processes, Crash(p) PROVE <1>1!1
  <2>1. work' \in [Work -> Doing] /\ key' = key  BY <1>0, <1>2, <1>8 DEF Crash
  <2>2. \A g \in Permit : Abandoned(g) \in Permit /\ Abandoned(g).on = g.on
                         /\ Abandoned(g).weight = g.weight
    BY <1>2 DEF Abandoned, Permit, Held
  <2>3. \A i \in Ids : permits'[i] \in {Unused, Abandoned(permits[i]), permits[i]}  BY <1>8 DEF Crash
  <2>4. permits' \in [Ids -> Permit]
    <3>1. \A i \in Ids : permits'[i] \in Permit  BY <1>0, <1>2, <2>2, <2>3
    <3>2. permits' = [i \in Ids |-> permits'[i]]  BY <1>8 DEF Crash
    <3> QED  BY <3>1, <3>2
  <2>5. \A i \in Ids : permits'[i].on # NoTable =>
          permits'[i].on = permits[i].on /\ permits'[i].weight = permits[i].weight
    BY <1>0, <2>2, <2>3 DEF Unused
  <2>6. WithinCapacity(permits')  BY <1>0, <2>5, Losing
  <2> QED  BY <1>0, <2>1, <2>4, <2>6
<1>9. CASE UNCHANGED vars  BY <1>0, <1>9 DEF vars
<1> QED  BY <1>3, <1>4, <1>5, <1>6, <1>7, <1>8, <1>9 DEF Next

\* Whatever calls and answers are lost, whenever processes stop or stand still, and
\* whatever their clocks say: an acquire of swarm/capacity-broker.ts never admits
\* more units to a table than the endpoint has, and a renewal makes none.
THEOREM Capped == Spec => [](TypeOK /\ TableWithinCapacity)
<1>1. BrokerInv => TypeOK /\ TableWithinCapacity  BY DEF BrokerInv
<1> QED  BY <1>1, BrokerInit, BrokerStep, PTL DEF Spec

-----------------------------------------------------------------------------
(* The delegations that run stay within the capacity *)

\* What the cap on the running delegations depends on beside what orderly records:
\* the clocks agree, and of two renewals in a row at most one is lost.
Timely == MaxSkew = 0 /\ MaxMissed <= 1

\* A running delegation has a permit of its own on Redis, which outlives the next
\* renewal, or the one after it when the last one was lost; and the hash outlives
\* what is in it.
Late(w) == IF work[w].missed = 0 THEN 0 ELSE RenewEvery

Covered(w) ==
  work[w].phase = "running" =>
    /\ work[w].permit \in Ids
    /\ permits[work[w].permit].on = Redis
    /\ permits[work[w].permit].weight = Weight[w]
    /\ permits[work[w].permit].rest + work[w].age + Late(w) >= TTL

CoverInv ==
  /\ \A w \in Work : Covered(w)
  /\ \A w \in Work : work[w].phase # "running" => work[w].permit = NoPermit
  /\ \A v, w \in Work :
       work[v].phase = "running" /\ work[w].phase = "running" /\ v # w
         => work[v].permit # work[w].permit
  /\ \A i \in Ids : permits[i].on = Redis => permits[i].rest <= key

\* The permit of a running delegation has not expired.
LEMMA StillCounted ==
  ASSUME Timely, TypeOK, CoverInv, NEW w \in Work, work[w].phase = "running"
  PROVE  /\ permits[work[w].permit].rest >= RenewEvery
         /\ work[w].age < RenewEvery => permits[work[w].permit].rest > RenewEvery
         /\ RenewEvery > 0
<1> DEFINE r == permits[work[w].permit].rest
<1>1. work[w].age \in 0..RenewEvery  BY DEF TypeOK
<1>2. work[w].permit \in Ids /\ r + work[w].age + Late(w) >= TTL  BY DEF CoverInv, Covered
<1>3. r \in Int  BY <1>2, BrokerAssumption DEF TypeOK
<1>4. Late(w) \in {0, RenewEvery}  BY DEF Late
<1>5. RenewEvery \in Nat \ {0} /\ 3 * RenewEvery <= TTL /\ TTL \in Nat  BY BrokerAssumption
<1> HIDE DEF r
<1>6. r >= RenewEvery /\ (work[w].age < RenewEvery => r > RenewEvery)
  BY <1>1, <1>2, <1>3, <1>4, <1>5
<1> QED  BY <1>5, <1>6 DEF r

LEMMA CoverInit == Init => CoverInv
BY BrokerAssumption DEF Init, CoverInv, Covered, Resting, Unused, Redis, NoTable

LEMMA CoverStep ==
  ASSUME Timely, BrokerInv, CoverInv, orderly', [Next]_vars
  PROVE  CoverInv'
<1>0. /\ permits \in [Ids -> Permit] /\ work \in [Work -> Doing] /\ key \in 0..KeyTTL
      /\ WithinCapacity(permits) /\ TypeOK
  BY Alike DEF BrokerInv
<1>1. /\ KeyTTL \in Nat /\ TTL \in Nat /\ KeyTTL >= TTL /\ RenewEvery \in Nat \ {0} /\ MaxSkew = 0
      /\ NoPermit \notin Ids /\ MaxMissed \in Nat /\ MaxMissed <= 1
      /\ \A p \in Processes : p # Redis /\ p # NoTable
  BY BrokerAssumption DEF Timely
<1>2. \A w \in Work : Now(w) = 0  BY <1>1, BrokerAssumption DEF Now
<1>3. \A i \in Ids : permits[i].rest \in 0..TTL  BY <1>0, <1>1 DEF Permit
<1>4. ASSUME NEW w \in Work, TryRedis(w) PROVE CoverInv'
  <2>1. PICK outcome \in Acquired(permits, Redis, w) :
               /\ Settled(w, outcome) /\ key' = KeyAfter(outcome)
               /\ ~(outcome.id = NoPermit /\ work'[w].phase = "running")
    BY <1>4 DEF TryRedis
  <2>2. /\ outcome.id \in Ids \union {NoPermit}
        /\ outcome.id # NoPermit =>
             /\ outcome.id \in Free(permits)
             /\ permits' = [Pruned(permits, Redis, 0) EXCEPT ![outcome.id] = Issued(Redis, 0, Weight[w])]
        /\ outcome.id = NoPermit => permits' = Pruned(permits, Redis, 0)
    <3>1. permits' = outcome.permits  BY <2>1 DEF Settled
    <3>2. Redis \in Tables /\ Now(w) = 0  BY <1>2 DEF Tables
    <3>3. /\ outcome.id \in Ids \union {NoPermit}
          /\ outcome.id # NoPermit =>
               /\ outcome.id \in Free(permits)
               /\ outcome.permits = [Pruned(permits, Redis, Now(w)) EXCEPT
                                       ![outcome.id] = Issued(Redis, Now(w), Weight[w])]
          /\ outcome.id = NoPermit => outcome.permits = Pruned(permits, Redis, Now(w))
      BY <1>0, <3>2, Acquiring
    <3> QED  BY <3>1, <3>2, <3>3
  <2>3. work[w].phase # "running" /\ work[w].permit = NoPermit  BY <2>1 DEF Settled, CoverInv
  <2>4. \A i \in Ids : Pruned(permits, Redis, 0)[i] \in {Unused, permits[i]}  BY DEF Pruned
  <2>5. \A v \in Work : work[v].phase = "running" =>
          /\ work[v].permit \in Ids
          /\ Pruned(permits, Redis, 0)[work[v].permit] = permits[work[v].permit]
    <3> SUFFICES ASSUME NEW v \in Work, work[v].phase = "running"
                 PROVE  /\ work[v].permit \in Ids
                        /\ Pruned(permits, Redis, 0)[work[v].permit] = permits[work[v].permit]
      OBVIOUS
    <3>1. work[v].permit \in Ids  BY DEF CoverInv, Covered
    <3>2. permits[work[v].permit].rest > 0  BY <1>0, <1>1, <1>3, <3>1, StillCounted
    <3> QED  BY <1>3, <3>1, <3>2 DEF Pruned, Expired
  <2>6. CASE outcome.id = NoPermit
    <3>1. \A i \in Ids : permits'[i] \in {Unused, permits[i]}  BY <2>2, <2>4, <2>6
    <3>2. key' = key  BY <2>1, <2>6 DEF KeyAfter
    <3>3. work'[w].phase # "running" /\ work'[w].permit = NoPermit
          /\ \A v \in Work \ {w} : work'[v] = work[v]
      <4>1. Denied(w) /\ work'[w].phase # "running"  BY <2>1, <2>6 DEF Settled
      <4>2. ~Runs(w, NoPermit)
        <5>1. Runs(w, NoPermit) => work'[w] = [Resting EXCEPT !.phase = "running", !.permit = NoPermit]
          BY <1>0 DEF Runs
        <5> QED  BY <4>1, <5>1 DEF Resting
      <4>3. work' = [work EXCEPT ![w].phase = "waiting"] \/ work' = [work EXCEPT ![w] = Resting]
        BY <4>1, <4>2 DEF Denied
      <4> QED  BY <1>0, <2>3, <4>1, <4>3 DEF Resting, Doing
    <3>4. \A v \in Work : work'[v].phase = "running" =>
            v # w /\ work'[v] = work[v] /\ permits'[work[v].permit] = permits[work[v].permit]
      BY <2>2, <2>5, <2>6, <3>3
    <3>5. \A v \in Work : Covered(v)'  BY <3>4 DEF CoverInv, Covered, Late
    <3>6. \A i \in Ids : permits'[i].on = Redis => permits'[i].rest <= key'
      BY <3>1, <3>2 DEF CoverInv, Unused, Redis, NoTable
    <3> QED  BY <3>3, <3>4, <3>5, <3>6 DEF CoverInv
  <2>7. CASE outcome.id # NoPermit
    <3> DEFINE i == outcome.id
               g == Issued(Redis, 0, Weight[w])
    <3>1. i \in Ids /\ permits[i].on = NoTable /\ \A v \in Work : work[v].permit # i
      BY <2>2, <2>7 DEF Free
    <3>2. permits' = [Pruned(permits, Redis, 0) EXCEPT ![i] = g]  BY <2>2, <2>7
    <3>3. permits'[i] = g /\ \A j \in Ids \ {i} : permits'[j] \in {Unused, permits[j]}
      BY <2>4, <3>1, <3>2 DEF Pruned
    <3>4. g.on = Redis /\ g.rest = TTL /\ g.weight = Weight[w]  BY <1>1 DEF Issued
    <3>5. work' = [work EXCEPT ![w] = [Resting EXCEPT !.phase = "running", !.permit = i]]
      BY <2>1, <2>7 DEF Settled, Runs
    <3>6. /\ work'[w].phase = "running" /\ work'[w].permit = i /\ work'[w].age = 0 /\ work'[w].missed = 0
          /\ \A v \in Work \ {w} : work'[v] = work[v]
      BY <1>0, <3>5 DEF Resting
    <3>7. \A v \in Work \ {w} : work[v].phase = "running" =>
            permits'[work[v].permit] = permits[work[v].permit]
      BY <2>5, <3>1, <3>2
    <3>8. Covered(w)'  BY <1>1, <3>1, <3>3, <3>4, <3>6 DEF Covered, Late
    <3>9. \A v \in Work \ {w} : Covered(v)'  BY <3>6, <3>7 DEF CoverInv, Covered, Late
    <3>10. key' = KeyTTL  BY <2>1, <2>7 DEF KeyAfter
    <3>11. \A j \in Ids : permits'[j].on = Redis => permits'[j].rest <= key'
      BY <1>1, <1>3, <3>3, <3>4, <3>10 DEF Unused, Redis, NoTable
    <3>12. \A v \in Work : work'[v].phase # "running" => work'[v].permit = NoPermit
      BY <3>6 DEF CoverInv
    <3>13. \A u, v \in Work :
             work'[u].phase = "running" /\ work'[v].phase = "running" /\ u # v
               => work'[u].permit # work'[v].permit
      BY <3>1, <3>6 DEF CoverInv
    <3> QED  BY <3>8, <3>9, <3>11, <3>12, <3>13 DEF CoverInv
  <2> QED  BY <2>6, <2>7
<1>5. ASSUME NEW w \in Work PROVE ~TryLocal(w)  BY DEF TryLocal
<1>6. ASSUME NEW w \in Work, Renew(w) PROVE CoverInv'
  <2> DEFINE i == work[w].permit
  <2>1. work[w].phase = "running" /\ work[w].age = RenewEvery  BY <1>6 DEF Renew, Due, Holds
  <2>2. i \in Ids /\ permits[i].on = Redis /\ permits[i].weight = Weight[w]
        /\ permits[i].rest + RenewEvery + Late(w) >= TTL
    BY <2>1 DEF CoverInv, Covered
  <2>3. permits[i].rest > 0  BY <1>0, <1>1, <1>3, <2>1, <2>2, StillCounted
  <2>4. /\ work'[w].phase = "running" /\ work'[w].permit = i /\ work'[w].age = 0
        /\ \A v \in Work \ {w} : work'[v] = work[v]
    BY <1>0, <1>6, <2>1 DEF Renew, Doing
  <2>5. \A v \in Work : work'[v].phase = work[v].phase /\ work'[v].permit = work[v].permit
    BY <2>1, <2>4
  <2>6. CASE Renewed(i, w) /\ work' = [work EXCEPT ![w].age = 0, ![w].missed = 0]
    <3>1. permits' = [permits EXCEPT ![i].rest = TTL] /\ key' = KeyTTL
      BY <1>1, <1>2, <1>3, <2>2, <2>3, <2>6 DEF Renewed, Expired, Redis, NoTable
    <3>2. /\ permits'[i].on = Redis /\ permits'[i].weight = Weight[w] /\ permits'[i].rest = TTL
          /\ \A j \in Ids \ {i} : permits'[j] = permits[j]
      BY <1>0, <2>2, <3>1 DEF Permit
    <3>3. work'[w].missed = 0  BY <1>0, <2>6 DEF Doing
    <3>4. Covered(w)'  BY <1>1, <2>2, <2>4, <3>2, <3>3 DEF Covered, Late
    <3>5. \A v \in Work \ {w} : work[v].phase = "running" => work[v].permit \in Ids \ {i}
      BY <2>1 DEF CoverInv, Covered
    <3>6. \A v \in Work \ {w} : Covered(v)'  BY <2>4, <3>2, <3>5 DEF CoverInv, Covered, Late
    <3>7. \A j \in Ids : permits'[j].on = Redis => permits'[j].rest <= key'
      BY <1>1, <1>3, <3>1, <3>2
    <3> QED  BY <2>5, <3>4, <3>6, <3>7 DEF CoverInv
  <2>7. CASE /\ work[w].missed < MaxMissed
             /\ work' = [work EXCEPT ![w].age = 0, ![w].missed = @ + 1]
             /\ UNCHANGED <<permits, key>>
    <3>1. work[w].missed = 0 /\ work'[w].missed = 1  BY <1>0, <1>1, <2>7 DEF Doing
    <3>2. permits[i].rest + RenewEvery >= TTL
      <4>1. Late(w) = 0  BY <3>1 DEF Late
      <4>2. permits[i].rest \in Int  BY <1>3, <2>2
      <4> QED  BY <1>1, <2>2, <4>1, <4>2
    <3>3. Covered(w)'
      <4>1. Late(w)' = RenewEvery  BY <3>1 DEF Late
      <4> QED  BY <1>1, <1>3, <2>2, <2>4, <2>7, <3>2, <4>1 DEF Covered
    <3>4. \A v \in Work \ {w} : Covered(v)'  BY <2>4, <2>7 DEF CoverInv, Covered, Late
    <3>5. permits' = permits /\ key' = key  BY <2>7
    <3>6. \A v \in Work : Covered(v)'  BY <3>3, <3>4
    <3>7. \A j \in Ids : permits'[j].on = Redis => permits'[j].rest <= key'  BY <3>5 DEF CoverInv
    <3> QED  BY <2>5, <3>6, <3>7 DEF CoverInv
  <2> QED  BY <1>6, <2>6, <2>7 DEF Renew
<1>7. ASSUME NEW w \in Work, End(w) PROVE CoverInv'
  <2> DEFINE i == work[w].permit
  <2>1. work[w].phase = "running" /\ key' = key  BY <1>7 DEF End
  <2>2. i \in Ids  BY <2>1 DEF CoverInv, Covered
  <2>3. work'[w] = Resting /\ \A v \in Work \ {w} : work'[v] = work[v]  BY <1>0, <1>7 DEF End
  <2>4. \A j \in Ids \ {i} : permits'[j] = permits[j]
    BY <1>0, <1>1, <1>7, <2>1, <2>2 DEF End, Released, Holds
  <2>5. permits'[i].on = Redis => permits'[i].rest = permits[i].rest /\ permits[i].on = Redis
    <3>1. \/ permits' = [permits EXCEPT ![i] = Unused]
          \/ permits' = [permits EXCEPT ![i] = Abandoned(@)]
      BY <1>1, <1>7, <2>1, <2>2 DEF End, Released, Holds
    <3>2. Abandoned(permits[i]).on = permits[i].on /\ Abandoned(permits[i]).rest = permits[i].rest
      BY <1>0, <2>2 DEF Abandoned, Permit
    <3> QED  BY <1>0, <2>2, <3>1, <3>2 DEF Unused, Redis, NoTable
  <2>6. \A v \in Work : work'[v].phase = "running" =>
          v # w /\ work'[v] = work[v] /\ work[v].permit \in Ids \ {i}
    BY <2>1, <2>3 DEF CoverInv, Covered, Resting
  <2>7. \A v \in Work : Covered(v)'  BY <2>4, <2>6 DEF CoverInv, Covered, Late
  <2>8. \A j \in Ids : permits'[j].on = Redis => permits'[j].rest <= key'
    BY <2>1, <2>2, <2>4, <2>5 DEF CoverInv
  <2> QED  BY <2>3, <2>6, <2>7, <2>8 DEF CoverInv, Resting
<1>8. CASE Tick
  <2>1. \A w \in Work : ~Due(w)  BY <1>8 DEF Tick
  <2>2. \A w \in Work : work'[w].phase = work[w].phase /\ work'[w].permit = work[w].permit
                       /\ work'[w].missed = work[w].missed
    BY <1>0, <1>8 DEF Tick, Doing
  <2>3. \A i \in Ids : permits'[i] = Aged(permits[i])  BY <1>8 DEF Tick
  <2>4. ASSUME NEW i \in Ids, Aged(permits[i]) = Older(permits[i])
        PROVE  /\ permits'[i].on = permits[i].on /\ permits'[i].weight = permits[i].weight
               /\ permits'[i].rest = IF permits[i].rest > 0 THEN permits[i].rest - 1 ELSE permits[i].rest
    <3>1. permits[i] \in Permit /\ permits'[i] = Older(permits[i])  BY <1>0, <2>3, <2>4
    <3> QED  BY <1>1, <3>1 DEF Older, Permit
  <2>5. ASSUME NEW w \in Work, work[w].phase = "running" PROVE Covered(w)'
    <3> DEFINE i == work[w].permit
    <3>1. /\ i \in Ids /\ permits[i].on = Redis /\ permits[i].weight = Weight[w]
          /\ permits[i].rest + work[w].age + Late(w) >= TTL
      BY <2>5 DEF CoverInv, Covered
    <3>2. Holds(w)  BY <1>1, <2>5, <3>1 DEF Holds
    <3>3. work[w].age \in 0..RenewEvery /\ work[w].age # RenewEvery
      BY <1>0, <2>1, <3>2 DEF Due, Doing
    <3>4. permits[i].rest > RenewEvery  BY <1>0, <1>1, <2>5, <3>3, StillCounted
    <3>5. permits[i].rest <= key  BY <3>1 DEF CoverInv
    <3>6. key # 1 /\ permits[i].rest \in 0..TTL  BY <1>0, <1>1, <1>3, <3>1, <3>4, <3>5
    <3>7. permits'[i].on = Redis /\ permits'[i].weight = Weight[w]
          /\ permits'[i].rest = permits[i].rest - 1
      BY <1>1, <2>4, <3>1, <3>4, <3>6 DEF Aged
    <3>8. work'[w].age = work[w].age + 1
      <4>1. work[w] \in Doing  BY <1>0
      <4>2. work'[w].age = IF Holds(w) /\ work[w].age < RenewEvery THEN work[w].age + 1 ELSE work[w].age
        BY <1>8, <4>1 DEF Tick, Doing
      <4> QED  BY <1>1, <3>2, <3>3, <4>2
    <3>9. Late(w)' = Late(w) /\ Late(w) \in Int  BY <1>1, <2>2 DEF Late
    <3>10. permits'[i].rest + work'[w].age + Late(w)' >= TTL
      BY <1>1, <3>1, <3>3, <3>6, <3>7, <3>8, <3>9
    <3>11. work'[w].permit = i  BY <2>2
    <3> QED  BY <3>1, <3>7, <3>10, <3>11 DEF Covered
  <2>6. \A w \in Work : Covered(w)'
    <3>1. \A w \in Work : work[w].phase # "running" => Covered(w)'  BY <2>2 DEF Covered
    <3> QED  BY <2>5, <3>1
  <2>7. ASSUME NEW i \in Ids, permits'[i].on = Redis PROVE permits'[i].rest <= key'
    <3>1. Aged(permits[i]) = Older(permits[i])
      BY <2>3, <2>7 DEF Aged, Unused, Redis, NoTable
    <3>2. permits[i].on = Redis /\ permits'[i].rest =
            IF permits[i].rest > 0 THEN permits[i].rest - 1 ELSE permits[i].rest
      BY <2>4, <2>7, <3>1
    <3>3. permits[i].rest <= key /\ permits[i].rest \in 0..TTL /\ key \in 0..KeyTTL
      BY <1>0, <1>3, <3>2 DEF CoverInv
    <3>4. key' = IF key = 0 THEN 0 ELSE key - 1  BY <1>8 DEF Tick
    <3> QED  BY <1>1, <3>2, <3>3, <3>4
  <2> QED  BY <2>2, <2>6, <2>7 DEF CoverInv
<1>9. ASSUME NEW p \in Processes, Crash(p) PROVE CoverInv'
  <2>1. \A w \in Work : work'[w] = IF Home[w] = p THEN Resting ELSE work[w]  BY <1>9 DEF Crash
  <2>2. \A i \in Ids : Abandoned(permits[i]).on = permits[i].on
                      /\ Abandoned(permits[i]).rest = permits[i].rest
                      /\ Abandoned(permits[i]).weight = permits[i].weight
    BY <1>0 DEF Abandoned, Permit
  <2>3. ASSUME NEW i \in Ids
        PROVE  \/ permits[i].on = p /\ permits'[i] = Unused
               \/ permits[i].on # p /\ permits'[i] \in {Abandoned(permits[i]), permits[i]}
    <3>1. permits'[i] = IF permits[i].on = p THEN Unused
                        ELSE IF \E w \in Work : Home[w] = p /\ work[w].permit = i
                             THEN Abandoned(permits[i]) ELSE permits[i]
      BY <1>9 DEF Crash
    <3> QED  BY <3>1
  <2>4. \A v \in Work : work'[v].phase = "running" => work'[v] = work[v]  BY <2>1 DEF Resting
  <2>5. ASSUME NEW v \in Work, work'[v].phase = "running" PROVE Covered(v)'
    <3>1. work'[v] = work[v]  BY <2>4, <2>5
    <3>2. work[v].permit \in Ids /\ permits[work[v].permit].on = Redis
      BY <2>5, <3>1 DEF CoverInv, Covered
    <3>3. /\ permits'[work[v].permit].on = Redis
          /\ permits'[work[v].permit].rest = permits[work[v].permit].rest
          /\ permits'[work[v].permit].weight = permits[work[v].permit].weight
      BY <1>1, <2>2, <2>3, <3>2
    <3> QED  BY <2>5, <3>1, <3>2, <3>3 DEF CoverInv, Covered, Late
  <2>6. \A v \in Work : Covered(v)'  BY <2>5 DEF Covered
  <2>7. \A i \in Ids : permits'[i].on = Redis => permits'[i].rest <= key'
    BY <1>9, <2>2, <2>3 DEF CoverInv, Crash, Unused, Redis, NoTable
  <2> QED  BY <2>1, <2>4, <2>6, <2>7 DEF CoverInv, Resting
<1>10. CASE UNCHANGED vars  BY <1>10 DEF vars, CoverInv, Covered, Late
<1> QED  BY <1>4, <1>5, <1>6, <1>7, <1>8, <1>9, <1>10 DEF Next

\* The units the running delegations occupy are units of permits on Redis.
LEMMA OccupiedOnRedis == BrokerInv /\ CoverInv => OneCap
<1> SUFFICES ASSUME BrokerInv, CoverInv PROVE OneCap  OBVIOUS
<1> DEFINE U == UnitsOf(permits, On(permits, Redis))
           f == [o \in Occupied |-> <<work[o[1]].permit, o[2]>>]
<1>0. permits \in [Ids -> Permit] /\ WithinCapacity(permits)  BY Alike DEF BrokerInv
<1>1. \A o \in Occupied : \E w \in Work, k \in Int :
        o = <<w, k>> /\ work[w].phase = "running" /\ k \in 1..Weight[w]
  BY DEF Occupied
<1>2. \A o \in Occupied : f[o] \in U
  <2> SUFFICES ASSUME NEW o \in Occupied PROVE f[o] \in U  OBVIOUS
  <2>1. PICK w \in Work, k \in Int : o = <<w, k>> /\ work[w].phase = "running" /\ k \in 1..Weight[w]
    BY <1>1
  <2>2. work[w].permit \in On(permits, Redis) /\ permits[work[w].permit].weight = Weight[w]
    BY <2>1 DEF CoverInv, Covered, On
  <2>3. f[o] = <<work[w].permit, k>>  BY <2>1
  <2> QED  BY <2>1, <2>2, <2>3 DEF UnitsOf
<1>3. \A o, n \in Occupied : f[o] = f[n] => o = n
  <2> SUFFICES ASSUME NEW o \in Occupied, NEW n \in Occupied, f[o] = f[n] PROVE o = n
    OBVIOUS
  <2>1. PICK w \in Work, k \in Int : o = <<w, k>> /\ work[w].phase = "running"  BY <1>1
  <2>2. PICK v \in Work, j \in Int : n = <<v, j>> /\ work[v].phase = "running"  BY <1>1
  <2>3. work[w].permit = work[v].permit /\ k = j  BY <2>1, <2>2
  <2> QED  BY <2>1, <2>2, <2>3 DEF CoverInv
<1>4. f \in Injection(Occupied, U)
  <2>1. f \in [Occupied -> U]  BY <1>2
  <2> HIDE DEF f, U
  <2> QED  BY <1>3, <2>1 DEF Injection, IsInjective
<1>5. IsFiniteSet(U) /\ Cardinality(U) \in Nat /\ Cardinality(U) <= Capacity
  <2>1. On(permits, Redis) \in SUBSET Ids  BY DEF On
  <2>2. \A i \in Ids : permits[i].weight \in Nat  BY <1>0 DEF Permit
  <2>3. IsFiniteSet(U) /\ Cardinality(U) \in Nat  BY <2>1, <2>2, FinitelyManyUnits
  <2> QED  BY <1>0, <2>3 DEF WithinCapacity, Tables
<1> HIDE DEF f, U
<1>6. IsFiniteSet(Occupied) /\ Cardinality(Occupied) <= Cardinality(U)  BY <1>4, <1>5, FS_Injection
<1>7. Cardinality(Occupied) \in Nat  BY <1>6, FS_CardinalityType
<1> QED  BY <1>5, <1>6, <1>7, BrokerAssumption DEF OneCap

\* "two processes honor one provider cap" (swarm/capacity-broker.ts): with clocks
\* that agree and no two renewals in a row lost, the delegations that run in however
\* many processes never occupy more units than the endpoint has, as long as Redis
\* decides every acquire, refusals are obeyed and renewals are in time.
THEOREM OneProviderCap == ASSUME Timely PROVE Spec => []OneCap
<1> DEFINE Inv == BrokerInv /\ (orderly => CoverInv)
<1>1. Init => Inv  BY BrokerInit, CoverInit
<1>2. Inv /\ [Next]_vars => Inv'
  <2> SUFFICES ASSUME Inv, [Next]_vars PROVE BrokerInv' /\ (orderly' => CoverInv')
    OBVIOUS
  <2>1. BrokerInv'  BY BrokerStep
  <2>2. ASSUME orderly' PROVE CoverInv'
    <3>1. orderly  BY <2>2, StillOrderly
    <3> QED  BY <2>2, <3>1, CoverStep
  <2> QED  BY <2>1, <2>2
<1>3. Inv => OneCap  BY OccupiedOnRedis DEF OneCap
<1> HIDE DEF Inv
<1> QED  BY <1>1, <1>2, <1>3, PTL DEF Spec

-----------------------------------------------------------------------------
(* A permit whose holder went away is not counted for longer than its TTL. *)

\* What is left of a permit, where no clock is ahead by more than d: no more
\* than a TTL, and less by every tick its holder is away.
Fading(g, d) ==
  /\ g.rest <= TTL + d
  /\ g.gone # Held => g.rest + g.gone <= TTL + d \/ g.rest = -MaxSkew

\* Who holds a permit is there, and nobody else holds it: no timer extends a
\* permit whose holder went away.
FadingInv(d) ==
  /\ \A i \in Ids : Fading(permits[i], d)
  /\ \A w \in Work : work[w].permit # NoPermit => permits[work[w].permit].gone = Held
  /\ \A u, v \in Work : u # v /\ work[u].permit = work[v].permit => work[u].permit = NoPermit

\* No clock of a process is ahead by more than d.
Ahead(d) == d \in -MaxSkew..MaxSkew /\ \A p \in Processes : Skew[p] <= d

\* What an acquire makes of a table: whatever is on it still fades, and whoever
\* holds a permit still does.  A new permit was nobody's.
LEMMA AcquireFades ==
  ASSUME NEW d, Ahead(d), NEW ps \in [Ids -> Permit], \A i \in Ids : Fading(ps[i], d),
         WithinCapacity(ps), NEW l \in Tables, NEW w \in Work, NEW outcome \in Acquired(ps, l, w)
  PROVE  /\ \A i \in Ids : Fading(outcome.permits[i], d)
         /\ \A i \in Ids : ps[i].gone = Held => outcome.permits[i].gone = Held
         /\ outcome.id # NoPermit =>
              /\ outcome.id \in Free(ps)
              /\ outcome.permits[outcome.id].gone = Held /\ outcome.permits[outcome.id].on = l
<1>0. /\ outcome.id # NoPermit =>
           /\ outcome.id \in Free(ps)
           /\ outcome.permits = [Pruned(ps, l, Now(w)) EXCEPT ![outcome.id] = Issued(l, Now(w), Weight[w])]
      /\ outcome.id = NoPermit => outcome.permits = Pruned(ps, l, Now(w))
  BY Acquiring, ZenonT(40)
<1> DEFINE qs == Pruned(ps, l, Now(w))
           g == Issued(l, Now(w), Weight[w])
<1>1. Now(w) \in Int /\ Now(w) <= d /\ d \in Int /\ -MaxSkew <= d /\ MaxSkew \in Nat /\ TTL \in Nat
  BY BrokerAssumption DEF Now, Ahead
<1>2. Fading(Unused, d) /\ Unused.gone = Held  BY <1>1 DEF Fading, Unused, Held
<1>3. Fading(g, d) /\ g.gone = Held /\ g.on = l  BY <1>1 DEF Fading, Issued
<1>4. /\ DOMAIN qs = Ids
      /\ \A i \in Ids : qs[i] \in {Unused, ps[i]}
  BY DEF Pruned
<1>5. \A i \in Ids : Fading(qs[i], d) /\ (ps[i].gone = Held => qs[i].gone = Held)
  BY <1>2, <1>4
<1>6. \/ outcome.id = NoPermit /\ outcome.permits = qs
      \/ /\ outcome.id # NoPermit /\ outcome.id \in Free(ps)
         /\ outcome.permits = [qs EXCEPT ![outcome.id] = g]
  BY <1>0, Zenon
<1> HIDE DEF qs, g
<1>7. CASE outcome.id # NoPermit
  <2>1. outcome.id \in Ids  BY <1>6, <1>7 DEF Free
  <2> QED  BY <1>3, <1>4, <1>5, <1>6, <1>7, <2>1
<1> QED  BY <1>5, <1>6, <1>7

\* A delegation that was denied or admitted holds what it held, nothing, or what
\* it was given.
LEMMA SettledHolds ==
  ASSUME work \in [Work -> Doing], NEW w \in Work, NEW outcome, Settled(w, outcome)
  PROVE  /\ \A v \in Work \ {w} : work'[v] = work[v]
         /\ work'[w].permit \in {work[w].permit, NoPermit, outcome.id}
<1>1. CASE Runs(w, outcome.id)  BY <1>1 DEF Runs, Resting
<1>2. CASE Denied(w)
  <2>1. \/ work' = [work EXCEPT ![w].phase = "waiting"]
        \/ work' = [work EXCEPT ![w] = Resting]
        \/ work' = [work EXCEPT ![w] = [Resting EXCEPT !.phase = "running", !.permit = NoPermit]]
    BY <1>2 DEF Denied, Runs
  <2>2. CASE work' = [work EXCEPT ![w].phase = "waiting"]  BY <2>2 DEF Doing
  <2>3. CASE work' = [work EXCEPT ![w] = Resting]  BY <2>3 DEF Resting
  <2>4. CASE work' = [work EXCEPT ![w] = [Resting EXCEPT !.phase = "running", !.permit = NoPermit]]
    BY <2>4 DEF Resting
  <2> QED  BY <2>1, <2>2, <2>3, <2>4
<1> QED  BY <1>1, <1>2 DEF Settled

\* An abandoned permit starts to fade.
LEMMA AbandonedFades ==
  ASSUME NEW d \in Int, NEW g \in Permit, Fading(g, d)
  PROVE  Fading(Abandoned(g), d)
<1>1. CASE g.on = NoTable  BY <1>1 DEF Abandoned
<1>2. CASE g.on # NoTable
  <2>1. Abandoned(g).rest = g.rest /\ Abandoned(g).gone = 0  BY <1>2 DEF Abandoned, Permit
  <2>2. g.rest \in Int /\ g.rest + 0 = g.rest  BY BrokerAssumption DEF Permit
  <2> QED  BY <2>1, <2>2 DEF Fading
<1> QED  BY <1>1, <1>2

LEMMA TickFades ==
  ASSUME NEW d \in Int, NEW g \in Permit, Fading(g, d)
  PROVE  Fading(Older(g), d) /\ (g.gone = Held => Older(g).gone = Held)
<1>1. MaxSkew \in Nat /\ TTL \in Nat  BY BrokerAssumption
<1>2. g.rest \in -MaxSkew..TTL + MaxSkew /\ g.gone \in Held..TTL + 1  BY DEF Permit
<1>3. /\ Older(g).rest = IF g.rest > -MaxSkew THEN g.rest - 1 ELSE g.rest
      /\ Older(g).gone = IF g.gone \in 0..TTL THEN g.gone + 1 ELSE g.gone
  BY DEF Older, Permit
<1> QED  BY <1>1, <1>2, <1>3 DEF Fading, Held

LEMMA FadingStep ==
  ASSUME NEW d, Ahead(d), BrokerInv, FadingInv(d), [Next]_vars
  PROVE  FadingInv(d)'
<1>0. /\ permits \in [Ids -> Permit] /\ work \in [Work -> Doing] /\ WithinCapacity(permits)
      /\ d \in Int
  BY Alike, BrokerAssumption DEF BrokerInv, Ahead
<1>1. /\ \A i \in Ids : Fading(permits[i], d)
      /\ \A w \in Work : work[w].permit # NoPermit =>
           work[w].permit \in Ids /\ permits[work[w].permit].gone = Held
      /\ \A u, v \in Work : u # v /\ work[u].permit = work[v].permit => work[u].permit = NoPermit
  BY <1>0 DEF FadingInv, Doing
<1>2. NoPermit \notin Ids /\ Redis \in Tables /\ \A l \in Tables : l # NoTable
  BY BrokerAssumption DEF Tables, Redis, NoTable
<1>3. Fading(Unused, d) /\ Unused.gone = Held
  BY <1>0, BrokerAssumption DEF Fading, Unused, Held, Ahead
\* An acquire, from what its call to Redis left behind.
<1>4. ASSUME NEW w \in Work, NEW l \in Tables, NEW ps \in [Ids -> Permit], WithinCapacity(ps),
             \A i \in Ids : Fading(ps[i], d),
             \A v \in Work : work[v].permit # NoPermit => ps[work[v].permit].gone = Held,
             NEW outcome \in Acquired(ps, l, w), Settled(w, outcome)
      PROVE  FadingInv(d)'
  <2>1. /\ \A i \in Ids : Fading(outcome.permits[i], d)
        /\ \A i \in Ids : ps[i].gone = Held => outcome.permits[i].gone = Held
        /\ outcome.id # NoPermit =>
             /\ outcome.id \in Free(ps)
             /\ outcome.permits[outcome.id].gone = Held
    BY <1>4, AcquireFades
  <2>2. permits' = outcome.permits  BY <1>4 DEF Settled
  <2>3. /\ \A v \in Work \ {w} : work'[v] = work[v]
        /\ work'[w].permit \in {work[w].permit, NoPermit, outcome.id}
    BY <1>0, <1>4, SettledHolds
  <2>4. outcome.id # NoPermit => \A v \in Work : work[v].permit # outcome.id
    BY <2>1 DEF Free
  <2>5. \A v \in Work : work'[v].permit # NoPermit => permits'[work'[v].permit].gone = Held
    BY <1>1, <1>4, <2>1, <2>2, <2>3
  <2>6. \A u, v \in Work : u # v /\ work'[u].permit = work'[v].permit => work'[u].permit = NoPermit
    BY <1>1, <2>3, <2>4
  <2> QED  BY <2>1, <2>2, <2>5, <2>6 DEF FadingInv
<1>5. ASSUME NEW w \in Work, TryRedis(w) PROVE FadingInv(d)'
  BY <1>0, <1>1, <1>2, <1>4, <1>5 DEF TryRedis
<1>6. ASSUME NEW w \in Work, TryLocal(w) PROVE FadingInv(d)'
  <2>1. PICK left \in Left(w) : \E outcome \in Acquired(left.permits, Home[w], w) : Settled(w, outcome)
    BY <1>6 DEF TryLocal
  <2>2. left.permits \in [Ids -> Permit] /\ WithinCapacity(left.permits)
    BY Leaving DEF BrokerInv
  <2>3. /\ \A i \in Ids : Fading(left.permits[i], d)
        /\ \A v \in Work : work[v].permit # NoPermit => left.permits[work[v].permit].gone = Held
    <3>1. CASE left = [permits |-> permits, id |-> NoPermit]  BY <1>1, <3>1
    <3>2. ASSUME NEW outcome \in Acquired(permits, Redis, w),
                 left = [outcome EXCEPT !.permits =
                           [i \in Ids |-> IF i = outcome.id THEN Abandoned(@[i]) ELSE @[i]]]
          PROVE  <2>3
      <4> DEFINE ps == outcome.permits
      <4>1. ps \in [Ids -> Permit]  BY <1>0, <1>2, Acquiring
      <4>2. left.permits = [i \in Ids |-> IF i = outcome.id THEN Abandoned(ps[i]) ELSE ps[i]]
        BY <3>2 DEF Acquired
      <4>3. /\ \A i \in Ids : Fading(ps[i], d)
            /\ \A i \in Ids : permits[i].gone = Held => ps[i].gone = Held
            /\ outcome.id # NoPermit => outcome.id \in Free(permits)
        BY <1>0, <1>1, <1>2, AcquireFades
      <4> HIDE DEF ps
      <4>4. \A i \in Ids : Fading(left.permits[i], d)
        BY <1>0, <4>1, <4>2, <4>3, AbandonedFades
      <4>5. ASSUME NEW v \in Work, work[v].permit # NoPermit
            PROVE  left.permits[work[v].permit].gone = Held
        <5>1. work[v].permit # outcome.id  BY <4>3, <4>5 DEF Free
        <5> QED  BY <1>1, <4>2, <4>3, <4>5, <5>1
      <4> QED  BY <4>4, <4>5
    <3> QED  BY <3>1, <3>2 DEF Left
  <2>4. Home[w] \in Tables  BY BrokerAssumption DEF Tables
  <2> QED  BY <1>4, <2>1, <2>2, <2>3, <2>4
\* The other steps: a permit is left as it is, given up, extended by its holder,
\* or ages; nobody gets one.
<1>7. ASSUME \A i \in Ids : Fading(permits'[i], d),
             \A v \in Work : work'[v].permit \in {work[v].permit, NoPermit},
             \A v \in Work : work'[v].permit # NoPermit =>
                permits'[work[v].permit].gone = permits[work[v].permit].gone
      PROVE  FadingInv(d)'
  BY <1>1, <1>7 DEF FadingInv
<1>8. ASSUME NEW w \in Work, Renew(w) PROVE FadingInv(d)'
  <2> DEFINE i == work[w].permit
  <2>1. i \in Ids /\ permits[i].gone = Held  BY <1>1, <1>8 DEF Renew, Due, Holds
  <2>2. \A v \in Work : work'[v].permit = work[v].permit
    BY <1>0, <1>8 DEF Renew, Doing
  <2>3. CASE UNCHANGED permits  BY <1>1, <1>7, <2>2, <2>3
  <2>4. CASE permits' = [permits EXCEPT ![i].rest = TTL + Now(w)]
    <3>1. Now(w) \in Int /\ Now(w) <= d /\ TTL \in Nat
      BY BrokerAssumption DEF Now, Ahead
    <3>2. permits'[i].rest = TTL + Now(w) /\ permits'[i].gone = Held
      BY <1>0, <2>1, <2>4 DEF Permit
    <3>3. Fading(permits'[i], d)  BY <1>0, <3>1, <3>2 DEF Fading
    <3>4. \A j \in Ids \ {i} : permits'[j] = permits[j]  BY <1>0, <2>4
    <3>5. \A j \in Ids : permits'[j].gone = permits[j].gone  BY <2>1, <3>2, <3>4
    <3>6. \A j \in Ids : Fading(permits'[j], d)  BY <1>1, <3>3, <3>4
    <3> QED  BY <1>1, <1>7, <2>2, <3>5, <3>6
  <2> QED  BY <1>8, <2>3, <2>4 DEF Renew, Renewed
<1>9. ASSUME NEW w \in Work, End(w) PROVE FadingInv(d)'
  <2> DEFINE i == work[w].permit
  <2>1. work'[w].permit = NoPermit /\ \A v \in Work \ {w} : work'[v] = work[v]
    BY <1>0, <1>9 DEF End, Resting
  <2>2. CASE UNCHANGED permits  BY <1>1, <1>7, <2>1, <2>2
  <2>3. CASE Holds(w) /\ \E g \in {Unused, Abandoned(permits[i])} : permits' = [permits EXCEPT ![i] = g]
    <3>1. i \in Ids /\ i # NoPermit  BY <1>1, <2>3 DEF Holds
    <3>2. Fading(Abandoned(permits[i]), d)  BY <1>0, <1>1, <3>1, AbandonedFades
    <3>3. \A j \in Ids \ {i} : permits'[j] = permits[j]  BY <1>0, <2>3
    <3>4. \A j \in Ids : Fading(permits'[j], d)  BY <1>0, <1>1, <1>3, <2>3, <3>1, <3>2, <3>3
    <3>5. \A v \in Work \ {w} : work[v].permit # i  BY <1>1, <3>1
    <3> QED  BY <1>1, <1>7, <2>1, <3>3, <3>4, <3>5
  <2> QED  BY <1>9, <2>2, <2>3 DEF End, Released
<1>10. CASE Tick
  <2>1. \A v \in Work : work'[v].permit = work[v].permit
    BY <1>0, <1>10 DEF Tick, Doing
  <2>2. ASSUME NEW i \in Ids
        PROVE  Fading(permits'[i], d) /\ (permits[i].gone = Held => permits'[i].gone = Held)
    <3>1. permits'[i] = Aged(permits[i]) /\ permits[i] \in Permit  BY <1>0, <1>10 DEF Tick
    <3>2. permits'[i] = Unused \/ permits'[i] = Older(permits[i])  BY <3>1 DEF Aged
    <3> QED  BY <1>0, <1>1, <1>3, <3>1, <3>2, TickFades
  <2> QED  BY <1>1, <1>7, <2>1, <2>2
<1>11. ASSUME NEW p \in Processes, Crash(p) PROVE FadingInv(d)'
  <2>1. \A v \in Work : work'[v] = IF Home[v] = p THEN Resting ELSE work[v]
    BY <1>11 DEF Crash
  <2>2. \A i \in Ids : permits'[i] =
          IF permits[i].on = p THEN Unused
          ELSE IF \E w \in Work : Home[w] = p /\ work[w].permit = i
               THEN Abandoned(permits[i]) ELSE permits[i]
    BY <1>11 DEF Crash
  <2>3. \A i \in Ids : Fading(permits'[i], d)
    <3>1. \A i \in Ids : permits'[i] \in {Unused, Abandoned(permits[i]), permits[i]}  BY <2>2
    <3> QED  BY <1>0, <1>1, <1>3, <3>1, AbandonedFades
  <2>4. \A v \in Work : work'[v].permit \in {work[v].permit, NoPermit}
    BY <2>1 DEF Resting
  <2>5. ASSUME NEW v \in Work, work'[v].permit # NoPermit
        PROVE  permits'[work[v].permit].gone = permits[work[v].permit].gone
    <3>1. Home[v] # p /\ work[v].permit # NoPermit  BY <2>1, <2>5 DEF Resting
    <3>2. work[v].permit \in Ids /\ permits[work[v].permit].gone = Held  BY <1>1, <3>1
    <3>3. \A w \in Work : Home[w] = p => work[w].permit # work[v].permit  BY <1>1, <3>1
    <3>4. permits'[work[v].permit] \in {Unused, permits[work[v].permit]}  BY <2>2, <3>2, <3>3
    <3> QED  BY <1>3, <3>2, <3>4
  <2> QED  BY <1>7, <2>3, <2>4, <2>5
<1>12. CASE UNCHANGED vars  BY <1>1, <1>7, <1>12 DEF vars
<1> QED  BY <1>5, <1>6, <1>8, <1>9, <1>10, <1>11, <1>12 DEF Next

LEMMA FadingInit == ASSUME NEW d, Ahead(d) PROVE Init => FadingInv(d)
<1>1. MaxSkew \in Nat /\ TTL \in Nat /\ d \in Int /\ -MaxSkew <= d
  BY BrokerAssumption DEF Ahead
<1>2. Fading(Unused, d)  BY <1>1 DEF Fading, Unused, Held
<1> QED  BY <1>2 DEF Init, FadingInv, Resting

\* With any clocks: a TTL after its holder went away, a permit is not counted by
\* a process whose clock no other is ahead of.
THEOREM FreedOnTheFirstClock ==
  ASSUME NEW p \in Processes, \A q \in Processes : Skew[q] <= Skew[p]
  PROVE  Spec => [](\A i \in Ids : permits[i].gone >= TTL => i \notin Counted(permits, Redis, Skew[p]))
<1> DEFINE d == Skew[p]
<1>1. Ahead(d)  BY BrokerAssumption DEF Ahead
<1>2. ASSUME BrokerInv, FadingInv(d), NEW i \in Ids, permits[i].gone >= TTL
      PROVE  i \notin Counted(permits, Redis, d)
  <2>1. permits[i] \in Permit  BY <1>2, Alike DEF BrokerInv
  <2>2. /\ permits[i].rest \in Int /\ permits[i].gone \in Int
        /\ d \in Int /\ -MaxSkew <= d /\ TTL \in Nat /\ MaxSkew \in Nat
    BY <1>1, <2>1, BrokerAssumption DEF Permit, Ahead, Held
  <2>3. permits[i].gone # Held  BY <1>2, <2>2 DEF Held
  <2>4. permits[i].rest + permits[i].gone <= TTL + d \/ permits[i].rest = -MaxSkew
    BY <1>2, <2>3 DEF FadingInv, Fading
  <2>5. permits[i].rest <= d  BY <1>2, <2>2, <2>4
  <2> QED  BY <2>5 DEF Counted, Expired
<1>3. BrokerInv /\ FadingInv(d) =>
        \A i \in Ids : permits[i].gone >= TTL => i \notin Counted(permits, Redis, d)
  BY <1>2
<1>4. Init => BrokerInv /\ FadingInv(d)  BY <1>1, BrokerInit, FadingInit
<1>5. BrokerInv /\ FadingInv(d) /\ [Next]_vars => BrokerInv' /\ FadingInv(d)'
  BY <1>1, BrokerStep, FadingStep
<1> HIDE DEF d
<1>6. Spec => [](\A i \in Ids : permits[i].gone >= TTL => i \notin Counted(permits, Redis, d))
  BY <1>3, <1>4, <1>5, PTL DEF Spec
<1> QED  BY <1>6 DEF d

\* "a crashed holder frees its units within one TTL" (swarm/capacity-broker.ts):
\* so it does with clocks that agree, whatever is lost, and whoever renews, ends
\* or crashes meanwhile.  Otherwise a clock that is behind counts it for longer.
THEOREM FreedWithinTTL ==
  ASSUME \A p, q \in Processes : Skew[p] = Skew[q]
  PROVE  Spec => []FreedInTTL
<1>1. CASE Processes = {}
  <2>1. FreedInTTL  BY <1>1 DEF FreedInTTL
  <2> QED  BY <2>1, PTL
<1>2. ASSUME NEW p \in Processes PROVE Spec => []FreedInTTL
  <2>1. \A q \in Processes : Skew[q] = Skew[p] /\ Skew[q] <= Skew[p]
    BY BrokerAssumption
  <2>2. (\A i \in Ids : permits[i].gone >= TTL => i \notin Counted(permits, Redis, Skew[p]))
          => FreedInTTL
    BY <2>1 DEF FreedInTTL
  <2>3. Spec => [](\A i \in Ids : permits[i].gone >= TTL =>
                                    i \notin Counted(permits, Redis, Skew[p]))
    BY <2>1, FreedOnTheFirstClock
  <2> QED  BY <2>2, <2>3, PTL
<1> QED  BY <1>1, <1>2

=============================================================================
