------------------------- MODULE MissionBudgetProofs -------------------------
(***************************************************************************)
(* Proofs about MissionBudget, for any delegations, limits, estimates and  *)
(* faults.                                                                 *)
(***************************************************************************)
EXTENDS MissionBudget, FiniteSetTheorems, TLAPS

Amounts == [Dims -> Nat]

\* Why a reservation is dropped only where a child outran the ledger's time: a
\* ledger lives for TTL ticks after the last child it holds reserved.  A child that
\* runs has not lost its reservation.
Holds(c) ==
  /\ child[c].phase = "running"
  /\ child[c].on \in {Redis, Home[c]}
  /\ outran[c] \in {NoLedger, child[c].on}
  /\ outran[c] = NoLedger => child[c].age < TTL /\ ledger[child[c].on].ttl + child[c].age >= TTL
  /\ child[c].on = Redis => ~lost[c]

Outlives == \A c \in Children : child[c].on # NoLedger => Holds(c)

BeforeLoss == \A c \in Children : child[c].phase = "idle" => ~lost[c] /\ outran[c] = NoLedger

-----------------------------------------------------------------------------

LEMMA AmountFacts ==
  ASSUME NEW x \in Amounts, NEW y \in Amounts
  PROVE  /\ Plus(x, y) \in Amounts
         /\ Monus(x, y) \in Amounts
         /\ Zero \in Amounts
BY DEF Plus, Monus, Zero, Amounts

LEMMA ConstantFacts ==
  /\ Redis \in Ledgers /\ NoLedger \notin Ledgers /\ Redis \notin Processes
  /\ \A c \in Children : Home[c] \in Processes /\ Home[c] \in Ledgers /\ Home[c] # Redis
  /\ Reserve \in Amounts /\ Limit \in Amounts /\ Uses \subseteq Amounts
  /\ IsFiniteSet(Children)
BY BudgetAssumption DEF Ledgers, Redis, NoLedger, Amounts

LEMMA LedgerFacts ==
  ASSUME NEW g \in [spent : Amounts, reserved : Amounts, ttl : 0..TTL], NEW actual \in Amounts
  PROVE  /\ Reserved(g) \in [spent : Amounts, reserved : Amounts, ttl : 0..TTL]
         /\ Reconciled(g, actual) \in [spent : Amounts, reserved : Amounts, ttl : 0..TTL]
         /\ Older(g) \in [spent : Amounts, reserved : Amounts, ttl : 0..TTL]
         /\ [g EXCEPT !.ttl = TTL] \in [spent : Amounts, reserved : Amounts, ttl : 0..TTL]
         /\ Empty \in [spent : Amounts, reserved : Amounts, ttl : 0..TTL]
<1>0. TTL \in Nat  BY BudgetAssumption
<1>1. Plus(g.reserved, Reserve) \in Amounts  BY ConstantFacts, AmountFacts
<1>2. Monus(g.reserved, Reserve) \in Amounts  BY ConstantFacts, AmountFacts
<1>3. Plus(g.spent, actual) \in Amounts  BY AmountFacts
<1>4. Zero \in Amounts  BY AmountFacts
<1> DEFINE Ledger == [spent : Amounts, reserved : Amounts, ttl : 0..TTL]
<1>5. /\ g = [spent |-> g.spent, reserved |-> g.reserved, ttl |-> g.ttl]
      /\ g.spent \in Amounts /\ g.reserved \in Amounts /\ g.ttl \in 0..TTL
  OBVIOUS
<1>6. ASSUME NEW s \in Amounts, NEW r \in Amounts, NEW t \in 0..TTL
      PROVE  [spent |-> s, reserved |-> r, ttl |-> t] \in Ledger
  OBVIOUS
<1>7. ASSUME NEW h \in Ledger, NEW r \in Amounts, NEW t \in 0..TTL
      PROVE  [h EXCEPT !.reserved = r, !.ttl = t] \in Ledger
  OBVIOUS
<1>9. Empty \in Ledger  BY <1>0, <1>4 DEF Empty
<1>10. Older(g) \in Ledger
  <2>1. CASE g.ttl <= 1  BY <2>1, <1>9 DEF Older
  <2>2. CASE ~(g.ttl <= 1)
    <3>1. Older(g) = [spent |-> g.spent, reserved |-> g.reserved, ttl |-> g.ttl - 1]
      BY <2>2, <1>5 DEF Older
    <3>2. g.ttl - 1 \in 0..TTL  BY <2>2, <1>5, <1>0
    <3> QED  BY <3>1, <3>2, <1>5
  <2> QED  BY <2>1, <2>2
<1>11. TTL \in 0..TTL  BY <1>0
<1>12. [g EXCEPT !.ttl = TTL] \in Ledger  BY <1>11
<1>13. Reserved(g) \in Ledger
  <2> DEFINE r == Plus(g.reserved, Reserve)
  <2>1. Reserved(g) = [g EXCEPT !.reserved = r, !.ttl = TTL]  BY DEF Reserved
  <2>2. r \in Amounts  BY <1>1
  <2> HIDE DEF r, Ledger
  <2> QED  BY <2>1, <2>2, <1>7, <1>11 DEF Ledger
<1>14. Reconciled(g, actual) \in Ledger
  <2> DEFINE r == Monus(g.reserved, Reserve)
             s == Plus(g.spent, actual)
  <2>1. Reconciled(g, actual) = [g EXCEPT !.reserved = r, !.spent = s, !.ttl = TTL]  BY DEF Reconciled
  <2>2. r \in Amounts /\ s \in Amounts  BY <1>2, <1>3
  <2> HIDE DEF r, s
  <2> QED  BY <2>1, <2>2, <1>11
<1> QED  BY <1>9, <1>10, <1>12, <1>13, <1>14

LEMMA TypeInit == Init => TypeOK
<1>1. Zero \in Amounts  BY ConstantFacts, AmountFacts
<1>2. TTL \in Nat  BY BudgetAssumption
<1> QED  BY <1>1, <1>2 DEF Init, TypeOK, Empty, Amounts

LEMMA TypeStep == TypeOK /\ [Next]_vars => TypeOK'
<1> SUFFICES ASSUME TypeOK, [Next]_vars PROVE TypeOK'  OBVIOUS
<1> DEFINE Ledger == [spent : Amounts, reserved : Amounts, ttl : 0..TTL]
           Child == [phase : {"idle", "running", "refused", "done"},
                     on : Ledgers \union {NoLedger}, age : 0..TTL]
<1>0. /\ ledger \in [Ledgers -> Ledger] /\ child \in [Children -> Child]
      /\ lost \in [Children -> BOOLEAN] /\ used \in Amounts /\ whole \in BOOLEAN
      /\ outran \in [Children -> Ledgers \union {NoLedger}] /\ over \in Amounts
  BY DEF TypeOK, Amounts
<1>c. TTL \in Nat \ {0}  BY BudgetAssumption
<1>r. ASSUME NEW c \in Children, NEW l \in Ledgers \union {NoLedger}, Runs(c, l)
      PROVE child' \in [Children -> Child]
  BY <1>0, <1>c, <1>r DEF Runs
<1>f. ASSUME NEW c \in Children, Refused(c) PROVE child' \in [Children -> Child]
  <2>1. [child EXCEPT ![c].phase = "refused"] \in [Children -> Child]  BY <1>0
  <2> QED  BY <1>f, <1>r, <2>1 DEF Refused
<1>g. ASSUME NEW l \in Ledgers, NEW actual \in Amounts
      PROVE /\ Reserved(ledger[l]) \in Ledger /\ Reconciled(ledger[l], actual) \in Ledger
            /\ Older(ledger[l]) \in Ledger /\ [ledger[l] EXCEPT !.ttl = TTL] \in Ledger
            /\ Empty \in Ledger
  BY <1>0, LedgerFacts
<1>z. Zero \in Amounts  BY ConstantFacts, AmountFacts
<1>e. ASSUME NEW c \in Children PROVE [child EXCEPT ![c].phase = "refused"] \in [Children -> Child]
  BY <1>0
<1> HIDE DEF Ledger, Child
<1> USE ConstantFacts
<1>t. TypeOK' <=> /\ ledger' \in [Ledgers -> Ledger] /\ child' \in [Children -> Child]
                  /\ lost' \in [Children -> BOOLEAN] /\ used' \in Amounts /\ whole' \in BOOLEAN
                  /\ outran' \in [Children -> Ledgers \union {NoLedger}] /\ over' \in Amounts
  BY DEF TypeOK, Amounts, Ledger, Child
<1>1. ASSUME NEW c \in Children, ReserveOnRedis(c) PROVE TypeOK'
  <2>1. ledger' \in [Ledgers -> Ledger]
    <3>1. Reserved(ledger[Redis]) \in Ledger  BY <1>g, <1>z
    <3>2. ledger' = [ledger EXCEPT ![Redis] = Reserved(ledger[Redis])] \/ ledger' = ledger
      BY <1>1 DEF ReserveOnRedis
    <3> QED  BY <3>1, <3>2, <1>0
  <2>2. child' \in [Children -> Child]  BY <1>1, <1>r, <1>f DEF ReserveOnRedis
  <2>3. whole' \in BOOLEAN /\ over' \in Amounts  BY <1>1, <1>0, <1>z DEF ReserveOnRedis, Refused
  <2> QED  BY <1>1, <1>0, <1>t, <2>1, <2>2, <2>3 DEF ReserveOnRedis
<1>2. ASSUME NEW c \in Children, RunUnreserved(c) PROVE TypeOK'
  <2>1. child' \in [Children -> Child]  BY <1>2, <1>r DEF RunUnreserved
  <2> QED  BY <1>2, <1>0, <1>t, <2>1 DEF RunUnreserved
<1>3. ASSUME NEW c \in Children, NEW stray \in BOOLEAN, ReserveLocally(c, stray) PROVE TypeOK'
  <2>1. ledger' \in [Ledgers -> Ledger]
    <3> DEFINE new == IF Fits(Home[c]) THEN Reserved(ledger[Home[c]])
                      ELSE [ledger[Home[c]] EXCEPT !.ttl = TTL]
               red == IF stray THEN Reserved(ledger[Redis]) ELSE ledger[Redis]
    <3>1. new \in Ledger /\ red \in Ledger  BY <1>0, <1>g, <1>z
    <3>2. ledger' = [ledger EXCEPT ![Home[c]] = new, ![Redis] = red]
      BY <1>3, <1>0 DEF ReserveLocally
    <3> HIDE DEF new, red
    <3> QED  BY <3>1, <3>2, <1>0
  <2>2. child' \in [Children -> Child]  BY <1>3, <1>e, <1>r DEF ReserveLocally
  <2>3. lost' \in [Children -> BOOLEAN] /\ whole' \in BOOLEAN  BY <1>3, <1>0, <1>c DEF ReserveLocally
  <2> QED  BY <1>3, <1>0, <1>t, <2>1, <2>2, <2>3 DEF ReserveLocally
<1>4. ASSUME NEW c \in Children, NEW use \in Uses, NEW actual \in Reported(use), End(c, use, actual)
      PROVE TypeOK'
  <2>0. actual \in Amounts /\ use \in Amounts  BY <1>z DEF Reported
  <2>1. child' \in [Children -> Child]  BY <1>4, <1>0, <1>c DEF End, Child
  <2>2. used' \in Amounts /\ over' \in Amounts
    <3>1. Monus(use, Reserve) \in Amounts  BY <2>0, AmountFacts
    <3> QED  BY <1>4, <1>0, <2>0, <3>1, AmountFacts DEF End
  <2>3. ledger' \in [Ledgers -> Ledger]
    <3>1. child[c].on \in Ledgers \union {NoLedger}  BY <1>0 DEF Child
    <3>2. CASE child[c].on = NoLedger \/ ledger' = ledger
      BY <1>4, <1>0, <3>2, ConstantFacts DEF End, NoLedger, Redis
    <3>3. CASE child[c].on \in Ledgers /\ ledger' # ledger
      <4>1. ledger' = [ledger EXCEPT ![child[c].on] = Reconciled(ledger[child[c].on], actual)]
        BY <1>4, <3>3 DEF End
      <4>2. Reconciled(ledger[child[c].on], actual) \in Ledger  BY <3>3, <2>0, <1>g
      <4> QED  BY <4>1, <4>2, <1>0
    <3> QED  BY <3>1, <3>2, <3>3
  <2>4. lost' \in [Children -> BOOLEAN] /\ whole' \in BOOLEAN /\ outran' = outran
    BY <1>4, <1>0, <1>c DEF End
  <2> QED  BY <1>t, <1>0, <2>1, <2>2, <2>3, <2>4
<1>5. ASSUME Tick PROVE TypeOK'
  <2>1. ledger' \in [Ledgers -> Ledger]  BY <1>5, <1>g, <1>z DEF Tick
  <2>2. child' \in [Children -> Child]
    <3>1. ASSUME NEW c \in Children PROVE [child[c] EXCEPT !.age = Age(c)] \in Child
      <4>0. child[c] \in Child  BY <1>0
      <4>1. Age(c) \in 0..TTL  BY <4>0, <1>c DEF Age, Child
      <4> QED  BY <4>0, <4>1 DEF Child
    <3> QED  BY <1>5, <3>1 DEF Tick
  <2>3. lost' \in [Children -> BOOLEAN] /\ whole' \in BOOLEAN  BY <1>5, <1>0 DEF Tick
  <2>4. outran' \in [Children -> Ledgers \union {NoLedger}]
    <3>1. \A c \in Children : child[c].on \in Ledgers \union {NoLedger}  BY <1>0 DEF Child
    <3> QED  BY <1>5, <1>0, <3>1 DEF Tick
  <2> QED  BY <1>5, <1>0, <1>t, <2>1, <2>2, <2>3, <2>4 DEF Tick
<1>6. ASSUME NEW p \in Processes, Crash(p) PROVE TypeOK'
  <2>1. ledger' \in [Ledgers -> Ledger]  BY <1>6, <1>0, <1>g, <1>z DEF Crash
  <2>2. child' \in [Children -> Child]
    <3>1. [phase |-> "done", on |-> NoLedger, age |-> 0] \in Child  BY <1>c DEF Child
    <3> QED  BY <1>6, <1>0, <3>1 DEF Crash
  <2>3. lost' \in [Children -> BOOLEAN] /\ whole' \in BOOLEAN  BY <1>6, <1>0, <1>c DEF Crash
  <2> QED  BY <1>6, <1>0, <1>t, <2>1, <2>2, <2>3 DEF Crash
<1>7. ASSUME UNCHANGED vars PROVE TypeOK'  BY <1>7, <1>0, <1>t DEF vars
<1> QED  BY <1>1, <1>2, <1>3, <1>4, <1>5, <1>6, <1>7 DEF Next

-----------------------------------------------------------------------------
(* What becomes of the reservations on one ledger *)

LEMMA Products ==
  ASSUME NEW r \in Nat, NEW k \in Nat
  PROVE  /\ r * k \in Nat /\ r * 0 = 0
         /\ r * (k + 1) = r * k + r
         /\ k > 0 => r * k >= r /\ r * k - r = r * (k - 1)
<1>1. r * k \in Nat  OBVIOUS
<1>2. r * (k + 1) = r * k + r  OBVIOUS
<1>3. ASSUME k > 0 PROVE r * k >= r /\ r * k - r = r * (k - 1)
  <2>1. k - 1 \in Nat /\ r * (k - 1) \in Nat  BY <1>3
  <2>2. r * k = r * (k - 1) + r  OBVIOUS
  <2> QED  BY <2>1, <2>2
<1> QED  BY <1>1, <1>2, <1>3

\* The ledger l has k reservations, as many as it should.
Strays(l) == IF l = Redis THEN Cardinality(Gone) ELSE 0

Counted(l, k) ==
  /\ k \in 0..(Cardinality(HeldOn(l)) + Strays(l))
  /\ Cardinality(HeldOn(l)) <= k + Cardinality(Outran(l))
  /\ \A d \in Dims : ledger[l].reserved[d] = Reserve[d] * k

Exact(l) == \E k \in Nat : Counted(l, k)

LEMMA Counts ==
  /\ IsFiniteSet(Gone) /\ Cardinality(Gone) \in Nat
  /\ \A l : IsFiniteSet(HeldOn(l)) /\ Cardinality(HeldOn(l)) \in Nat
  /\ \A l : IsFiniteSet(Outran(l)) /\ Cardinality(Outran(l)) \in Nat
  /\ \A l : Strays(l) \in Nat
<1>1. IsFiniteSet(Children)  BY ConstantFacts
<1>2. Gone \in SUBSET Children  BY DEF Gone
<1>3. \A l : HeldOn(l) \in SUBSET Children /\ Outran(l) \in SUBSET Children  BY DEF HeldOn, Outran
<1>4. IsFiniteSet(Gone) /\ Cardinality(Gone) \in Nat  BY <1>1, <1>2, FS_Subset, FS_CardinalityType
<1> QED  BY <1>1, <1>3, <1>4, FS_Subset, FS_CardinalityType DEF Strays

LEMMA CountsAfter ==
  /\ IsFiniteSet(Gone') /\ Cardinality(Gone') \in Nat
  /\ \A l : IsFiniteSet(HeldOn(l)') /\ Cardinality(HeldOn(l)') \in Nat
  /\ \A l : IsFiniteSet(Outran(l)') /\ Cardinality(Outran(l)') \in Nat
<1>1. IsFiniteSet(Children)  BY ConstantFacts
<1>2. Gone' \in SUBSET Children  BY DEF Gone
<1>3. \A l : HeldOn(l)' \in SUBSET Children /\ Outran(l)' \in SUBSET Children  BY DEF HeldOn, Outran
<1>4. IsFiniteSet(Gone') /\ Cardinality(Gone') \in Nat  BY <1>1, <1>2, FS_Subset, FS_CardinalityType
<1> QED  BY <1>1, <1>3, <1>4, FS_Subset, FS_CardinalityType

\* What a ledger owes and is forgiven only grows.
LEMMA Grows ==
  ASSUME NEW l \in Ledgers, Gone \subseteq Gone', Outran(l) \subseteq Outran(l)'
  PROVE  /\ Strays(l) <= Strays(l)' /\ Strays(l)' \in Nat
         /\ Cardinality(Outran(l)) <= Cardinality(Outran(l)')
<1>1. Cardinality(Gone) <= Cardinality(Gone')  BY CountsAfter, FS_Subset
<1>2. Cardinality(Outran(l)) <= Cardinality(Outran(l)')  BY CountsAfter, FS_Subset
<1> QED  BY <1>1, <1>2, Counts, CountsAfter DEF Strays

\* Nothing happens to it, or a child is granted a reservation on it.
LEMMA ExactKept ==
  ASSUME NEW l \in Ledgers, Exact(l), Gone \subseteq Gone', Outran(l) \subseteq Outran(l)',
         HeldOn(l)' = HeldOn(l), ledger'[l].reserved = ledger[l].reserved
  PROVE  Exact(l)'
<1>1. PICK k \in Nat : Counted(l, k)  BY DEF Exact
<1>2. Counted(l, k)'  BY <1>1, Grows, Counts, CountsAfter DEF Counted
<1> QED  BY <1>2 DEF Exact

LEMMA ExactGranted ==
  ASSUME NEW l \in Ledgers, Exact(l), Gone \subseteq Gone', Outran(l) \subseteq Outran(l)',
         NEW c \in Children, c \notin HeldOn(l), HeldOn(l)' = HeldOn(l) \union {c},
         ledger'[l].reserved = Plus(ledger[l].reserved, Reserve)
  PROVE  Exact(l)'
<1>1. PICK k \in Nat : Counted(l, k)  BY DEF Exact
<1>2. Cardinality(HeldOn(l)') = Cardinality(HeldOn(l)) + 1  BY Counts, FS_AddElement
<1>3. \A d \in Dims : ledger'[l].reserved[d] = Reserve[d] * (k + 1)
  <2> TAKE d \in Dims
  <2>1. Reserve[d] \in Nat  BY ConstantFacts DEF Amounts
  <2>2. ledger'[l].reserved[d] = ledger[l].reserved[d] + Reserve[d]  BY DEF Plus
  <2>3. ledger[l].reserved[d] = Reserve[d] * k  BY <1>1 DEF Counted
  <2> QED  BY <2>1, <2>2, <2>3, Products
<1>4. Counted(l, k + 1)'  BY <1>1, <1>2, <1>3, Grows, Counts, CountsAfter DEF Counted
<1> QED  BY <1>4 DEF Exact

\* The answer to a grant by Redis is lost.
LEMMA ExactStray ==
  ASSUME Exact(Redis), NEW c \in Children, c \notin Gone, Gone' = Gone \union {c},
         HeldOn(Redis)' = HeldOn(Redis), Outran(Redis) \subseteq Outran(Redis)',
         ledger'[Redis].reserved = Plus(ledger[Redis].reserved, Reserve)
  PROVE  Exact(Redis)'
<1>1. PICK k \in Nat : Counted(Redis, k)  BY DEF Exact
<1>2. Strays(Redis)' = Strays(Redis) + 1 /\ Strays(Redis) \in Nat
  <2>1. Cardinality(Gone') = Cardinality(Gone) + 1  BY Counts, FS_AddElement
  <2> QED  BY <2>1, Counts DEF Strays
<1>3. \A d \in Dims : ledger'[Redis].reserved[d] = Reserve[d] * (k + 1)
  <2> TAKE d \in Dims
  <2>1. Reserve[d] \in Nat  BY ConstantFacts DEF Amounts
  <2>2. ledger'[Redis].reserved[d] = ledger[Redis].reserved[d] + Reserve[d]  BY DEF Plus
  <2>3. ledger[Redis].reserved[d] = Reserve[d] * k  BY <1>1 DEF Counted
  <2> QED  BY <2>1, <2>2, <2>3, Products
<1>4. Cardinality(Outran(Redis)) <= Cardinality(Outran(Redis)')  BY CountsAfter, FS_Subset
<1>5. Counted(Redis, k + 1)'  BY <1>1, <1>2, <1>3, <1>4, Counts, CountsAfter DEF Counted
<1> QED  BY <1>5 DEF Exact

\* A child gives its reservation back, or takes that of another one off.
LEMMA ExactReturned ==
  ASSUME NEW l \in Ledgers, Exact(l), Gone \subseteq Gone', Outran(l) \subseteq Outran(l)',
         NEW c \in HeldOn(l), HeldOn(l)' = HeldOn(l) \ {c},
         ledger'[l].reserved = Monus(ledger[l].reserved, Reserve)
  PROVE  Exact(l)'
<1>1. PICK k \in Nat : Counted(l, k)  BY DEF Exact
<1> DEFINE left == IF k = 0 THEN 0 ELSE k - 1
<1>2. Cardinality(HeldOn(l)') = Cardinality(HeldOn(l)) - 1  BY Counts, FS_RemoveElement
<1>3. \A d \in Dims : ledger'[l].reserved[d] = Reserve[d] * left
  <2> TAKE d \in Dims
  <2>1. Reserve[d] \in Nat  BY ConstantFacts DEF Amounts
  <2>2. ledger[l].reserved[d] = Reserve[d] * k  BY <1>1 DEF Counted
  <2>3. ledger'[l].reserved[d] =
          IF ledger[l].reserved[d] < Reserve[d] THEN 0 ELSE ledger[l].reserved[d] - Reserve[d]
    BY DEF Monus
  <2>4. CASE k = 0
    <3>1. ledger[l].reserved[d] = 0 /\ Reserve[d] * left = 0  BY <2>1, <2>2, <2>4
    <3> QED  BY <2>1, <2>3, <3>1
  <2>5. CASE k > 0
    <3>1. Reserve[d] * k >= Reserve[d] /\ Reserve[d] * k - Reserve[d] = Reserve[d] * (k - 1)
      BY <2>1, <2>5, Products
    <3>2. Reserve[d] * k \in Nat  BY <2>1, Products
    <3>3. ledger'[l].reserved[d] = Reserve[d] * k - Reserve[d]  BY <2>1, <2>2, <2>3, <3>1, <3>2
    <3> QED  BY <2>5, <3>1, <3>3
  <2> QED  BY <2>4, <2>5
<1>5. left \in Nat /\ (k = 0 => left = 0) /\ (k > 0 => left = k - 1)  OBVIOUS
<1> HIDE DEF left
<1>4. Counted(l, left)'
  <2>1. /\ Cardinality(HeldOn(l)') \in Nat /\ Cardinality(Outran(l)') \in Nat
        /\ Cardinality(HeldOn(l)) \in Nat /\ Cardinality(Outran(l)) \in Nat
    BY Counts, CountsAfter
  <2>2. /\ Strays(l) <= Strays(l)' /\ Strays(l)' \in Nat /\ Strays(l) \in Nat
        /\ Cardinality(Outran(l)) <= Cardinality(Outran(l)')
    BY Grows, Counts
  <2>3. k <= Cardinality(HeldOn(l)) + Strays(l) /\ Cardinality(HeldOn(l)) <= k + Cardinality(Outran(l))
    BY <1>1, <2>1, <2>2 DEF Counted
  <2>4. left \in 0..(Cardinality(HeldOn(l)') + Strays(l)')  BY <2>1, <2>2, <2>3, <1>2, <1>5
  <2>5. Cardinality(HeldOn(l)') <= left + Cardinality(Outran(l)')  BY <2>1, <2>2, <2>3, <1>2, <1>5
  <2> QED  BY <2>4, <2>5, <1>3 DEF Counted
<1> QED  BY <1>4, <1>5 DEF Exact

\* Children on Redis go without giving theirs back.
LEMMA ExactLost ==
  ASSUME Exact(Redis), NEW K, K \subseteq HeldOn(Redis), K \cap Gone = {},
         Gone' = Gone \union K, HeldOn(Redis)' = HeldOn(Redis) \ K,
         Outran(Redis) \subseteq Outran(Redis)',
         ledger'[Redis].reserved = ledger[Redis].reserved
  PROVE  Exact(Redis)'
<1>0. IsFiniteSet(K) /\ Cardinality(K) \in Nat  BY Counts, FS_Subset, FS_CardinalityType
<1>1. Cardinality(Gone') = Cardinality(Gone) + Cardinality(K)
  <2>2. Cardinality(Gone \cap K) = 0
    <3>1. Gone \cap K = {}  OBVIOUS
    <3> QED  BY <3>1, FS_EmptySet
  <2>3. Cardinality(Gone \union K) = Cardinality(Gone) + Cardinality(K) - Cardinality(Gone \cap K)
    BY <1>0, Counts, FS_Union
  <2>4. Cardinality(Gone) \in Nat  BY Counts
  <2>5. Cardinality(Gone \union K) = Cardinality(Gone) + Cardinality(K)  BY <1>0, <2>2, <2>3, <2>4
  <2> QED  BY <2>5
<1>2. Cardinality(HeldOn(Redis)) = Cardinality(HeldOn(Redis)') + Cardinality(K)
  <2>1. HeldOn(Redis) = HeldOn(Redis)' \union K  OBVIOUS
  <2>2. Cardinality(HeldOn(Redis)' \cap K) = 0
    <3>1. HeldOn(Redis)' \cap K = {}  OBVIOUS
    <3> QED  BY <3>1, FS_EmptySet
  <2>3. Cardinality(HeldOn(Redis)' \union K)
          = Cardinality(HeldOn(Redis)') + Cardinality(K) - Cardinality(HeldOn(Redis)' \cap K)
    BY <1>0, CountsAfter, FS_Union
  <2>4. Cardinality(HeldOn(Redis)') \in Nat  BY CountsAfter
  <2>5. Cardinality(HeldOn(Redis)' \union K) = Cardinality(HeldOn(Redis)') + Cardinality(K)
    BY <1>0, <2>2, <2>3, <2>4
  <2> QED  BY <2>1, <2>5
<1>3. PICK k \in Nat : Counted(Redis, k)  BY DEF Exact
<1>4. Strays(Redis) = Cardinality(Gone) /\ Strays(Redis)' = Cardinality(Gone')  BY DEF Strays
<1>5. Cardinality(Outran(Redis)) <= Cardinality(Outran(Redis)')  BY CountsAfter, FS_Subset
<1>6. Counted(Redis, k)'
  <2>1. /\ Cardinality(HeldOn(Redis)') \in Nat /\ Cardinality(Outran(Redis)') \in Nat
        /\ Cardinality(HeldOn(Redis)) \in Nat /\ Cardinality(Outran(Redis)) \in Nat
        /\ Cardinality(Gone) \in Nat /\ Cardinality(Gone') \in Nat
    BY Counts, CountsAfter
  <2>2. /\ k <= Cardinality(HeldOn(Redis)) + Cardinality(Gone)
        /\ Cardinality(HeldOn(Redis)) <= k + Cardinality(Outran(Redis))
    BY <1>3, <1>4, <2>1 DEF Counted
  <2>3. k \in 0..(Cardinality(HeldOn(Redis)') + Strays(Redis)')  BY <1>0, <1>1, <1>2, <1>4, <2>1, <2>2
  <2>4. Cardinality(HeldOn(Redis)') <= k + Cardinality(Outran(Redis)')  BY <1>0, <1>2, <1>5, <2>1, <2>2
  <2>5. \A d \in Dims : ledger'[Redis].reserved[d] = Reserve[d] * k  BY <1>3 DEF Counted
  <2> QED  BY <2>3, <2>4, <2>5 DEF Counted
<1> QED  BY <1>6 DEF Exact

\* A ledger is gone, and with it the reservations of children that outran it.
LEMMA ExactEmpty ==
  ASSUME NEW l \in Ledgers, HeldOn(l)' \subseteq Outran(l)', ledger'[l] = Empty
  PROVE  Exact(l)'
<1>1. Cardinality(HeldOn(l)') <= Cardinality(Outran(l)')  BY CountsAfter, FS_Subset
<1>2. \A d \in Dims : ledger'[l].reserved[d] = 0  BY DEF Empty, Zero
<1>3. \A d \in Dims : Reserve[d] * 0 = 0  BY ConstantFacts DEF Amounts
<1>4. Strays(l)' \in Nat  BY CountsAfter DEF Strays
<1>5. Counted(l, 0)'  BY <1>1, <1>2, <1>3, <1>4, CountsAfter DEF Counted
<1> QED  BY <1>5 DEF Exact

Accounts == \A l \in Ledgers : Exact(l)

LEMMA AllExact == ReservationsHeld <=> Accounts
<1>1. ASSUME NEW l \in Ledgers
      PROVE  Exact(l) <=> \E k \in 0..(Cardinality(HeldOn(l)) + IF l = Redis THEN Cardinality(Gone) ELSE 0) :
               /\ Cardinality(HeldOn(l)) <= k + Cardinality(Outran(l))
               /\ \A d \in Dims : ledger[l].reserved[d] = Reserve[d] * k
  <2>1. \A k : k \in 0..(Cardinality(HeldOn(l)) + Strays(l)) => k \in Nat  BY Counts
  <2> QED  BY <2>1 DEF Exact, Counted, Strays
<1> QED  BY <1>1 DEF ReservationsHeld, Accounts

BudgetInv == TypeOK /\ Outlives /\ BeforeLoss /\ Accounts


-----------------------------------------------------------------------------
(* The invariant *)

LEMMA BudgetInit == Init => BudgetInv
<1> SUFFICES ASSUME Init PROVE BudgetInv  OBVIOUS
<1>1. TypeOK  BY TypeInit
<1>2. Outlives /\ BeforeLoss  BY DEF Init, Outlives, BeforeLoss
<1>3. ASSUME NEW l \in Ledgers PROVE Exact(l)
  <2>1. HeldOn(l) = {}  BY ConstantFacts DEF Init, HeldOn
  <2>2. Cardinality(HeldOn(l)) = 0  BY <2>1, FS_EmptySet
  <2>3. \A d \in Dims : ledger[l].reserved[d] = 0 /\ Reserve[d] * 0 = 0
    BY ConstantFacts DEF Init, Empty, Zero, Amounts
  <2>4. Counted(l, 0)  BY <2>2, <2>3, Counts DEF Counted
  <2> QED  BY <2>4 DEF Exact
<1> QED  BY <1>1, <1>2, <1>3 DEF BudgetInv, Accounts

\* Who runs on which ledger after a reserve: c alone has changed.
LEMMA AfterRuns ==
  ASSUME TypeOK, Outlives, NEW c \in Children, child[c].phase = "idle",
         NEW k \in Ledgers \union {NoLedger}, Runs(c, k)
  PROVE  /\ \A l \in Ledgers : l # k => HeldOn(l)' = HeldOn(l)
         /\ k \in Ledgers => c \notin HeldOn(k) /\ HeldOn(k)' = HeldOn(k) \union {c}
         /\ \A e \in Children : e # c => child'[e] = child[e]
         /\ child'[c] = [phase |-> "running", on |-> k, age |-> 0]
<1>1. child[c].on = NoLedger  BY DEF Outlives, Holds
<1>2. \A e \in Children : child'[e] = IF e = c THEN [phase |-> "running", on |-> k, age |-> 0] ELSE child[e]
  BY DEF Runs, TypeOK
<1> QED  BY <1>1, <1>2, ConstantFacts DEF HeldOn

LEMMA AfterRefused ==
  ASSUME TypeOK, Outlives, NEW c \in Children, child[c].phase = "idle",
         child' = [child EXCEPT ![c].phase = "refused"] \/ Runs(c, NoLedger)
  PROVE  /\ \A l \in Ledgers : HeldOn(l)' = HeldOn(l)
         /\ \A e \in Children : e # c => child'[e] = child[e]
         /\ child'[c].on = NoLedger /\ child'[c].phase # "idle"
<1>1. CASE Runs(c, NoLedger)
  <2>2. NoLedger \in Ledgers \union {NoLedger}  OBVIOUS
  <2>3. /\ \A l \in Ledgers : l # NoLedger => HeldOn(l)' = HeldOn(l)
        /\ \A e \in Children : e # c => child'[e] = child[e]
        /\ child'[c] = [phase |-> "running", on |-> NoLedger, age |-> 0]
    BY <1>1, <2>2, AfterRuns
  <2> QED  BY <2>3, ConstantFacts
<1>2. CASE child' = [child EXCEPT ![c].phase = "refused"]
  <2>1. child[c].on = NoLedger  BY DEF Outlives, Holds
  <2>3. \A e \in Children : /\ child'[e].on = child[e].on
                            /\ e # c => child'[e] = child[e]
    BY <1>2 DEF TypeOK
  <2>4. child'[c].phase = "refused"  BY <1>2 DEF TypeOK
  <2> QED  BY <2>1, <2>3, <2>4 DEF HeldOn
<1> QED  BY <1>1, <1>2

LEMMA OnRedis ==
  ASSUME BudgetInv, NEW c \in Children, ReserveOnRedis(c)
  PROVE  Outlives' /\ BeforeLoss' /\ Accounts'
<1> USE DEF BudgetInv
<1>0. TTL \in Nat \ {0} /\ child[c].phase = "idle" /\ lost' = lost /\ outran' = outran
  BY BudgetAssumption DEF ReserveOnRedis
<1>g. Gone' = Gone /\ \A l : Outran(l)' = Outran(l)  BY <1>0 DEF Gone, Outran
<1>h. \A l \in Ledgers : Exact(l)  BY DEF Accounts
<1>1. CASE Fits(Redis)
  <2>1. Runs(c, Redis) /\ ledger' = [ledger EXCEPT ![Redis] = Reserved(ledger[Redis])]
    BY <1>1 DEF ReserveOnRedis
  <2>2. /\ \A l \in Ledgers : l # Redis => HeldOn(l)' = HeldOn(l) /\ ledger'[l] = ledger[l]
        /\ c \notin HeldOn(Redis) /\ HeldOn(Redis)' = HeldOn(Redis) \union {c}
        /\ \A e \in Children : e # c => child'[e] = child[e]
        /\ child'[c] = [phase |-> "running", on |-> Redis, age |-> 0]
    BY <2>1, <1>0, AfterRuns, ConstantFacts DEF TypeOK
  <2>3. ledger'[Redis].reserved = Plus(ledger[Redis].reserved, Reserve) /\ ledger'[Redis].ttl = TTL
    BY <2>1, ConstantFacts DEF TypeOK, Reserved
  <2>4. ASSUME NEW l \in Ledgers PROVE Exact(l)'
    <3>1. CASE l = Redis  BY <2>2, <2>3, <3>1, <1>g, <1>h, ExactGranted
    <3>2. CASE l # Redis  BY <2>2, <3>2, <1>g, <1>h, ExactKept
    <3> QED  BY <3>1, <3>2
  <2>5. Outlives'
    <3> SUFFICES ASSUME NEW e \in Children, child'[e].on # NoLedger PROVE Holds(e)'  BY DEF Outlives
    <3>1. CASE e = c
      <4>1. child'[e].age = 0 /\ child'[e].on = Redis /\ child'[e].phase = "running"  BY <2>2, <3>1
      <4>2. ~lost'[e] /\ outran'[e] = NoLedger  BY <3>1, <1>0 DEF BeforeLoss
      <4> QED  BY <4>1, <4>2, <2>3, <1>0 DEF Holds
    <3>2. CASE e # c
      <4>1. child'[e] = child[e] /\ Holds(e)  BY <2>2, <3>2 DEF Outlives
      <4>2. child[e].on \in Ledgers /\ child[e].age \in Nat
        BY <4>1, BudgetAssumption DEF TypeOK
      <4>3. CASE child[e].on = Redis  BY <4>1, <4>2, <4>3, <2>3, <1>0 DEF Holds
      <4>4. CASE child[e].on # Redis  BY <4>1, <4>2, <4>4, <2>2, <1>0 DEF Holds
      <4> QED  BY <4>3, <4>4
    <3> QED  BY <3>1, <3>2
  <2>6. BeforeLoss'  BY <2>2, <1>0 DEF BeforeLoss
  <2> QED  BY <2>4, <2>5, <2>6 DEF Accounts
<1>2. CASE ~Fits(Redis)
  <2>1. Refused(c) /\ ledger' = ledger  BY <1>2 DEF ReserveOnRedis
  <2>2. /\ \A l \in Ledgers : HeldOn(l)' = HeldOn(l)
        /\ \A e \in Children : e # c => child'[e] = child[e]
        /\ child'[c].on = NoLedger /\ child'[c].phase # "idle"
    BY <2>1, <1>0, AfterRefused DEF Refused
  <2>4. \A l \in Ledgers : Exact(l)'  BY <2>1, <2>2, <1>g, <1>h, ExactKept
  <2>5. Outlives' /\ BeforeLoss'  BY <2>1, <2>2, <1>0 DEF Outlives, Holds, BeforeLoss
  <2> QED  BY <2>4, <2>5 DEF Accounts
<1> QED  BY <1>1, <1>2


LEMMA Unreserved ==
  ASSUME BudgetInv, NEW c \in Children, RunUnreserved(c)
  PROVE  Outlives' /\ BeforeLoss' /\ Accounts'
<1> USE DEF BudgetInv
<1>0. /\ Runs(c, NoLedger) /\ child[c].phase = "idle"
      /\ lost' = lost /\ outran' = outran /\ ledger' = ledger
  BY DEF RunUnreserved
<1>g. Gone' = Gone /\ \A l : Outran(l)' = Outran(l)  BY <1>0 DEF Gone, Outran
<1>h. \A l \in Ledgers : Exact(l)  BY DEF Accounts
<1>1. /\ \A l \in Ledgers : l # NoLedger => HeldOn(l)' = HeldOn(l)
      /\ \A e \in Children : e # c => child'[e] = child[e]
      /\ child'[c] = [phase |-> "running", on |-> NoLedger, age |-> 0]
  <2>1. NoLedger \in Ledgers \union {NoLedger}  OBVIOUS
  <2> QED  BY <2>1, <1>0, AfterRuns
<1>2. \A l \in Ledgers : HeldOn(l)' = HeldOn(l)  BY <1>1, ConstantFacts
<1>3. \A l \in Ledgers : Exact(l)'  BY <1>0, <1>2, <1>g, <1>h, ExactKept
<1>4. Outlives' /\ BeforeLoss'  BY <1>0, <1>1 DEF Outlives, Holds, BeforeLoss
<1> QED  BY <1>3, <1>4 DEF Accounts

LEMMA Locally ==
  ASSUME BudgetInv, NEW c \in Children, NEW stray \in BOOLEAN, ReserveLocally(c, stray)
  PROVE  Outlives' /\ BeforeLoss' /\ Accounts'
<1> USE DEF BudgetInv
<1> DEFINE p == Home[c]
<1>p. p \in Ledgers /\ p # Redis /\ Redis \in Ledgers /\ TTL \in Nat \ {0} /\ NoLedger # p
  BY ConstantFacts, BudgetAssumption
<1>0. /\ child[c].phase = "idle"
      /\ lost' = IF stray THEN [lost EXCEPT ![c] = TRUE] ELSE lost
      /\ outran' = outran
      /\ IF Fits(p) THEN Runs(c, p)
         ELSE child' = [child EXCEPT ![c].phase = "refused"] \/ Runs(c, NoLedger)
  BY DEF ReserveLocally
<1>1. /\ ledger'[p] = IF Fits(p) THEN Reserved(ledger[p]) ELSE [ledger[p] EXCEPT !.ttl = TTL]
      /\ ledger'[Redis] = IF stray THEN Reserved(ledger[Redis]) ELSE ledger[Redis]
      /\ \A l \in Ledgers : l # p /\ l # Redis => ledger'[l] = ledger[l]
  BY <1>p DEF ReserveLocally, TypeOK
<1>2. /\ \A l \in Ledgers : l # p => HeldOn(l)' = HeldOn(l)
      /\ Fits(p) => c \notin HeldOn(p) /\ HeldOn(p)' = HeldOn(p) \union {c}
      /\ ~Fits(p) => HeldOn(p)' = HeldOn(p)
      /\ \A e \in Children : e # c => child'[e] = child[e]
      /\ child'[c].on \in {NoLedger, p} /\ child'[c].phase # "idle"
      /\ child'[c].on = p => child'[c].phase = "running" /\ child'[c].age = 0
  <2>1. CASE Fits(p)
    <3>1. p \in Ledgers \union {NoLedger} /\ Runs(c, p)  BY <1>0, <1>p, <2>1
    <3> HIDE DEF p
    <3>2. /\ \A l \in Ledgers : l # p => HeldOn(l)' = HeldOn(l)
          /\ p \in Ledgers => c \notin HeldOn(p) /\ HeldOn(p)' = HeldOn(p) \union {c}
          /\ \A e \in Children : e # c => child'[e] = child[e]
          /\ child'[c] = [phase |-> "running", on |-> p, age |-> 0]
      BY <1>0, <3>1, AfterRuns
    <3> QED  BY <2>1, <3>2, <1>p
  <2>2. CASE ~Fits(p)  BY <2>2, <1>0, <1>p, AfterRefused, ConstantFacts
  <2> QED  BY <2>1, <2>2
<1>3. /\ Fits(p) => ledger'[p].reserved = Plus(ledger[p].reserved, Reserve)
      /\ ~Fits(p) => ledger'[p].reserved = ledger[p].reserved
      /\ ledger'[p].ttl = TTL
  BY <1>1, <1>p DEF Reserved, TypeOK
<1>4. /\ stray => ledger'[Redis].reserved = Plus(ledger[Redis].reserved, Reserve) /\ ledger'[Redis].ttl = TTL
      /\ ~stray => ledger'[Redis] = ledger[Redis]
  BY <1>1, <1>p DEF Reserved, TypeOK
<1>5. /\ stray => c \notin Gone /\ Gone' = Gone \union {c}
      /\ ~stray => Gone' = Gone
  <2>1. ~lost[c]  BY <1>0 DEF BeforeLoss
  <2>2. \A e \in Children : lost'[e] = IF stray /\ e = c THEN TRUE ELSE lost[e]  BY <1>0 DEF TypeOK
  <2> QED  BY <2>1, <2>2 DEF Gone
<1>h. \A l \in Ledgers : Exact(l)  BY DEF Accounts
<1> HIDE DEF p
<1>6. ASSUME NEW l \in Ledgers PROVE Exact(l)'
  <2>0. Gone \subseteq Gone' /\ \A k : Outran(k)' = Outran(k)  BY <1>5, <1>0 DEF Outran
  <2>1. CASE l = p
    <3>1. CASE Fits(p)  BY <2>0, <2>1, <3>1, <1>2, <1>3, <1>h, ExactGranted
    <3>2. CASE ~Fits(p)  BY <2>0, <2>1, <3>2, <1>2, <1>3, <1>h, ExactKept
    <3> QED  BY <3>1, <3>2
  <2>2. CASE l = Redis
    <3>1. CASE stray  BY <2>0, <2>2, <3>1, <1>2, <1>4, <1>5, <1>h, <1>p, ExactStray
    <3>2. CASE ~stray  BY <2>0, <2>2, <3>2, <1>2, <1>4, <1>h, <1>p, ExactKept
    <3> QED  BY <3>1, <3>2
  <2>3. CASE l # p /\ l # Redis  BY <2>0, <2>3, <1>1, <1>2, <1>h, ExactKept
  <2> QED  BY <2>1, <2>2, <2>3
<1>7. Outlives'
  <2> SUFFICES ASSUME NEW e \in Children, child'[e].on # NoLedger PROVE Holds(e)'  BY DEF Outlives
  <2>1. CASE e = c
    <3>1. child'[e].on = p /\ child'[e].phase = "running" /\ child'[e].age = 0 /\ p = Home[e]
      BY <2>1, <1>2 DEF p
    <3>2. outran'[e] = NoLedger  BY <2>1, <1>0 DEF BeforeLoss
    <3> QED  BY <3>1, <3>2, <1>3, <1>p DEF Holds
  <2>2. CASE e # c
    <3>1. child'[e] = child[e] /\ lost'[e] = lost[e] /\ Holds(e)
      BY <2>2, <1>2, <1>0 DEF TypeOK, Outlives
    <3>2. child[e].on \in Ledgers /\ child[e].age \in Nat  BY <3>1, BudgetAssumption DEF TypeOK
    <3>3. \A l \in Ledgers : ledger'[l].ttl = TTL \/ ledger'[l].ttl = ledger[l].ttl
      BY <1>1, <1>3, <1>4
    <3> QED  BY <3>1, <3>2, <3>3, <1>0, <1>p DEF Holds
  <2> QED  BY <2>1, <2>2
<1>8. BeforeLoss'  BY <1>0, <1>2 DEF BeforeLoss, TypeOK
<1> QED  BY <1>6, <1>7, <1>8 DEF Accounts


LEMMA Ending ==
  ASSUME BudgetInv, NEW c \in Children, NEW use, NEW actual \in Amounts, End(c, use, actual)
  PROVE  Outlives' /\ BeforeLoss' /\ Accounts'
<1> USE DEF BudgetInv
<1>0. /\ child[c].phase = "running"
      /\ child' = [child EXCEPT ![c] = [phase |-> "done", on |-> NoLedger, age |-> 0]]
      /\ outran' = outran
  BY DEF End
<1>o. \A l : Outran(l)' = Outran(l)  BY <1>0 DEF Outran
<1>1. /\ child'[c] = [phase |-> "done", on |-> NoLedger, age |-> 0]
      /\ \A e \in Children : e # c => child'[e] = child[e]
  BY <1>0 DEF TypeOK
<1>c. TTL \in Nat  BY BudgetAssumption
<1>k. PICK k \in Ledgers \union {NoLedger} : k = child[c].on  BY DEF TypeOK
<1>2. /\ \A l \in Ledgers : l # k => HeldOn(l)' = HeldOn(l)
      /\ k \in Ledgers => c \in HeldOn(k) /\ HeldOn(k)' = HeldOn(k) \ {c}
  <2>1. \A e \in Children : child'[e].on = IF e = c THEN NoLedger ELSE child[e].on  BY <1>1
  <2>2. \A l \in Ledgers : l # NoLedger  BY ConstantFacts
  <2>3. ASSUME NEW l \in Ledgers, l # k PROVE HeldOn(l)' = HeldOn(l)
    BY <2>1, <2>2, <2>3, <1>k DEF HeldOn
  <2>4. ASSUME k \in Ledgers PROVE c \in HeldOn(k) /\ HeldOn(k)' = HeldOn(k) \ {c}
    BY <2>1, <2>2, <2>4, <1>k DEF HeldOn
  <2> QED  BY <2>3, <2>4
<1>h. \A l \in Ledgers : Exact(l)  BY DEF Accounts
<1>r. ASSUME \A l \in Ledgers : ledger'[l].ttl = TTL \/ ledger'[l].ttl = ledger[l].ttl,
             \A e \in Children : e # c => lost'[e] = lost[e]
      PROVE  Outlives' /\ BeforeLoss'
  <2>1. ASSUME NEW e \in Children, child'[e].on # NoLedger PROVE Holds(e)'
    <3>1. e # c  BY <1>1, <2>1
    <3>2. child'[e] = child[e] /\ lost'[e] = lost[e] /\ Holds(e)
      BY <2>1, <3>1, <1>1, <1>r DEF Outlives
    <3>3. child[e].on \in Ledgers /\ child[e].age \in Nat  BY <2>1, <3>2, BudgetAssumption DEF TypeOK
    <3> QED  BY <2>1, <3>2, <3>3, <1>0, <1>r, <1>c DEF Holds
  <2>2. Outlives'  BY <2>1 DEF Outlives
  <2>3. BeforeLoss'  BY <1>0, <1>1, <1>r DEF BeforeLoss
  <2> QED  BY <2>2, <2>3
<1>3. CASE k # NoLedger /\ ledger' = [ledger EXCEPT ![k] = Reconciled(ledger[k], actual)] /\ lost' = lost
  <2>0. k \in Ledgers  BY <1>3, <1>k
  <2>1. /\ ledger'[k].reserved = Monus(ledger[k].reserved, Reserve) /\ ledger'[k].ttl = TTL
        /\ \A l \in Ledgers : l # k => ledger'[l] = ledger[l]
    BY <1>3, <2>0 DEF TypeOK, Reconciled
  <2>2. Gone' = Gone  BY <1>3 DEF Gone
  <2>3. ASSUME NEW l \in Ledgers PROVE Exact(l)'
    <3>1. CASE l = k
      <4>1. Gone \subseteq Gone' /\ Outran(l) \subseteq Outran(l)'  BY <2>2, <1>o
      <4>2. c \in HeldOn(l) /\ HeldOn(l)' = HeldOn(l) \ {c}  BY <3>1, <2>0, <1>2
      <4>3. ledger'[l].reserved = Monus(ledger[l].reserved, Reserve)  BY <3>1, <2>1
      <4> QED  BY <4>1, <4>2, <4>3, <1>h, ExactReturned
    <3>2. CASE l # k  BY <3>2, <2>1, <2>2, <1>2, <1>h, <1>o, ExactKept
    <3> QED  BY <3>1, <3>2
  <2>4. Outlives' /\ BeforeLoss'  BY <2>1, <1>3, <1>r
  <2> QED  BY <2>3, <2>4 DEF Accounts
<1>4. CASE k = NoLedger /\ ledger' = ledger /\ lost' = lost
  <2>1. Gone' = Gone  BY <1>4 DEF Gone
  <2>2. \A l \in Ledgers : HeldOn(l)' = HeldOn(l)  BY <1>2, <1>4, ConstantFacts
  <2>3. \A l \in Ledgers : Exact(l)'  BY <1>4, <2>1, <2>2, <1>h, <1>o, ExactKept
  <2>4. Outlives' /\ BeforeLoss'  BY <1>4, <1>r
  <2> QED  BY <2>3, <2>4 DEF Accounts
<1>5. CASE k = Redis /\ ledger' = ledger /\ lost' = [lost EXCEPT ![c] = TRUE]
  <2>1. ~lost[c]  BY <1>5, <1>k, ConstantFacts DEF Outlives, Holds
  <2>2. \A e \in Children : lost'[e] = IF e = c THEN TRUE ELSE lost[e]  BY <1>5 DEF TypeOK
  <2>3. Gone' = Gone \union {c} /\ {c} \cap Gone = {}  BY <2>1, <2>2 DEF Gone
  <2>4. {c} \subseteq HeldOn(Redis) /\ HeldOn(Redis)' = HeldOn(Redis) \ {c}
    <3>1. Redis \in Ledgers /\ k = Redis  BY <1>5, ConstantFacts
    <3>2. c \in HeldOn(k) /\ HeldOn(k)' = HeldOn(k) \ {c}  BY <3>1, <1>2
    <3> QED  BY <3>1, <3>2
  <2>5. ASSUME NEW l \in Ledgers PROVE Exact(l)'
    <3>1. CASE l = Redis
      <4>1. Exact(Redis)  BY <3>1, <1>h
      <4>2. Exact(Redis)'  BY <4>1, <1>5, <2>3, <2>4, <1>o, ExactLost
      <4> QED  BY <3>1, <4>2
    <3>2. CASE l # Redis
      <4>1. HeldOn(l)' = HeldOn(l) /\ ledger'[l] = ledger[l] /\ Gone \subseteq Gone'
        BY <3>2, <1>2, <1>5, <2>3
      <4> QED  BY <4>1, <1>h, <1>o, ExactKept
    <3> QED  BY <3>1, <3>2
  <2>6. Outlives' /\ BeforeLoss'  BY <1>5, <2>2, <1>r
  <2> QED  BY <2>5, <2>6 DEF Accounts
<1> QED  BY <1>3, <1>4, <1>5, <1>k DEF End

LEMMA Ticking ==
  ASSUME BudgetInv, Tick
  PROVE  Outlives' /\ BeforeLoss' /\ Accounts'
<1> USE DEF BudgetInv
<1>c. TTL \in Nat \ {0}  BY BudgetAssumption
<1>0. /\ \A c \in Children : /\ child'[c].phase = child[c].phase /\ child'[c].on = child[c].on
                             /\ child'[c].age = Age(c)
                             /\ outran'[c] = IF outran[c] = NoLedger /\ Age(c) = TTL THEN child[c].on
                                             ELSE outran[c]
      /\ lost' = lost
      /\ \A l \in Ledgers : ledger'[l] = Older(ledger[l])
  BY DEF Tick, TypeOK
<1>t. \A c \in Children : child[c].age \in 0..TTL /\ child[c].on \in Ledgers \union {NoLedger}
  BY DEF TypeOK
<1>1. Gone' = Gone /\ \A l \in Ledgers : Outran(l) \subseteq Outran(l)'
  BY <1>0, ConstantFacts DEF Gone, Outran
<1>2. \A l \in Ledgers : HeldOn(l)' = HeldOn(l)  BY <1>0 DEF HeldOn
\* A child on a ledger about to go has outrun it.
<1>3. ASSUME NEW c \in Children, child[c].on # NoLedger
      PROVE  /\ outran'[c] \in {NoLedger, child[c].on}
             /\ outran'[c] = NoLedger =>
                  /\ Age(c) < TTL /\ Age(c) = child[c].age + 1
                  /\ ledger[child[c].on].ttl + child[c].age >= TTL
                  /\ ledger[child[c].on].ttl > 1 /\ ledger[child[c].on].ttl \in Nat
  <2>1. Holds(c) /\ child[c].on \in Ledgers /\ child[c].age \in 0..TTL  BY <1>3, <1>t DEF Outlives
  <2>2. outran'[c] \in {NoLedger, child[c].on}  BY <2>1, <1>0 DEF Holds
  <2>3. ASSUME outran'[c] = NoLedger
        PROVE  /\ Age(c) < TTL /\ Age(c) = child[c].age + 1
               /\ ledger[child[c].on].ttl + child[c].age >= TTL
               /\ ledger[child[c].on].ttl > 1 /\ ledger[child[c].on].ttl \in Nat
    <3>1. outran[c] = NoLedger /\ Age(c) # TTL  BY <2>3, <1>0, <1>3
    <3>2. child[c].age < TTL /\ ledger[child[c].on].ttl + child[c].age >= TTL
          /\ child[c].phase = "running"
      BY <3>1, <2>1 DEF Holds
    <3>3. Age(c) = child[c].age + 1  BY <3>2 DEF Age
    <3>4. ledger[child[c].on].ttl \in Nat  BY <2>1, <1>c DEF TypeOK
    <3> QED  BY <3>1, <3>2, <3>3, <3>4, <2>1, <1>c
  <2> QED  BY <2>2, <2>3
<1>4. ASSUME NEW l \in Ledgers, ledger[l].ttl > 1
      PROVE  ledger'[l].reserved = ledger[l].reserved /\ ledger'[l].ttl = ledger[l].ttl - 1
  <2>1. ledger'[l] = Older(ledger[l])  BY <1>0
  <2>2. ledger[l] \in [spent : [Dims -> Nat], reserved : [Dims -> Nat], ttl : 0..TTL]  BY DEF TypeOK
  <2>3. ~(ledger[l].ttl <= 1)  BY <1>4, <1>c, <2>2
  <2>4. ledger'[l] = [ledger[l] EXCEPT !.ttl = ledger[l].ttl - 1]  BY <2>1, <2>3 DEF Older
  <2> QED  BY <2>2, <2>4
<1>5. ASSUME NEW l \in Ledgers PROVE Exact(l)'
  <2>0. ledger[l].ttl \in Nat  BY <1>c DEF TypeOK
  <2>1. CASE ledger[l].ttl > 1
    <3>1. Exact(l)  BY DEF Accounts
    <3> QED  BY <2>1, <3>1, <1>1, <1>2, <1>4, ExactKept
  <2>2. CASE ~(ledger[l].ttl > 1)
    <3>1. ASSUME NEW c \in HeldOn(l)' PROVE c \in Outran(l)'
      <4>1. c \in Children /\ child[c].on = l /\ l # NoLedger  BY <1>2, ConstantFacts DEF HeldOn
      <4>2. outran'[c] = l  BY <4>1, <2>2, <1>3
      <4> QED  BY <4>1, <4>2 DEF Outran
    <3>2. ledger[l].ttl <= 1  BY <2>0, <2>2
    <3>3. ledger'[l] = Older(ledger[l])  BY <1>0
    <3>4. ledger'[l] = Empty  BY <3>2, <3>3 DEF Older
    <3> QED  BY <3>1, <3>4, ExactEmpty
  <2> QED  BY <2>1, <2>2
<1>6. Outlives'
  <2> SUFFICES ASSUME NEW c \in Children, child'[c].on # NoLedger PROVE Holds(c)'  BY DEF Outlives
  <2>1. child[c].on # NoLedger /\ child[c].on \in Ledgers /\ Holds(c)  BY <1>0, <1>t DEF Outlives
  <2>2. outran'[c] = NoLedger => child'[c].age < TTL /\ ledger'[child'[c].on].ttl + child'[c].age >= TTL
    <3> SUFFICES ASSUME outran'[c] = NoLedger
                 PROVE  child'[c].age < TTL /\ ledger'[child'[c].on].ttl + child'[c].age >= TTL
      OBVIOUS
    <3>1. /\ Age(c) < TTL /\ Age(c) = child[c].age + 1
          /\ ledger[child[c].on].ttl + child[c].age >= TTL
          /\ ledger[child[c].on].ttl > 1 /\ ledger[child[c].on].ttl \in Nat
      BY <2>1, <1>3
    <3>2. ledger'[child[c].on].ttl = ledger[child[c].on].ttl - 1  BY <2>1, <3>1, <1>4
    <3> QED  BY <3>1, <3>2, <1>0, <1>t, <1>c
  <2>3. outran'[c] \in {NoLedger, child'[c].on}  BY <2>1, <1>0, <1>3
  <2> QED  BY <2>1, <2>2, <2>3, <1>0 DEF Holds
<1>7. BeforeLoss'
  <2> SUFFICES ASSUME NEW c \in Children, child'[c].phase = "idle" PROVE ~lost'[c] /\ outran'[c] = NoLedger
    BY DEF BeforeLoss
  <2>1. child[c].phase = "idle" /\ ~lost[c] /\ outran[c] = NoLedger  BY <1>0 DEF BeforeLoss
  <2>2. child[c].on = NoLedger  BY <2>1 DEF Outlives, Holds
  <2> QED  BY <2>1, <2>2, <1>0
<1> QED  BY <1>5, <1>6, <1>7 DEF Accounts

LEMMA Crashing ==
  ASSUME BudgetInv, NEW p \in Processes, Crash(p)
  PROVE  Outlives' /\ BeforeLoss' /\ Accounts'
<1> USE DEF BudgetInv
<1> DEFINE dead == {c \in Children : Home[c] = p /\ child[c].phase = "running"}
           K == {c \in Children : c \in dead /\ child[c].on = Redis}
<1>p. p \in Ledgers /\ p # Redis /\ Redis \in Ledgers
  BY BudgetAssumption DEF Ledgers
<1>0. /\ \A c \in Children : child'[c] =
           IF Home[c] = p /\ child[c].phase = "running"
           THEN [phase |-> "done", on |-> NoLedger, age |-> 0] ELSE child[c]
      /\ \A c \in Children : lost'[c] <=> lost[c] \/ c \in K
      /\ outran' = outran
      /\ ledger'[p] = Empty
      /\ \A l \in Ledgers : l # p => ledger'[l] = ledger[l]
  <2>1. /\ ledger' = [ledger EXCEPT ![p] = Empty]
        /\ child' = [c \in Children |->
             IF c \in dead THEN [phase |-> "done", on |-> NoLedger, age |-> 0] ELSE child[c]]
        /\ lost' = [c \in Children |-> lost[c] \/ (c \in dead /\ child[c].on = Redis)]
        /\ outran' = outran
    BY DEF Crash
  <2>2. \A c \in Children : child'[c] =
           IF Home[c] = p /\ child[c].phase = "running"
           THEN [phase |-> "done", on |-> NoLedger, age |-> 0] ELSE child[c]
    BY <2>1
  <2>3. \A c \in Children : lost'[c] <=> lost[c] \/ c \in K  BY <2>1
  <2> QED  BY <2>1, <2>2, <2>3, <1>p DEF TypeOK
<1> HIDE DEF dead
<1>d. \A c \in Children : c \in K <=> Home[c] = p /\ child[c].phase = "running" /\ child[c].on = Redis
  BY DEF K, dead
<1>r. \A c \in Children : child[c].on # NoLedger =>
        child[c].phase = "running" /\ child[c].on \in {Redis, Home[c]}
  BY DEF Outlives, Holds
<1>o. \A l : Outran(l)' = Outran(l)  BY <1>0 DEF Outran
<1>1. HeldOn(p)' = {}  BY <1>0, <1>r, <1>p, ConstantFacts DEF HeldOn
<1>2. HeldOn(Redis)' = HeldOn(Redis) \ K /\ K \subseteq HeldOn(Redis)
  BY <1>0, <1>d, <1>r, <1>p, ConstantFacts DEF HeldOn
<1>3. ASSUME NEW l \in Ledgers, l # p, l # Redis PROVE HeldOn(l)' = HeldOn(l)
  BY <1>0, <1>r, <1>3, ConstantFacts DEF HeldOn
<1>4. Gone' = Gone \union K /\ K \cap Gone = {}
  <2>1. \A c \in K : ~lost[c]  BY <1>d, ConstantFacts DEF Outlives, Holds
  <2> QED  BY <2>1, <1>0 DEF Gone
<1>h. \A l \in Ledgers : Exact(l)  BY DEF Accounts
<1> HIDE DEF K
<1>5. ASSUME NEW l \in Ledgers PROVE Exact(l)'
  <2>1. CASE l = p  BY <2>1, <1>0, <1>1, ExactEmpty
  <2>2. CASE l = Redis
    <3>1. Exact(Redis)'  BY <1>0, <1>2, <1>4, <1>h, <1>o, <1>p, ExactLost
    <3> QED  BY <3>1, <2>2
  <2>3. CASE l # p /\ l # Redis
    <3>1. Gone \subseteq Gone'  BY <1>4
    <3> QED  BY <2>3, <3>1, <1>0, <1>3, <1>h, <1>o, ExactKept
  <2> QED  BY <2>1, <2>2, <2>3
<1>6. Outlives'
  <2> SUFFICES ASSUME NEW c \in Children, child'[c].on # NoLedger PROVE Holds(c)'  BY DEF Outlives
  <2>1. child'[c] = child[c] /\ ~(Home[c] = p /\ child[c].phase = "running")  BY <1>0
  <2>2. Home[c] # p  BY <2>1, <1>r
  <2>3. child[c].on # p /\ child[c].on \in Ledgers  BY <2>1, <2>2, <1>r, <1>p, ConstantFacts
  <2>4. c \notin K  BY <2>2, <1>d
  <2> QED  BY <2>1, <2>3, <2>4, <1>0 DEF Outlives, Holds
<1>7. BeforeLoss'
  <2>1. \A c \in K : child[c].phase = "running"  BY <1>d DEF K
  <2> SUFFICES ASSUME NEW c \in Children, child'[c].phase = "idle" PROVE ~lost'[c] /\ outran'[c] = NoLedger
    BY DEF BeforeLoss
  <2>2. child'[c] = child[c]  BY <1>0
  <2> QED  BY <2>1, <2>2, <1>0 DEF BeforeLoss
<1> QED  BY <1>5, <1>6, <1>7 DEF Accounts

LEMMA BudgetStep == BudgetInv /\ [Next]_vars => BudgetInv'
<1> SUFFICES ASSUME BudgetInv, [Next]_vars PROVE BudgetInv'  OBVIOUS
<1>1. TypeOK'  BY TypeStep DEF BudgetInv
<1>2. ASSUME NEW c \in Children, ReserveOnRedis(c) PROVE Outlives' /\ BeforeLoss' /\ Accounts'
  BY <1>2, OnRedis
<1>3. ASSUME NEW c \in Children, RunUnreserved(c) PROVE Outlives' /\ BeforeLoss' /\ Accounts'
  BY <1>3, Unreserved
<1>4. ASSUME NEW c \in Children, NEW stray \in BOOLEAN, ReserveLocally(c, stray)
      PROVE  Outlives' /\ BeforeLoss' /\ Accounts'
  BY <1>4, Locally
<1>5. ASSUME NEW c \in Children, NEW use \in Uses, NEW actual \in Reported(use), End(c, use, actual)
      PROVE  Outlives' /\ BeforeLoss' /\ Accounts'
  <2>1. actual \in Amounts  BY ConstantFacts, AmountFacts DEF Reported
  <2> QED  BY <2>1, <1>5, Ending
<1>6. ASSUME Tick PROVE Outlives' /\ BeforeLoss' /\ Accounts'  BY <1>6, Ticking
<1>7. ASSUME NEW p \in Processes, Crash(p) PROVE Outlives' /\ BeforeLoss' /\ Accounts'
  BY <1>7, Crashing
<1>8. ASSUME UNCHANGED vars PROVE Outlives' /\ BeforeLoss' /\ Accounts'
  <2>1. Gone' = Gone /\ \A l : HeldOn(l)' = HeldOn(l) /\ Outran(l)' = Outran(l)
    BY <1>8 DEF vars, Gone, HeldOn, Outran
  <2>2. \A l \in Ledgers : Exact(l)  BY DEF BudgetInv, Accounts
  <2>3. \A l \in Ledgers : Exact(l)'  BY <1>8, <2>1, <2>2, ExactKept DEF vars
  <2>4. Outlives' /\ BeforeLoss'  BY <1>8 DEF BudgetInv, Outlives, Holds, BeforeLoss, vars
  <2> QED  BY <2>3, <2>4 DEF Accounts
<1> QED  BY <1>1, <1>2, <1>3, <1>4, <1>5, <1>6, <1>7, <1>8 DEF Next, BudgetInv

\* A reservation is dropped only where a delegation outran the ledger's time, one
\* for each that did, and none counts twice: for any number of delegations and
\* processes, any run times and whatever fails.
THEOREM Reservations == Spec => [](TypeOK /\ ReservationsHeld)
<1>1. BudgetInv => TypeOK /\ ReservationsHeld  BY AllExact DEF BudgetInv
<1> QED  BY <1>1, BudgetInit, BudgetStep, PTL DEF Spec


-----------------------------------------------------------------------------
(* One envelope *)

\* What holds beside the invariant while the mission is whole: every running
\* delegation is on the one ledger, which knows all that was
\* used and all that they reserved.
OneLedger ==
  /\ \A c \in Children : child[c].phase = "running" => child[c].on = Redis
  /\ \A c \in Children : ~lost[c]
  /\ ledger[Redis].spent = used
  /\ \A d \in Dims : ledger[Redis].reserved[d] = Reserve[d] * Cardinality(Live)
  /\ ledger[Redis].ttl = 0 => ledger[Redis] = Empty

Known == whole => OneLedger

LEMMA KnownInit == Init => BudgetInv /\ Known
<1>1. ASSUME Init PROVE OneLedger
  <2>1. Live = {}  BY <1>1 DEF Init, Live
  <2>2. Cardinality(Live) = 0  BY <2>1, FS_EmptySet
  <2>3. \A d \in Dims : Reserve[d] * 0 = 0  BY ConstantFacts DEF Amounts
  <2>4. ledger[Redis] = Empty  BY <1>1, ConstantFacts DEF Init
  <2>5. /\ ledger[Redis].spent = used /\ ledger[Redis].ttl = 0
        /\ \A d \in Dims : ledger[Redis].reserved[d] = Reserve[d] * Cardinality(Live)
    <3>1. ledger[Redis].spent = Zero /\ ledger[Redis].reserved = Zero /\ ledger[Redis].ttl = 0
      BY <2>4 DEF Empty
    <3>2. \A d \in Dims : Zero[d] = 0  BY DEF Zero
    <3>3. used = Zero  BY <1>1 DEF Init
    <3> QED  BY <2>2, <2>3, <3>1, <3>2, <3>3
  <2>6. /\ \A c \in Children : child[c].phase = "running" => child[c].on = Redis
        /\ \A c \in Children : ~lost[c]
    BY <1>1 DEF Init
  <2> QED  BY <2>4, <2>5, <2>6 DEF OneLedger
<1> QED  BY <1>1, BudgetInit DEF Known

\* A mission that is no longer whole never is again.
LEMMA StillWhole == TypeOK /\ [Next]_vars /\ whole' => whole
BY DEF TypeOK, Next, ReserveOnRedis, Refused, ReserveLocally, RunUnreserved, End, Tick, Crash, vars

LEMMA EnvelopeStep ==
  ASSUME BudgetInv, Known, [Next]_vars, whole'
  PROVE  OneLedger' /\ (Envelope!Next \/ UNCHANGED <<used, Live>>)
<1>w. whole  BY StillWhole DEF BudgetInv
<1>0. /\ TypeOK /\ Outlives /\ OneLedger /\ Redis \in Ledgers /\ TTL \in Nat
      /\ \A l \in Ledgers : ledger[l].ttl \in 0..TTL
  BY <1>w, BudgetAssumption, ConstantFacts DEF BudgetInv, Known, TypeOK
<1>l. Live = HeldOn(Redis)  BY <1>0, ConstantFacts DEF Live, HeldOn, OneLedger, Outlives, Holds
<1>n. IsFiniteSet(Live) /\ Cardinality(Live) \in Nat  BY <1>l, Counts
<1>r. \A d \in Dims : ledger[Redis].reserved[d] = Reserve[d] * Cardinality(Live)  BY <1>0 DEF OneLedger
<1>1. ASSUME NEW c \in Children, ReserveOnRedis(c)
      PROVE  OneLedger' /\ (Envelope!Next \/ UNCHANGED <<used, Live>>)
  <2>1. CASE Fits(Redis)
    <3>1. /\ child[c].phase = "idle" /\ lost' = lost /\ used' = used
          /\ child' = [child EXCEPT ![c] = [phase |-> "running", on |-> Redis, age |-> 0]]
          /\ ledger' = [ledger EXCEPT ![Redis] = Reserved(ledger[Redis])]
      BY <1>1, <2>1 DEF ReserveOnRedis, Runs
    <3>2. \A e \in Children : child'[e] =
            IF e = c THEN [phase |-> "running", on |-> Redis, age |-> 0] ELSE child[e]
      BY <3>1, <1>0 DEF TypeOK
    <3>3. ledger'[Redis].spent = ledger[Redis].spent /\ ledger'[Redis].ttl = TTL
      BY <3>1, <1>0 DEF TypeOK, Reserved
    <3>4. TTL # 0  BY BudgetAssumption
    <3>6. c \notin Live /\ Live' = Live \union {c}  BY <3>1, <3>2 DEF Live
    <3>9. \A d \in Dims : ledger'[Redis].reserved[d] = Reserve[d] * Cardinality(Live')
      <4> TAKE d \in Dims
      <4>1. ledger'[Redis].reserved[d] = ledger[Redis].reserved[d] + Reserve[d]
        BY <3>1, <1>0 DEF TypeOK, Reserved, Plus
      <4>2. Cardinality(Live') = Cardinality(Live) + 1  BY <3>6, <1>n, FS_AddElement
      <4>3. Reserve[d] \in Nat  BY ConstantFacts DEF Amounts
      <4> QED  BY <4>1, <4>2, <4>3, <1>n, <1>r, Products
    <3>5. OneLedger'  BY <3>1, <3>2, <3>3, <3>4, <3>9, <1>0 DEF OneLedger
    <3>7. ASSUME NEW d \in Dims, Limit[d] > 0
          PROVE  used[d] + Reserve[d] * (Cardinality(Live) + 1) <= Limit[d]
      <4>1. used[d] + ledger[Redis].reserved[d] + Reserve[d] <= Limit[d]
        BY <2>1, <3>7, <1>0 DEF Fits, OneLedger
      <4>2. Reserve[d] \in Nat /\ used[d] \in Nat  BY <1>0, ConstantFacts DEF TypeOK, Amounts
      <4>3. Cardinality(Live) \in Nat  BY <1>l, Counts
      <4>4. Reserve[d] * (Cardinality(Live) + 1) = ledger[Redis].reserved[d] + Reserve[d]
        <5>1. Reserve[d] * (Cardinality(Live) + 1) = Reserve[d] * Cardinality(Live) + Reserve[d]
          BY <4>2, <4>3, Products
        <5> QED  BY <5>1, <1>r
      <4>5. ledger[Redis].reserved[d] \in Nat  BY <4>2, <4>3, <1>r, Products
      <4> QED  BY <4>1, <4>2, <4>4, <4>5
    <3>8. Envelope!Admit(c)
      <4>1. used' = used  BY <3>1
      <4> QED  BY <4>1, <3>6, <3>7 DEF Envelope!Admit, Envelope!Cardinality, Cardinality
    <3> QED  BY <3>5, <3>8 DEF Envelope!Next
  <2>2. CASE ~Fits(Redis)
    <3>1. /\ child[c].phase = "idle" /\ lost' = lost /\ used' = used /\ ledger' = ledger
          /\ child' = [child EXCEPT ![c].phase = "refused"]
      BY <1>1, <2>2 DEF ReserveOnRedis, Refused
    <3>2. \A e \in Children : /\ child'[e].phase = "running" <=> child[e].phase = "running"
                              /\ child'[e].on = child[e].on
      BY <3>1, <1>0 DEF TypeOK
    <3>3. Live' = Live  BY <3>2 DEF Live
    <3>4. OneLedger'  BY <3>1, <3>2, <3>3, <1>0 DEF OneLedger
    <3> QED  BY <3>1, <3>3, <3>4
  <2> QED  BY <2>1, <2>2
<1>2. ASSUME NEW c \in Children, NEW use \in Uses, NEW actual \in Reported(use), End(c, use, actual)
      PROVE  OneLedger' /\ (Envelope!Next \/ UNCHANGED <<used, Live>>)
  <2>1. child[c].on = Redis /\ child[c].phase = "running"  BY <1>2, <1>0 DEF End, OneLedger
  <2>0. actual = use /\ use \in Amounts  BY <1>2, <2>1, ConstantFacts DEF End
  <2>2. /\ ledger' = [ledger EXCEPT ![Redis] = Reconciled(ledger[Redis], use)]
        /\ lost' = lost /\ used' = Plus(used, use)
        /\ child' = [child EXCEPT ![c] = [phase |-> "done", on |-> NoLedger, age |-> 0]]
    BY <1>2, <2>0, <2>1, <1>0, ConstantFacts DEF End
  <2>3. \A e \in Children : child'[e] =
          IF e = c THEN [phase |-> "done", on |-> NoLedger, age |-> 0] ELSE child[e]
    BY <2>2, <1>0 DEF TypeOK
  <2>4. ledger'[Redis].spent = Plus(ledger[Redis].spent, use) /\ ledger'[Redis].ttl = TTL
    BY <2>2, <1>0 DEF TypeOK, Reconciled
  <2>5. TTL # 0  BY BudgetAssumption
  <2>7. c \in Live /\ Live' = Live \ {c}  BY <2>1, <2>3 DEF Live
  <2>9. \A d \in Dims : ledger'[Redis].reserved[d] = Reserve[d] * Cardinality(Live')
    <3> TAKE d \in Dims
    <3>1. ledger'[Redis].reserved[d] =
            IF ledger[Redis].reserved[d] < Reserve[d] THEN 0 ELSE ledger[Redis].reserved[d] - Reserve[d]
      BY <2>2, <1>0 DEF TypeOK, Reconciled, Monus
    <3>2. Cardinality(Live') = Cardinality(Live) - 1  BY <2>7, <1>n, FS_RemoveElement
    <3>3. Reserve[d] \in Nat  BY ConstantFacts DEF Amounts
    <3>4. Cardinality(Live) > 0
      <4>1. Cardinality(Live) # 0  BY <2>7, <1>n, FS_EmptySet
      <4> QED  BY <4>1, <1>n
    <3>5. /\ Reserve[d] * Cardinality(Live) >= Reserve[d]
          /\ Reserve[d] * Cardinality(Live) - Reserve[d] = Reserve[d] * (Cardinality(Live) - 1)
          /\ Reserve[d] * Cardinality(Live) \in Nat
      BY <3>3, <3>4, <1>n, Products
    <3>6. ledger[Redis].reserved[d] = Reserve[d] * Cardinality(Live)  BY <1>r
    <3>7. ledger'[Redis].reserved[d] = Reserve[d] * Cardinality(Live) - Reserve[d]
      BY <3>1, <3>3, <3>5, <3>6
    <3> QED  BY <3>2, <3>5, <3>7
  <2>6. OneLedger'  BY <2>2, <2>3, <2>4, <2>5, <2>9, <1>0 DEF OneLedger
  <2>8. Envelope!Finish(c, use)  BY <2>2, <2>7 DEF Envelope!Finish, Envelope!Plus, Plus
  <2> QED  BY <2>6, <2>8 DEF Envelope!Next
<1>3. ASSUME Tick PROVE OneLedger' /\ (Envelope!Next \/ UNCHANGED <<used, Live>>)
  <2>1. /\ \A c \in Children : child'[c].phase = child[c].phase /\ child'[c].on = child[c].on
        /\ \A c \in Children : lost'[c] = lost[c]
        /\ ledger'[Redis] = Older(ledger[Redis]) /\ ledger[Redis].ttl # 1 /\ used' = used
    BY <1>3, <1>0 DEF Tick, TypeOK, OneLedger
  <2>2. Live' = Live  BY <2>1 DEF Live
  <2>3. ledger'[Redis].spent = used /\ (ledger'[Redis].ttl = 0 => ledger'[Redis] = Empty)
    <3>1. CASE ledger[Redis].ttl = 0
      <4>1. ledger'[Redis] = Empty  BY <2>1, <3>1 DEF Older
      <4> QED  BY <4>1, <3>1, <1>0 DEF OneLedger
    <3>2. CASE ledger[Redis].ttl # 0
      <4>1. ledger[Redis].ttl > 1  BY <1>0, <2>1, <3>2
      <4>2. ledger'[Redis] = [ledger[Redis] EXCEPT !.ttl = ledger[Redis].ttl - 1]
        BY <2>1, <4>1, <1>0 DEF Older
      <4>3. ledger'[Redis].spent = ledger[Redis].spent /\ ledger'[Redis].ttl = ledger[Redis].ttl - 1
        BY <4>2, <1>0 DEF TypeOK
      <4> QED  BY <4>1, <4>3, <1>0 DEF OneLedger
    <3> QED  BY <3>1, <3>2
  <2>5. ledger'[Redis].reserved = ledger[Redis].reserved
    <3>1. CASE ledger[Redis].ttl = 0
      <4>1. ledger'[Redis] = Empty /\ ledger[Redis] = Empty  BY <2>1, <3>1, <1>0 DEF Older, OneLedger
      <4> QED  BY <4>1
    <3>2. CASE ledger[Redis].ttl # 0
      <4>1. ledger[Redis].ttl > 1  BY <1>0, <2>1, <3>2
      <4>2. ledger'[Redis] = [ledger[Redis] EXCEPT !.ttl = ledger[Redis].ttl - 1]
        BY <2>1, <4>1, <1>0 DEF Older
      <4> QED  BY <4>2, <1>0 DEF TypeOK
    <3> QED  BY <3>1, <3>2
  <2>4. OneLedger'  BY <2>1, <2>2, <2>3, <2>5, <1>0 DEF OneLedger
  <2> QED  BY <2>1, <2>2, <2>4
<1>4. ASSUME UNCHANGED vars PROVE OneLedger' /\ (Envelope!Next \/ UNCHANGED <<used, Live>>)
  BY <1>4, <1>0 DEF vars, OneLedger, Live
<1>5. ASSUME NEW c \in Children, NEW stray \in BOOLEAN, ReserveLocally(c, stray) PROVE FALSE
  BY <1>5 DEF ReserveLocally
<1>6. ASSUME NEW c \in Children, RunUnreserved(c) PROVE FALSE  BY <1>6 DEF RunUnreserved
<1>7. ASSUME NEW p \in Processes, Crash(p)
      PROVE  OneLedger' /\ (Envelope!Next \/ UNCHANGED <<used, Live>>)
  <2>1. \A c \in Children : ~(Home[c] = p /\ child[c].phase = "running")  BY <1>7 DEF Crash
  <2>2. /\ \A c \in Children : child'[c] = child[c] /\ lost'[c] = lost[c]
        /\ used' = used /\ ledger'[Redis] = ledger[Redis]
    BY <1>7, <2>1, <1>0, ConstantFacts DEF Crash, TypeOK
  <2>3. Live' = Live  BY <2>2 DEF Live
  <2>4. OneLedger'  BY <2>2, <2>3, <1>0 DEF OneLedger
  <2> QED  BY <2>2, <2>3, <2>4
<1> QED  BY <1>1, <1>2, <1>3, <1>4, <1>5, <1>6, <1>7 DEF Next

LEMMA KnownStep == BudgetInv /\ Known /\ [Next]_vars => BudgetInv' /\ Known'
<1> SUFFICES ASSUME BudgetInv, Known, [Next]_vars PROVE BudgetInv' /\ Known'  OBVIOUS
<1>1. BudgetInv'  BY BudgetStep
<1>2. whole' => OneLedger'  BY EnvelopeStep
<1> QED  BY <1>1, <1>2 DEF Known

LEMMA BudgetKnown == Spec => [](BudgetInv /\ Known)
BY KnownInit, KnownStep, PTL DEF Spec

\* While the mission is whole, what its children used is on the ledger.
THEOREM Recorded == Spec => []UsageRecorded
<1>1. Known => UsageRecorded  BY DEF Known, OneLedger, UsageRecorded
<1> QED  BY <1>1, BudgetKnown, PTL

\* While the mission is whole the ledger implements the envelope of
\* MissionEnvelope: a delegation starts only if what was used, what may still be
\* used and its own estimate fit the limits.
THEOREM Enveloped == Spec => OneEnvelope
<1>1. BudgetInv /\ Known /\ [Next]_vars =>
        [whole' => Envelope!Next \/ UNCHANGED <<used, Live>>]_vars
  BY EnvelopeStep
<1> QED  BY <1>1, BudgetKnown, PTL DEF Spec, OneEnvelope

\* Then, too, the ceiling is a hard one but for what the delegations that ended
\* since the last admission used above their estimates: whatever they use, for any
\* limits and estimates.
THEOREM Ceiling == Spec => []HardCeiling
<1> DEFINE Covered == \A d \in Dims : Limit[d] > 0 =>
                        used[d] + Reserve[d] * Cardinality(Live) <= Limit[d] + over[d]
           Inv == BudgetInv /\ Known /\ (whole => Covered)
<1>0. \A d \in Dims : Reserve[d] \in Nat /\ Limit[d] \in Nat  BY ConstantFacts DEF Amounts
<1>1. ASSUME Init PROVE Inv
  <2>1. Live = {} /\ used = Zero /\ over = Zero  BY <1>1 DEF Init, Live
  <2>2. Cardinality(Live) = 0  BY <2>1, FS_EmptySet
  <2>3. \A d \in Dims : used[d] + Reserve[d] * 0 = 0 /\ over[d] = 0  BY <2>1, <1>0 DEF Zero
  <2> QED  BY <1>1, <2>2, <2>3, <1>0, KnownInit
<1>2. ASSUME Inv, [Next]_vars PROVE Inv'
  <2>2. BudgetInv' /\ Known'  BY <1>2, KnownStep
  <2> SUFFICES ASSUME whole' PROVE Covered'  BY <2>2
  <2>w. Covered /\ whole /\ OneLedger  BY <1>2, StillWhole DEF BudgetInv, Known
  <2>f. IsFiniteSet(Live) /\ Cardinality(Live) \in Nat
    <3>1. Live \in SUBSET Children  BY DEF Live
    <3> QED  BY <3>1, ConstantFacts, FS_Subset, FS_CardinalityType
  <2>u. \A d \in Dims : used[d] \in Nat /\ over[d] \in Nat  BY <1>2 DEF BudgetInv, TypeOK
  <2>o. ledger'[Redis].spent = used' /\ \A d \in Dims : ledger'[Redis].reserved[d] = Reserve[d] * Cardinality(Live')
    BY <1>2, EnvelopeStep DEF OneLedger
  \* An admission: the estimates of all that run fit under the limit.
  <2>3. ASSUME NEW c \in Children, ReserveOnRedis(c), Fits(Redis) PROVE Covered'
    <3>1. ASSUME NEW d \in Dims, Limit[d] > 0
          PROVE  used'[d] + Reserve[d] * Cardinality(Live') <= Limit[d] + over'[d]
      <4>1. ledger[Redis].spent[d] + ledger[Redis].reserved[d] + Reserve[d] <= Limit[d]
        BY <2>3, <3>1 DEF Fits
      <4>2. /\ ledger' = [ledger EXCEPT ![Redis] = Reserved(ledger[Redis])]
            /\ used' = used /\ over' = Zero
        BY <2>3 DEF ReserveOnRedis
      <4>3. ledger'[Redis].reserved[d] = ledger[Redis].reserved[d] + Reserve[d]
        BY <4>2, <1>2, ConstantFacts DEF BudgetInv, TypeOK, Reserved, Plus
      <4>4. ledger[Redis].spent = used  BY <2>w DEF OneLedger
      <4>5. over'[d] = 0  BY <4>2 DEF Zero
      <4>6. ledger[Redis].reserved[d] \in Nat  BY <1>2, ConstantFacts DEF BudgetInv, TypeOK
      <4> QED  BY <4>1, <4>2, <4>3, <4>4, <4>5, <4>6, <2>o, <2>u, <1>0
    <3> QED  BY <3>1
  \* An end: the estimate gives way to the use, and `over` to what exceeds it.
  <2>4. ASSUME NEW c \in Children, NEW use \in Uses, NEW actual \in Reported(use), End(c, use, actual)
        PROVE  Covered'
    <3>1. /\ c \in Live /\ used' = Plus(used, use) /\ over' = Plus(over, Monus(use, Reserve))
          /\ child' = [child EXCEPT ![c] = [phase |-> "done", on |-> NoLedger, age |-> 0]]
      BY <2>4 DEF End, Live
    <3>2. Live' = Live \ {c}  BY <3>1, <1>2 DEF BudgetInv, TypeOK, Live
    <3>3. Cardinality(Live') = Cardinality(Live) - 1  BY <3>1, <3>2, <2>f, FS_RemoveElement
    <3>4. Cardinality(Live) > 0
      <4>1. Cardinality(Live) # 0  BY <3>1, <2>f, FS_EmptySet
      <4> QED  BY <4>1, <2>f
    <3>5. ASSUME NEW d \in Dims, Limit[d] > 0
          PROVE  used'[d] + Reserve[d] * Cardinality(Live') <= Limit[d] + over'[d]
      <4>1. used'[d] = used[d] + use[d]  BY <3>1 DEF Plus
      <4>2. over'[d] = over[d] + (IF use[d] < Reserve[d] THEN 0 ELSE use[d] - Reserve[d])
        BY <3>1 DEF Plus, Monus
      <4>3. use[d] \in Nat  BY ConstantFacts DEF Amounts
      <4>4. /\ Reserve[d] * Cardinality(Live) - Reserve[d] = Reserve[d] * (Cardinality(Live) - 1)
            /\ Reserve[d] * Cardinality(Live) \in Nat
        BY <1>0, <2>f, <3>4, Products
      <4>5. used[d] + Reserve[d] * Cardinality(Live) <= Limit[d] + over[d]  BY <2>w, <3>5
      <4>6. Reserve[d] * Cardinality(Live') = Reserve[d] * Cardinality(Live) - Reserve[d]
        BY <3>3, <4>4
      <4> QED  BY <4>1, <4>2, <4>3, <4>4, <4>5, <4>6, <2>u, <1>0
    <3> QED  BY <3>5
  <2>5. ASSUME over' = over, UNCHANGED <<used, Live>> PROVE Covered'  BY <2>5, <2>w
  <2>6. ASSUME NEW c \in Children, ReserveOnRedis(c), ~Fits(Redis) PROVE Covered'
    <3>1. /\ child[c].phase = "idle" /\ used' = used /\ over' = over
          /\ child' = [child EXCEPT ![c].phase = "refused"]
      BY <2>6, <2>w DEF ReserveOnRedis, Refused
    <3>2. \A e \in Children : child'[e].phase = "running" <=> child[e].phase = "running"
      BY <3>1, <1>2 DEF BudgetInv, TypeOK
    <3> QED  BY <3>1, <3>2, <2>5 DEF Live
  <2>7. ASSUME Tick PROVE Covered'
    <3>1. \A e \in Children : child'[e].phase = child[e].phase  BY <2>7, <1>2 DEF Tick, BudgetInv, TypeOK
    <3> QED  BY <2>7, <3>1, <2>5 DEF Tick, Live
  <2>8. ASSUME NEW p \in Processes, Crash(p) PROVE Covered'
    <3>1. \A c \in Children : ~(Home[c] = p /\ child[c].phase = "running")  BY <2>8 DEF Crash
    <3>2. \A c \in Children : child'[c] = child[c]  BY <2>8, <3>1 DEF Crash
    <3> QED  BY <2>8, <3>2, <2>5 DEF Crash, Live
  <2>9. ASSUME NEW c \in Children, NEW stray \in BOOLEAN, ReserveLocally(c, stray) PROVE FALSE
    BY <2>9 DEF ReserveLocally
  <2>10. ASSUME NEW c \in Children, RunUnreserved(c) PROVE FALSE  BY <2>10 DEF RunUnreserved
  <2>11. ASSUME UNCHANGED vars PROVE Covered'  BY <2>11, <2>5 DEF vars, Live
  <2> QED
    BY <1>2, <2>3, <2>4, <2>6, <2>7, <2>8, <2>9, <2>10, <2>11 DEF Next
<1>3. ASSUME Inv PROVE HardCeiling
  <2> SUFFICES ASSUME whole PROVE \A d \in Dims : Limit[d] > 0 => used[d] <= Limit[d] + over[d]
    BY DEF HardCeiling
  <2>1. Cardinality(Live) \in Nat
    <3>1. Live \in SUBSET Children  BY DEF Live
    <3> QED  BY <3>1, ConstantFacts, FS_Subset, FS_CardinalityType
  <2>2. ASSUME NEW d \in Dims, Limit[d] > 0 PROVE used[d] <= Limit[d] + over[d]
    <3>1. used[d] \in Nat /\ over[d] \in Nat  BY <1>3 DEF BudgetInv, TypeOK
    <3>2. Reserve[d] * Cardinality(Live) \in Nat  BY <1>0, <2>1, Products
    <3>3. used[d] + Reserve[d] * Cardinality(Live) <= Limit[d] + over[d]  BY <1>3, <2>2
    <3> QED  BY <3>1, <3>2, <3>3, <1>0
  <2> QED  BY <2>2
<1> HIDE DEF Inv
<1> QED  BY <1>1, <1>2, <1>3, PTL DEF Spec

=============================================================================
