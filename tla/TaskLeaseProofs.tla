--------------------------- MODULE TaskLeaseProofs ---------------------------
(* Theorems about TaskLease for every number of delegations, processes and *)
(* candidates, in a cluster and in a single process.                       *)
EXTENDS TaskLease, TLAPS

LEMMA FreshLeaseType ==
  ASSUME TypeOK, NEW b \in Backend
  PROVE  FreshLease(b) \in Lease /\ FreshLease(b) # NoLease
  BY DEF TypeOK, FreshLease, Lease, NoLease

\* The variables keep their types.
LEMMA TypeStep == TypeOK /\ [Next]_vars => TypeOK'
<1> SUFFICES ASSUME TypeOK, [Next]_vars PROVE TypeOK'
  OBVIOUS
<1> USE LeaseAssumption DEF Backend, Running, Owning, Ended, Outcome, store, worker
<1>1. ASSUME NEW w \in Workers, NEW b \in Backend, Acquire(w, b) PROVE TypeOK'
  BY <1>1, FreshLeaseType DEF TypeOK, Acquire, NextCandidate, SetKey
<1>2. ASSUME NEW w \in Workers, NEW b \in Backend, Contend(w, b) PROVE TypeOK'
  BY <1>2 DEF TypeOK, Contend, NextCandidate
<1>3. ASSUME NEW w \in Workers, Refuse(w) PROVE TypeOK'
  BY <1>3 DEF TypeOK, Refuse, NextCandidate
<1>4. ASSUME NEW w \in Workers, AnswerLost(w) PROVE TypeOK'
  <2> USE <1>4 DEF AnswerLost, NextCandidate
  <2>1. held' \in [Backend -> Lease] /\ fence' \in [Backend -> Nat]
    BY FreshLeaseType DEF TypeOK
  <2>2. FreshLease("local") \in Lease
    BY FreshLeaseType
  <2>3. CASE Clustered \/ held["local"] # NoLease
    <3>1. pc' \in [Workers -> Owning \union Ended \union {"idle", "following"}]
      BY <2>3 DEF TypeOK
    <3> QED
      BY <2>1, <2>3, <3>1 DEF TypeOK
  <2>4. CASE ~Clustered /\ held["local"] = NoLease
    <3>1. mine' \in [Workers -> Lease]
      BY <2>2, <2>4 DEF TypeOK
    <3>2. pc' \in [Workers -> Owning \union Ended \union {"idle", "following"}]
      BY <2>4 DEF TypeOK
    <3>3. QED
      <4>1. via' \in [Workers -> Backend] /\ lost' \in [Workers -> BOOLEAN]
        BY <2>4 DEF TypeOK
      <4>2. online' \in [Process -> BOOLEAN] /\ acquired' \in Nat /\ orphans' \subseteq Backend \X Nat
        BY DEF TypeOK
      <4>3. tries' \in [Workers -> 0 .. Candidates] /\ outcome' \in [Workers -> Outcome]
        BY <2>4 DEF TypeOK
      <4>4. UNCHANGED <<result, checks, renewing>>
        OBVIOUS
      <4> QED
        BY <2>1, <3>1, <3>2, <4>1, <4>2, <4>3, <4>4 DEF TypeOK
  <2> QED
    BY <2>3, <2>4
<1>5. ASSUME NEW w \in Workers, Follow(w) PROVE TypeOK'
  BY <1>5 DEF TypeOK, Follow, Readable, NoLease, Lease
<1>6. ASSUME NEW w \in Workers, GiveUpFollowing(w) PROVE TypeOK'
  BY <1>6 DEF TypeOK, GiveUpFollowing
<1>7. ASSUME NEW w \in Workers, Tick(w) PROVE TypeOK'
  BY <1>7 DEF TypeOK, Tick
<1>8. ASSUME NEW w \in Workers, SetBack(w) PROVE held' \in [Backend -> Lease]
  BY <1>8 DEF TypeOK, SetBack
<1>9. ASSUME NEW w \in Workers, Renew(w) PROVE TypeOK'
  <2>1. (lost[w] \/ Superseded(w)) \in BOOLEAN
    BY DEF TypeOK, Superseded, Answered, StillHeld, Unclaimed, Reachable
  <2> QED
    BY <1>8, <1>9, <2>1 DEF TypeOK, Renew
<1>10. ASSUME NEW w \in Workers, Decline(w) \/ Fail(w) \/ Reject(w) PROVE TypeOK'
  BY <1>10 DEF TypeOK, Decline, Fail, Reject, Close
<1>11. ASSUME NEW w \in Workers, Return(w) PROVE TypeOK'
  BY <1>11 DEF TypeOK, Return, Close
<1>12. ASSUME NEW w \in Workers, Confirm(w) PROVE TypeOK'
  BY <1>8, <1>12 DEF TypeOK, Confirm, Close, AttemptsLeft
<1>13. ASSUME NEW w \in Workers, Record(w) PROVE TypeOK'
  BY <1>13 DEF TypeOK, Record
<1>14. ASSUME NEW w \in Workers, Publish(w) PROVE TypeOK'
  BY <1>14 DEF TypeOK, Publish
<1>15. ASSUME NEW w \in Workers, Release(w) PROVE TypeOK'
  <2> USE <1>15 DEF Release, MayRelease
  <2>1. held' \in [Backend -> Lease] /\ orphans' \subseteq Backend \X Nat
    BY DEF TypeOK, NoLease, Lease
  <2>2. mine' \in [Workers -> Lease] /\ lost' \in [Workers -> BOOLEAN]
    BY DEF TypeOK, NoLease, Lease
  <2>3. pc' \in [Workers -> Owning \union Ended \union {"idle", "following"}]
    BY DEF TypeOK
  <2> QED
    BY <2>1, <2>2, <2>3 DEF TypeOK
<1>16. ASSUME NEW b \in Backend, ExpireLease(b) \/ ExpireResult(b) PROVE TypeOK'
  BY <1>16 DEF TypeOK, ExpireLease, ExpireResult, NoLease, Lease
<1>17. ASSUME ExpireFence PROVE TypeOK'
  BY <1>17 DEF TypeOK, ExpireFence
<1>18. ASSUME NEW p \in Process, Connection(p) PROVE TypeOK'
  BY <1>18 DEF TypeOK, Connection
<1>19. ASSUME NEW p \in Process, Crash(p) PROVE TypeOK'
  BY <1>19 DEF TypeOK, Crash, NoLease, Lease
<1>20. CASE UNCHANGED vars
  BY <1>20 DEF TypeOK, vars
<1> QED
  BY <1>1, <1>2, <1>3, <1>4, <1>5, <1>6, <1>7, <1>9, <1>10, <1>11, <1>12, <1>13,
     <1>14, <1>15, <1>16, <1>17, <1>18, <1>19, <1>20 DEF Next, WorkerStep

LEMMA TypeInit == Init => TypeOK
  BY LeaseAssumption DEF Init, TypeOK, Backend, Lease, NoLease, Owning, Running, Ended, Outcome

\* Every variable of the lease protocol keeps its type, whatever the numbers
\* of workers, processes and candidates.
THEOREM TypeCorrect == Spec => []TypeOK
  BY TypeInit, TypeStep, PTL DEF Spec

-----------------------------------------------------------------------------
(* No lease comes back to life, and the fences may run out: what keeps it is *)
(* who owns what, and not who has which token.                               *)

Accounted(b) ==
  held[b] # NoLease =>
    \/ Orphaned(b)
    \/ \E w \in Workers : pc[w] \in Owning /\ via[w] = b /\ mine[w] = held[b]

LeasesAccounted == RenewalsOwned /\ \A b \in Backend : Accounted(b)

\* A key stays accounted for while the owners stay and it is left as it is.
LEMMA StaysAccounted ==
  ASSUME NEW b \in Backend, Accounted(b), held'[b] = held[b], orphans \subseteq orphans',
         \A v \in Workers : pc[v] \in Owning /\ via[v] = b /\ mine[v] = held[b] =>
           \/ pc'[v] \in Owning /\ via'[v] = via[v] /\ mine'[v] = mine[v]
           \/ <<b, mine[v].owner>> \in orphans'
  PROVE  Accounted(b)'
<1>1. CASE Orphaned(b)  BY <1>1 DEF Accounted, Orphaned
<1>2. ASSUME NEW v \in Workers, pc[v] \in Owning, via[v] = b, mine[v] = held[b]
      PROVE  Accounted(b)'
  BY <1>2 DEF Accounted, Orphaned
<1> QED  BY <1>1, <1>2 DEF Accounted

\* A key that a worker has just set is that worker's.
LEMMA OwnedAccounted ==
  ASSUME NEW b \in Backend, NEW w \in Workers, pc'[w] \in Owning, via'[w] = b,
         mine'[w] = held'[b]
  PROVE  Accounted(b)'
BY DEF Accounted

LEMMA GrantAccounted ==
  ASSUME TypeOK, LeasesAccounted, NEW w \in Workers,
         (\E b \in Backend : Acquire(w, b)) \/ AnswerLost(w)
  PROVE  LeasesAccounted'
<1>1. pc[w] = "idle" /\ pc[w] \notin Owning
  BY DEF Acquire, AnswerLost, NextCandidate, Owning, Running
<1>2. /\ \A v \in Workers \ {w} : pc'[v] = pc[v] /\ via'[v] = via[v] /\ mine'[v] = mine[v]
      /\ renewing' = renewing /\ orphans \subseteq orphans'
  BY DEF Acquire, AnswerLost, TypeOK
<1>3. RenewalsOwned'  BY <1>1, <1>2 DEF LeasesAccounted, RenewalsOwned
<1>4. ASSUME NEW b \in Backend, held'[b] = held[b] PROVE Accounted(b)'
  BY <1>1, <1>2, <1>4, StaysAccounted DEF LeasesAccounted
<1>5. ASSUME NEW b \in Backend, Acquire(w, b) PROVE LeasesAccounted'
  <2>1. /\ pc'[w] = "running" /\ via'[w] = b /\ mine'[w] = FreshLease(b)
        /\ held' = [held EXCEPT ![b] = FreshLease(b)]
    BY <1>5 DEF Acquire, SetKey, TypeOK
  <2>2. Accounted(b)'
    <3>1. mine'[w] = held'[b] /\ pc'[w] \in Owning  BY <2>1 DEF TypeOK, Owning, Running
    <3> QED  BY <2>1, <3>1, OwnedAccounted
  <2>3. \A c \in Backend : c # b => held'[c] = held[c]  BY <2>1 DEF TypeOK
  <2> QED  BY <1>3, <1>4, <2>2, <2>3 DEF LeasesAccounted
<1>6. CASE AnswerLost(w)
  <2>1. \A b \in Backend : held'[b] = held[b] \/ held'[b] = FreshLease(b)
    BY <1>6 DEF AnswerLost
  <2>2. <<"redis", acquired + 1>> \in orphans'  BY <1>6 DEF AnswerLost
  <2>3. Accounted("redis")'
    <3>1. CASE held'["redis"] = FreshLease("redis")
      BY <2>2, <3>1 DEF Accounted, Orphaned, FreshLease
    <3> QED  BY <1>4, <2>1, <3>1 DEF Backend
  <2>4. Accounted("local")'
    <3>1. CASE held'["local"] # held["local"]
      <4>1. ~Clustered /\ held["local"] = NoLease
        BY <1>6, <3>1 DEF AnswerLost, Backend
      <4>2. pc'[w] = "running" /\ via'[w] = "local" /\ mine'[w] = FreshLease("local")
        BY <1>6, <4>1 DEF AnswerLost, TypeOK
      <4> QED  BY <2>1, <3>1, <4>2, OwnedAccounted DEF Backend, Owning, Running
    <3> QED  BY <1>4, <3>1 DEF Backend
  <2> QED  BY <1>3, <2>3, <2>4 DEF LeasesAccounted, Backend
<1> QED  BY <1>5, <1>6

\* An owner's renewals and confirmations set back its own lease, or nothing.
LEMMA OwnerAccounted ==
  ASSUME TypeOK, LeasesAccounted, NEW w \in Workers,
         Tick(w) \/ Renew(w) \/ Confirm(w) \/ Decline(w) \/ Fail(w) \/ Return(w) \/ Record(w)
           \/ Reject(w) \/ Publish(w)
  PROVE  LeasesAccounted'
<1>1. pc[w] \in Owning
  BY DEF LeasesAccounted, RenewalsOwned, Tick, Renew, Confirm, Decline, Fail, Return, Record,
         Reject, Publish, Owning, Running
<1>2. /\ \A v \in Workers \ {w} : pc'[v] = pc[v]
      /\ pc'[w] \in Owning
      /\ UNCHANGED <<via, mine, orphans>>
      /\ \A v \in Workers \ {w} : renewing'[v] = renewing[v]
  BY <1>1 DEF Tick, Renew, Confirm, Decline, Fail, Return, Record, Reject, Publish, Close, TypeOK,
         Owning, Running
<1>3. held' = held \/ held' = [held EXCEPT ![via[w]] = mine[w]]
  BY DEF Tick, Renew, Confirm, Decline, Fail, Return, Record, Reject, Publish, SetBack, store
<1>4. RenewalsOwned'  BY <1>2 DEF LeasesAccounted, RenewalsOwned
<1>5. ASSUME NEW b \in Backend PROVE Accounted(b)'
  <2>1. CASE held'[b] = held[b]  BY <1>2, <2>1, StaysAccounted DEF LeasesAccounted
  <2>2. CASE b = via[w] /\ held'[b] = mine[w]  BY <1>2, <2>2, OwnedAccounted
  <2> QED  BY <1>3, <2>1, <2>2 DEF TypeOK
<1> QED  BY <1>4, <1>5 DEF LeasesAccounted

LEMMA ReleaseAccounted ==
  ASSUME TypeOK, LeasesAccounted, NEW w \in Workers, Release(w)
  PROVE  LeasesAccounted'
<1>1. /\ ~renewing[w] /\ UNCHANGED <<via, mine, renewing>>
      /\ \A v \in Workers \ {w} : pc'[v] = pc[v]
      /\ orphans \subseteq orphans'
  BY DEF Release, MayRelease, TypeOK
<1>2. RenewalsOwned'  BY <1>1 DEF LeasesAccounted, RenewalsOwned
<1>3. ASSUME NEW b \in Backend PROVE Accounted(b)'
  <2>1. CASE held'[b] = NoLease  BY <2>1 DEF Accounted
  <2>2. CASE held'[b] # NoLease
    <3>1. held'[b] = held[b]  BY <2>2 DEF Release, TypeOK
    <3>2. via[w] = b /\ mine[w] = held[b] => <<b, mine[w].owner>> \in orphans'
      <4>1. CASE Answered(w)
        BY <2>2, <3>1, <4>1 DEF Release, StillHeld, TypeOK
      <4>2. CASE ~Answered(w)
        BY <4>2 DEF Release
      <4> QED  BY <4>1, <4>2
    <3> QED  BY <1>1, <3>1, <3>2, StaysAccounted DEF LeasesAccounted
  <2> QED  BY <2>1, <2>2
<1> QED  BY <1>2, <1>3 DEF LeasesAccounted

\* A delegation that owns nothing, the clock and the connections.
LEMMA OthersAccounted ==
  ASSUME TypeOK, LeasesAccounted,
         \/ \E w \in Workers : \/ \E b \in Backend : Contend(w, b)
                               \/ Refuse(w) \/ Follow(w) \/ GiveUpFollowing(w)
         \/ \E b \in Backend : ExpireLease(b) \/ ExpireResult(b)
         \/ ExpireFence
         \/ \E p \in Process : Connection(p)
  PROVE  LeasesAccounted'
<1>1. ASSUME NEW w \in Workers, (\E b \in Backend : Contend(w, b)) \/ Refuse(w) \/ Follow(w)
                                  \/ GiveUpFollowing(w)
      PROVE  LeasesAccounted'
  <2>1. /\ pc[w] \notin Owning /\ UNCHANGED <<held, via, renewing, orphans>>
        /\ \A v \in Workers \ {w} : pc'[v] = pc[v] /\ mine'[v] = mine[v]
    BY <1>1 DEF Contend, Refuse, Follow, GiveUpFollowing, NextCandidate, TypeOK, store, Owning,
                Running
  <2>2. RenewalsOwned'  BY <2>1 DEF LeasesAccounted, RenewalsOwned
  <2>3. \A b \in Backend : Accounted(b)'
    BY <2>1, StaysAccounted DEF LeasesAccounted
  <2> QED  BY <2>2, <2>3 DEF LeasesAccounted
<1>2. ASSUME NEW b \in Backend, ExpireLease(b) PROVE LeasesAccounted'
  <2>1. /\ UNCHANGED <<pc, via, mine, renewing>>
        /\ held' = [held EXCEPT ![b] = NoLease] /\ orphans' = orphans \ {<<b, held[b].owner>>}
    BY <1>2 DEF ExpireLease, worker
  <2>2. ASSUME NEW c \in Backend PROVE Accounted(c)'
    <3>1. CASE c = b  BY <2>1, <3>1 DEF Accounted, TypeOK
    <3>2. CASE c # b
      <4>1. held'[c] = held[c] /\ (Orphaned(c) => Orphaned(c)')
        BY <2>1, <3>2 DEF Orphaned, TypeOK
      <4> QED  BY <2>1, <4>1 DEF LeasesAccounted, Accounted
    <3> QED  BY <3>1, <3>2
  <2> QED  BY <2>1, <2>2 DEF LeasesAccounted, RenewalsOwned
<1>3. ASSUME UNCHANGED <<held, orphans, pc, via, mine, renewing>> PROVE LeasesAccounted'
  BY <1>3 DEF LeasesAccounted, Accounted, Orphaned, RenewalsOwned
<1> QED
  BY <1>1, <1>2, <1>3 DEF ExpireResult, ExpireFence, Connection, worker, store

LEMMA CrashAccounted ==
  ASSUME TypeOK, LeasesAccounted, NEW p \in Process, Crash(p)
  PROVE  LeasesAccounted'
<1> DEFINE dead == {w \in Workers : Host[w] = p /\ pc[w] \notin Ended /\ (pc[w] = "idle" => tries[w] > 0)}
<1>1. /\ \A w \in Workers : /\ pc'[w] = IF w \in dead THEN "crashed" ELSE pc[w]
                            /\ renewing'[w] => renewing[w] /\ w \notin dead
      /\ orphans' = orphans \union {<<via[w], mine[w].owner>> : w \in {v \in dead : pc[v] \in Owning}}
      /\ UNCHANGED <<via, mine>>
  BY DEF Crash, TypeOK
<1>2. \A b \in Backend : held'[b] \in {held[b], NoLease}
  BY DEF Crash, store, TypeOK
<1> HIDE DEF dead
<1>3. RenewalsOwned'  BY <1>1 DEF LeasesAccounted, RenewalsOwned
<1>4. ASSUME NEW b \in Backend PROVE Accounted(b)'
  <2>1. CASE held'[b] = NoLease  BY <2>1 DEF Accounted
  <2>2. CASE held'[b] = held[b]
    <3>1. \A v \in Workers : pc[v] \in Owning /\ via[v] = b =>
            \/ pc'[v] \in Owning /\ via'[v] = via[v] /\ mine'[v] = mine[v]
            \/ <<b, mine[v].owner>> \in orphans'
      BY <1>1
    <3> QED  BY <1>1, <2>2, <3>1, StaysAccounted DEF LeasesAccounted
  <2> QED  BY <1>2, <2>1, <2>2
<1> QED  BY <1>3, <1>4 DEF LeasesAccounted

\* A lease that was given back never comes alive again, whatever renewals were in
\* flight, also where a fence runs out and an earlier owner takes its key back.
THEOREM NothingEverRevived == Spec => []NothingRevived
<1>1. Init => LeasesAccounted
  BY DEF Init, LeasesAccounted, Accounted, RenewalsOwned
<1>2. TypeOK /\ LeasesAccounted /\ [Next]_vars => LeasesAccounted'
  <2> SUFFICES ASSUME TypeOK, LeasesAccounted, [Next]_vars PROVE LeasesAccounted'
    OBVIOUS
  <2>1. CASE Next
    BY <2>1, GrantAccounted, OwnerAccounted, ReleaseAccounted, OthersAccounted, CrashAccounted
       DEF Next, WorkerStep
  <2>2. CASE UNCHANGED vars
    BY <2>2 DEF vars, store, worker, LeasesAccounted, Accounted, Orphaned, RenewalsOwned
  <2> QED  BY <2>1, <2>2
<1>3. LeasesAccounted => NothingRevived
  BY DEF LeasesAccounted, Accounted, NothingRevived
<1> QED  BY <1>1, <1>2, <1>3, TypeCorrect, PTL DEF Spec

-----------------------------------------------------------------------------
(* The inductive invariant.  It needs the fence to outlive every lease     *)
(* (~FenceExpires): ADR-002 calls it non-expiring.                         *)

\* A step that leaves the keys, the fences, the owners' leases and the set of
\* owning workers alone keeps what relates them.
LEMMA QuietStep ==
  ASSUME TypeOK, LeaseInv,
         UNCHANGED <<held, fence, result, mine, via, orphans>>,
         \A w \in Workers : pc'[w] \in Owning <=> pc[w] \in Owning
  PROVE  TokensIssued' /\ TokenNamesLease' /\ NothingRevived'
<1>1. TokensIssued'
  BY DEF LeaseInv, TokensIssued
<1>2. TokenNamesLease'
  BY DEF LeaseInv, TokenNamesLease
<1>3. NothingRevived'
  BY DEF LeaseInv, NothingRevived, Orphaned
<1> QED
  BY <1>1, <1>2, <1>3

\* A grant: the fresh token is above every token issued before it.
LEMMA AcquireStep ==
  ASSUME TypeOK, LeaseInv, NEW w \in Workers, NEW b \in Backend, Acquire(w, b)
  PROVE  LeaseInv'
<1> USE DEF Acquire, NextCandidate, SetKey, FreshLease, Owning, Running
<1>1. TokensIssued'
  BY DEF LeaseInv, TokensIssued, TypeOK, Lease, NoLease
<1>2. TokenNamesLease'
  BY DEF LeaseInv, TokensIssued, TokenNamesLease, TypeOK, Lease, NoLease
<1>3. RenewalsOwned' /\ CompletedPublishes'
  BY DEF LeaseInv, RenewalsOwned, CompletedPublishes, TypeOK
<1>4. NothingRevived'
  BY DEF LeaseInv, NothingRevived, Orphaned, TypeOK
<1>5. LostMeansTaken'
  BY DEF LeaseInv, LostMeansTaken, TokensIssued, TypeOK, Lease
<1> QED
  BY <1>1, <1>2, <1>3, <1>4, <1>5 DEF LeaseInv

\* A renewal or confirmation that finds its lease superseded was overtaken.
LEMMA SupersededTaken ==
  ASSUME TypeOK, LeaseInv, NEW w \in Workers, pc[w] \in Owning, Superseded(w)
  PROVE  mine[w].token < fence[via[w]]
<1>1. mine[w].token \in 1 .. fence[via[w]] /\ fence[via[w]] \in Nat
  BY DEF TypeOK, LeaseInv, TokensIssued
<1>2. CASE held[via[w]] = NoLease
  BY <1>1, <1>2 DEF Superseded, Unclaimed
<1>3. CASE held[via[w]] # NoLease
  <2>1. mine[w].token # held[via[w]].token
    BY <1>3 DEF LeaseInv, TokenNamesLease, Superseded, StillHeld
  <2>2. held[via[w]].token = fence[via[w]]
    BY <1>3 DEF LeaseInv, TokensIssued, TypeOK
  <2> QED
    BY <1>1, <2>1, <2>2
<1> QED
  BY <1>2, <1>3

\* Setting a key back to an owner's lease is sound while its fence is its token.
LEMMA SetBackStep ==
  ASSUME TypeOK, LeaseInv, NEW w \in Workers, pc[w] \in Owning, SetBack(w),
         UNCHANGED <<fence, result, mine, via, orphans>>,
         \A v \in Workers : pc'[v] \in Owning <=> pc[v] \in Owning
  PROVE  TokensIssued' /\ TokenNamesLease' /\ NothingRevived'
<1> USE DEF SetBack, Renewed, StillHeld, Unclaimed
<1>1. TokensIssued'
  BY DEF LeaseInv, TokensIssued, TypeOK, Lease, NoLease
<1>2. TokenNamesLease'
  BY DEF LeaseInv, TokensIssued, TokenNamesLease, TypeOK, Lease, NoLease
<1>3. NothingRevived'
  BY DEF LeaseInv, NothingRevived, Orphaned, TypeOK
<1> QED
  BY <1>1, <1>2, <1>3

\* An answer lost on its way back: the key in Redis is an orphan from the start.
LEMMA AnswerLostStep ==
  ASSUME TypeOK, LeaseInv, NEW w \in Workers, AnswerLost(w)
  PROVE  LeaseInv'
<1> USE DEF NextCandidate, FreshLease, Owning, Running
<1> DEFINE asked == {"redis"} \union {b \in {"local"} : ~Clustered /\ held[b] = NoLease}
<1>1. /\ pc[w] = "idle"
      /\ acquired' = acquired + 1
      /\ orphans' = orphans \union {<<"redis", acquired + 1>>}
      /\ held' = [b \in Backend |-> IF b \in asked THEN FreshLease(b) ELSE held[b]]
      /\ fence' = [b \in Backend |-> IF b \in asked THEN fence[b] + 1 ELSE fence[b]]
      /\ UNCHANGED <<result, checks, renewing>>
  BY DEF AnswerLost
<1>2. \A v \in Workers \ {w} :
        pc'[v] = pc[v] /\ mine'[v] = mine[v] /\ via'[v] = via[v]
          /\ lost'[v] = lost[v] /\ outcome'[v] = outcome[v]
  BY DEF AnswerLost, TypeOK
<1>3. \/ pc'[w] \notin Owning
      \/ /\ pc'[w] = "running" /\ via'[w] = "local" /\ lost'[w] = FALSE
         /\ "local" \in asked /\ mine'[w] = FreshLease("local")
  BY DEF AnswerLost, TypeOK, Backend
<1>4. \A b \in Backend : fence'[b] \in Nat /\ fence[b] <= fence'[b]
  BY <1>1 DEF TypeOK
<1>5. \A b \in Backend :
        held'[b] = held[b] \/ (held'[b] = FreshLease(b) /\ fence'[b] = fence[b] + 1)
  BY <1>1
<1>6. \A b \in Backend : held'[b] = held[b] => fence'[b] = fence[b] \/ held[b] = NoLease
  <2>1. held["redis"] = NoLease
    BY DEF AnswerLost
  <2>2. \A b \in asked : held[b] = NoLease
    BY <2>1
  <2> QED
    BY <1>1, <2>2 DEF TypeOK
<1> HIDE DEF asked
<1>7. TokensIssued'
  <2>1. \A v \in Workers : pc'[v] \in Owning => mine'[v].token \in 1 .. fence'[via'[v]]
    <3>1. ASSUME NEW v \in Workers \ {w}, pc'[v] \in Owning
          PROVE  mine'[v].token \in 1 .. fence'[via'[v]]
      BY <1>2, <1>4, <3>1 DEF LeaseInv, TokensIssued, TypeOK
    <3>2. ASSUME pc'[w] \in Owning PROVE mine'[w].token \in 1 .. fence'[via'[w]]
      BY <1>1, <1>3, <3>2 DEF TypeOK, Backend
    <3> QED
      BY <3>1, <3>2
  <2>2. \A b \in Backend :
          held'[b] # NoLease => held'[b].token = fence'[b] /\ held'[b].token > 0
    BY <1>1, <1>5, <1>6 DEF LeaseInv, TokensIssued, TypeOK
  <2>3. \A b \in Backend : result'[b].token <= fence'[b]
    BY <1>1, <1>4 DEF LeaseInv, TokensIssued, TypeOK, Lease
  <2> QED
    BY <2>1, <2>2, <2>3 DEF TokensIssued
<1>8. TokenNamesLease'
  <2>1. ASSUME NEW u \in Workers, NEW v \in Workers, pc'[u] \in Owning, pc'[v] \in Owning,
               via'[u] = via'[v], mine'[u].token = mine'[v].token
        PROVE  mine'[u] = mine'[v]
    <3>1. CASE u # w /\ v # w
      BY <1>2, <2>1, <3>1 DEF LeaseInv, TokenNamesLease
    <3>2. CASE u = w /\ v # w
      BY <1>2, <1>3, <2>1, <3>2 DEF LeaseInv, TokensIssued, TypeOK, Lease
    <3>3. CASE u # w /\ v = w
      BY <1>2, <1>3, <2>1, <3>3 DEF LeaseInv, TokensIssued, TypeOK, Lease
    <3> QED
      BY <3>1, <3>2, <3>3
  <2>2. ASSUME NEW v \in Workers, pc'[v] \in Owning, held'[via'[v]] # NoLease,
               mine'[v].token = held'[via'[v]].token
        PROVE  held'[via'[v]] = mine'[v]
    <3>1. CASE v = w
      BY <1>1, <1>3, <2>2, <3>1 DEF TypeOK, Backend
    <3>2. CASE v # w
      <4>1. via[v] \in Backend /\ via'[v] = via[v] /\ mine'[v] = mine[v] /\ pc[v] \in Owning
        BY <1>2, <2>2, <3>2 DEF TypeOK
      <4>2. mine[v].token <= fence[via[v]]
        BY <4>1 DEF LeaseInv, TokensIssued, TypeOK
      <4>3. CASE held'[via[v]] = held[via[v]]
        BY <2>2, <4>1, <4>3 DEF LeaseInv, TokenNamesLease
      <4>4. CASE held'[via[v]] = FreshLease(via[v])
        BY <2>2, <4>1, <4>2, <4>4 DEF TypeOK, Lease
      <4> QED
        BY <1>5, <4>1, <4>3, <4>4
    <3> QED
      BY <3>1, <3>2
  <2> QED
    BY <2>1, <2>2 DEF TokenNamesLease
<1>9. RenewalsOwned' /\ CompletedPublishes'
  BY <1>1, <1>2, <1>3 DEF LeaseInv, RenewalsOwned, CompletedPublishes, TypeOK
<1>10. NothingRevived'
  <2> SUFFICES ASSUME NEW b \in Backend, held'[b] # NoLease
               PROVE  \/ Orphaned(b)'
                      \/ \E v \in Workers :
                           pc'[v] \in Owning /\ via'[v] = b /\ mine'[v] = held'[b]
    BY DEF NothingRevived
  <2>1. CASE b \notin asked
    <3>1. held'[b] = held[b]
      BY <1>1, <2>1
    <3>2. Orphaned(b) \/ \E v \in Workers : pc[v] \in Owning /\ via[v] = b /\ mine[v] = held[b]
      BY <3>1 DEF LeaseInv, NothingRevived
    <3> QED
      BY <1>1, <1>2, <3>1, <3>2 DEF Orphaned
  <2>2. CASE b = "redis"
    BY <1>1, <2>2 DEF Orphaned, asked
  <2>3. CASE b = "local" /\ "local" \in asked
    <3>1. held'["local"] = FreshLease("local")
      BY <1>1, <2>3
    <3>2. ~Clustered /\ held["local"] = NoLease
      BY <2>3 DEF asked
    <3>3. pc'[w] = "running" /\ via'[w] = "local" /\ mine'[w] = FreshLease("local")
      BY <3>2 DEF AnswerLost, TypeOK, Backend
    <3> QED
      BY <2>3, <3>1, <3>3
  <2> QED
    BY <2>1, <2>2, <2>3 DEF Backend
<1>11. LostMeansTaken'
  <2> SUFFICES ASSUME NEW v \in Workers, pc'[v] \in Owning,
                      lost'[v] \/ (pc'[v] = "releasing" /\ outcome'[v] = "leaseLost")
               PROVE  mine'[v].token < fence'[via'[v]]
    BY DEF LostMeansTaken
  <2>1. v # w
    BY <1>3
  <2>2. mine[v].token < fence[via[v]]
    BY <1>2, <2>1 DEF LeaseInv, LostMeansTaken
  <2> QED
    BY <1>2, <1>4, <2>1, <2>2 DEF TypeOK, Lease
<1> QED
  BY <1>7, <1>8, <1>9, <1>10, <1>11 DEF LeaseInv

\* The attempt's own steps between grant and release.
LEMMA AttemptStep ==
  ASSUME TypeOK, LeaseInv, NEW w \in Workers,
         \/ Tick(w) \/ Renew(w) \/ Decline(w) \/ Fail(w) \/ Return(w)
         \/ Confirm(w) \/ Record(w) \/ Reject(w)
  PROVE  LeaseInv'
<1> USE DEF Owning, Running
<1>1. CASE Tick(w) \/ Decline(w) \/ Fail(w) \/ Return(w) \/ Record(w) \/ Reject(w)
  <2> USE <1>1 DEF Tick, Decline, Fail, Return, Record, Reject, Close
  <2>1. UNCHANGED <<held, fence, result, mine, via, orphans, lost>>
    BY DEF store
  <2>2. \A v \in Workers : pc'[v] \in Owning <=> pc[v] \in Owning
    BY DEF TypeOK
  <2>3. RenewalsOwned' /\ CompletedPublishes'
    BY DEF LeaseInv, RenewalsOwned, CompletedPublishes, TypeOK
  <2>4. LostMeansTaken'
    BY <2>1, <2>2 DEF LeaseInv, LostMeansTaken, TypeOK
  <2> QED
    BY <2>1, <2>2, <2>3, <2>4, QuietStep DEF LeaseInv
<1>2. CASE Renew(w)
  <2> USE <1>2 DEF Renew
  <2>1. pc[w] \in Owning
    BY DEF LeaseInv, RenewalsOwned
  <2>2. RenewalsOwned' /\ CompletedPublishes'
    BY DEF LeaseInv, RenewalsOwned, CompletedPublishes, TypeOK
  <2>3. LostMeansTaken'
    BY <2>1, SupersededTaken DEF LeaseInv, LostMeansTaken, TypeOK
  <2> QED
    BY <2>1, <2>2, <2>3, SetBackStep DEF LeaseInv
<1>3. CASE Confirm(w)
  <2> USE <1>3 DEF Confirm, Close
  <2>1. \A v \in Workers : pc'[v] \in Owning <=> pc[v] \in Owning
    BY DEF TypeOK
  <2>2. RenewalsOwned' /\ CompletedPublishes'
    BY DEF LeaseInv, RenewalsOwned, CompletedPublishes, TypeOK
  <2>3. LostMeansTaken'
    BY SupersededTaken DEF LeaseInv, LostMeansTaken, TypeOK
  <2> QED
    BY <2>1, <2>2, <2>3, SetBackStep DEF LeaseInv
<1> QED
  BY <1>1, <1>2, <1>3

\* Publishing writes the result of the fence's own token.
LEMMA PublishStep ==
  ASSUME TypeOK, LeaseInv, NEW w \in Workers, Publish(w)
  PROVE  LeaseInv'
<1> USE DEF Publish, Owning, Running
<1>1. \A v \in Workers : pc'[v] \in Owning <=> pc[v] \in Owning
  BY DEF TypeOK
<1>2. TokensIssued'
  <2>1. \A b \in Backend : result'[b].token <= fence[b]
    BY DEF LeaseInv, TokensIssued, MayPublish, StillHeld, TypeOK, Lease
  <2> QED
    BY <1>1, <2>1 DEF LeaseInv, TokensIssued
<1>3. TokenNamesLease' /\ NothingRevived'
  BY <1>1 DEF LeaseInv, TokenNamesLease, NothingRevived, Orphaned
<1>4. RenewalsOwned' /\ CompletedPublishes'
  BY DEF LeaseInv, RenewalsOwned, CompletedPublishes, TypeOK
<1>5. LostMeansTaken'
  BY DEF LeaseInv, LostMeansTaken, CompletedPublishes, TypeOK
<1> QED
  BY <1>2, <1>3, <1>4, <1>5 DEF LeaseInv

\* Giving the lease back, or leaving it behind as an orphan.
LEMMA ReleaseStep ==
  ASSUME TypeOK, LeaseInv, NEW w \in Workers, Release(w)
  PROVE  LeaseInv'
<1> USE DEF Release, MayRelease
<1>1. pc'[w] \in {"idle", "done"} /\ pc[w] = "releasing" /\ ~renewing[w]
  BY DEF TypeOK
<1>2. \A v \in Workers \ {w} :
        pc'[v] = pc[v] /\ mine'[v] = mine[v] /\ lost'[v] = lost[v]
  BY DEF TypeOK
<1>3. \A b \in Backend : held'[b] = held[b] \/ held'[b] = NoLease
  BY DEF TypeOK
<1>4. UNCHANGED <<fence, result, via, renewing, outcome>>
  OBVIOUS
<1>5. \A v \in Workers : pc'[v] \in Owning => v # w
  BY <1>1 DEF Owning, Running
<1>6. TokensIssued' /\ TokenNamesLease' /\ RenewalsOwned' /\ CompletedPublishes' /\ LostMeansTaken'
  <2>1. TokensIssued'
    BY <1>2, <1>3, <1>4, <1>5 DEF LeaseInv, TokensIssued
  <2>2. TokenNamesLease'
    BY <1>2, <1>3, <1>4, <1>5 DEF LeaseInv, TokenNamesLease, TypeOK
  <2>3. RenewalsOwned'
    BY <1>1, <1>2, <1>4 DEF LeaseInv, RenewalsOwned
  <2>4. CompletedPublishes'
    BY <1>1, <1>2, <1>4 DEF LeaseInv, CompletedPublishes
  <2>5. LostMeansTaken'
    BY <1>2, <1>4, <1>5 DEF LeaseInv, LostMeansTaken
  <2> QED
    BY <2>1, <2>2, <2>3, <2>4, <2>5
<1>7. NothingRevived'
  <2> SUFFICES ASSUME NEW b \in Backend, held'[b] # NoLease
               PROVE  \/ Orphaned(b)'
                      \/ \E v \in Workers :
                           pc'[v] \in Owning /\ via'[v] = b /\ mine'[v] = held'[b]
    BY DEF NothingRevived
  <2>1. held'[b] = held[b]
    BY <1>3
  <2>2. orphans \subseteq orphans'
    OBVIOUS
  <2>3. CASE Orphaned(b)
    BY <2>1, <2>2, <2>3 DEF Orphaned
  <2>4. ASSUME NEW v \in Workers, pc[v] \in Owning, via[v] = b, mine[v] = held[b]
        PROVE  \/ Orphaned(b)'
               \/ \E u \in Workers : pc'[u] \in Owning /\ via'[u] = b /\ mine'[u] = held'[b]
    <3>1. CASE v # w
      BY <1>2, <1>4, <2>1, <2>4, <3>1
    <3>2. CASE v = w /\ Answered(w)
      BY <2>1, <2>4, <3>2 DEF StillHeld, TypeOK
    <3>3. CASE v = w /\ ~Answered(w)
      BY <2>1, <2>4, <3>3 DEF Orphaned
    <3> QED
      BY <3>1, <3>2, <3>3
  <2> QED
    BY <2>1, <2>3, <2>4 DEF LeaseInv, NothingRevived
<1> QED
  BY <1>6, <1>7 DEF LeaseInv

\* A delegation that owns nothing follows, gives up or is refused.
LEMMA ContenderStep ==
  ASSUME TypeOK, LeaseInv, NEW w \in Workers,
         \/ \E b \in Backend : Contend(w, b)
         \/ Refuse(w) \/ Follow(w) \/ GiveUpFollowing(w)
  PROVE  LeaseInv'
<1> USE DEF Contend, Refuse, Follow, GiveUpFollowing, NextCandidate, Owning, Running
<1>1. pc[w] \notin Owning /\ pc'[w] \notin Owning
  BY DEF TypeOK
<1>2. \A v \in Workers \ {w} :
        pc'[v] = pc[v] /\ mine'[v] = mine[v] /\ outcome'[v] = outcome[v]
  BY DEF TypeOK
<1>3. UNCHANGED <<held, fence, result, orphans, via, renewing, lost>>
  BY DEF store
<1>4. TokensIssued' /\ TokenNamesLease'
  BY <1>1, <1>2, <1>3 DEF LeaseInv, TokensIssued, TokenNamesLease
<1>5. RenewalsOwned' /\ CompletedPublishes' /\ LostMeansTaken'
  BY <1>1, <1>2, <1>3 DEF LeaseInv, RenewalsOwned, CompletedPublishes, LostMeansTaken
<1>6. NothingRevived'
  BY <1>1, <1>2, <1>3 DEF LeaseInv, NothingRevived, Orphaned
<1> QED
  BY <1>4, <1>5, <1>6 DEF LeaseInv

\* Keys and results run out, connections come and go.
LEMMA ClockStep ==
  ASSUME TypeOK, LeaseInv,
         \/ \E b \in Backend : ExpireLease(b) \/ ExpireResult(b)
         \/ \E p \in Process : Connection(p)
  PROVE  LeaseInv'
<1> USE DEF ExpireLease, ExpireResult, Connection
<1>1. UNCHANGED <<fence, worker>>
  BY DEF store
<1>2. UNCHANGED <<pc, mine, via, renewing, lost, outcome>>
  BY <1>1 DEF worker
<1>3. \A b \in Backend : held'[b] \in {held[b], NoLease} /\ result'[b] \in {result[b], NoLease}
  BY DEF TypeOK, store
<1>4. TokensIssued' /\ TokenNamesLease'
  <2>1. \A b \in Backend : fence[b] \in Nat
    BY DEF TypeOK
  <2>2. TokensIssued'
    BY <1>1, <1>2, <1>3, <2>1 DEF LeaseInv, TokensIssued, NoLease
  <2>3. \A w \in Workers : held'[via[w]] \in {held[via[w]], NoLease}
    BY <1>3 DEF TypeOK
  <2>4. TokenNamesLease'
    BY <1>2, <2>3 DEF LeaseInv, TokenNamesLease
  <2> QED
    BY <2>2, <2>4
<1>5. RenewalsOwned' /\ CompletedPublishes' /\ LostMeansTaken'
  BY <1>1, <1>2 DEF LeaseInv, RenewalsOwned, CompletedPublishes, LostMeansTaken
<1>6. NothingRevived'
  BY <1>2 DEF LeaseInv, NothingRevived, Orphaned, TypeOK, store
<1> QED
  BY <1>4, <1>5, <1>6 DEF LeaseInv

\* A crash orphans the leases of the process; in a single process every owner
\* dies with the local store.
LEMMA CrashStep ==
  ASSUME TypeOK, LeaseInv, NEW p \in Process, Crash(p)
  PROVE  LeaseInv'
<1> DEFINE dead == {w \in Workers : Host[w] = p /\ pc[w] \notin Ended /\ (pc[w] = "idle" => tries[w] > 0)}
<1> USE DEF Owning, Running
<1>1. /\ dead # {}
      /\ pc' = [w \in Workers |-> IF w \in dead THEN "crashed" ELSE pc[w]]
      /\ renewing' = [w \in Workers |-> renewing[w] /\ w \notin dead]
      /\ orphans' = orphans \union
           {<<via[w], mine[w].owner>> : w \in {v \in dead : pc[v] \in Owning}}
      /\ UNCHANGED <<mine, via, lost, outcome>>
  BY DEF Crash
<1>2. \A w \in Workers : pc'[w] \in Owning => pc'[w] = pc[w] /\ w \notin dead
  BY <1>1
<1>3. ~Clustered => \A w \in Workers : pc[w] \in Owning => w \in dead
  BY <1>1, LeaseAssumption DEF Ended
<1>4. Clustered => UNCHANGED <<held, fence, result>>
  BY DEF Crash, store
<1>5. \A b \in Backend :
        \/ held'[b] = held[b] /\ fence'[b] = fence[b] /\ result'[b] = result[b]
        \/ held'[b] = NoLease /\ fence'[b] = 0 /\ result'[b] = NoLease
  <2>1. CASE Clustered
    BY <1>4, <2>1
  <2>2. CASE ~Clustered
    BY <2>2 DEF Crash, TypeOK, Backend
  <2> QED
    BY <2>1, <2>2
<1> HIDE DEF dead
<1>6. TokensIssued'
  <2>1. \A w \in Workers : pc'[w] \in Owning => mine'[w].token \in 1 .. fence'[via'[w]]
    BY <1>1, <1>2, <1>3, <1>4 DEF LeaseInv, TokensIssued
  <2> QED
    BY <1>5, <2>1 DEF LeaseInv, TokensIssued, NoLease
<1>7. TokenNamesLease' /\ LostMeansTaken'
  BY <1>1, <1>2, <1>3, <1>4 DEF LeaseInv, TokenNamesLease, LostMeansTaken
<1>8. RenewalsOwned' /\ CompletedPublishes'
  BY <1>1, <1>2 DEF LeaseInv, RenewalsOwned, CompletedPublishes, TypeOK
<1>9. NothingRevived'
  <2> SUFFICES ASSUME NEW b \in Backend, held'[b] # NoLease
               PROVE  \/ Orphaned(b)'
                      \/ \E v \in Workers :
                           pc'[v] \in Owning /\ via'[v] = b /\ mine'[v] = held'[b]
    BY DEF NothingRevived
  <2>1. held'[b] = held[b]
    BY <1>5
  <2>2. CASE Orphaned(b)
    BY <1>1, <2>1, <2>2 DEF Orphaned
  <2>3. ASSUME NEW v \in Workers, pc[v] \in Owning, via[v] = b, mine[v] = held[b]
        PROVE  \/ Orphaned(b)'
               \/ \E u \in Workers : pc'[u] \in Owning /\ via'[u] = b /\ mine'[u] = held'[b]
    <3>1. CASE v \in dead
      <4>1. <<via[v], mine[v].owner>> \in orphans'
        BY <1>1, <2>3, <3>1
      <4> QED
        BY <2>1, <2>3, <4>1 DEF Orphaned
    <3>2. CASE v \notin dead
      BY <1>1, <2>1, <2>3, <3>2
    <3> QED
      BY <3>1, <3>2
  <2> QED
    BY <2>1, <2>2, <2>3 DEF LeaseInv, NothingRevived
<1> QED
  BY <1>6, <1>7, <1>8, <1>9 DEF LeaseInv

LEMMA LeaseStep ==
  ASSUME ~FenceExpires, TypeOK, LeaseInv, [Next]_vars
  PROVE  LeaseInv'
<1>1. CASE Next
  BY <1>1, AcquireStep, AnswerLostStep, AttemptStep, PublishStep, ReleaseStep,
     ContenderStep, ClockStep, CrashStep DEF Next, WorkerStep, ExpireFence
<1>2. CASE UNCHANGED vars
  BY <1>2 DEF vars, store, worker, LeaseInv, TokensIssued, TokenNamesLease, RenewalsOwned,
     CompletedPublishes, NothingRevived, LostMeansTaken, Orphaned
<1> QED
  BY <1>1, <1>2

LEMMA LeaseInit == Init => LeaseInv
  BY DEF Init, LeaseInv, TokensIssued, TokenNamesLease, RenewalsOwned, CompletedPublishes,
     NothingRevived, LostMeansTaken, Owning, Running, NoLease

\* While fences do not expire, every lease in the store is owned or orphaned,
\* tokens name leases, and only a real takeover makes a worker drop its result.
THEOREM LeaseInvariant == ASSUME ~FenceExpires PROVE Spec => []LeaseInv
<1>1. TypeOK /\ LeaseInv /\ [Next]_vars => LeaseInv'
  BY LeaseStep
<1> QED
  BY <1>1, LeaseInit, TypeCorrect, PTL DEF Spec

\* No renewal or late answer brings an older owner back to the key.
THEOREM NewestAlwaysHolds == ASSUME ~FenceExpires PROVE Spec => []NewestHolds
<1>1. LeaseInv => NewestHolds
  BY DEF LeaseInv, TokensIssued, NewestHolds
<1> QED
  BY <1>1, LeaseInvariant, PTL

\* Work is only abandoned to a newer acquisition.
THEOREM LostAlwaysTaken == ASSUME ~FenceExpires PROVE Spec => []LostMeansTaken
<1>1. LeaseInv => LostMeansTaken
  BY DEF LeaseInv
<1> QED
  BY <1>1, LeaseInvariant, PTL

-----------------------------------------------------------------------------
(* Action properties *)

\* Every step leaves the results alone, lets one go, or publishes.
LEMMA ResultStep ==
  ASSUME TypeOK, [Next]_vars, NEW b \in Backend, result'[b] \notin {result[b], NoLease}
  PROVE  \E w \in Workers : Publish(w) /\ MayPublish(w) /\ via[w] = b /\ result'[b] = mine[w]
<1>1. PICK w \in Workers : Publish(w)
  <2>1. ASSUME NEW p \in Process, Crash(p) PROVE result'[b] \in {result[b], NoLease}
    BY <2>1 DEF Crash, store, TypeOK
  <2>2. ASSUME NEW c \in Backend, ExpireResult(c) PROVE result'[b] \in {result[b], NoLease}
    BY <2>2 DEF ExpireResult, TypeOK
  <2>3. UNCHANGED result \/ (\E w \in Workers : Publish(w)) \/ (\E p \in Process : Crash(p))
          \/ (\E c \in Backend : ExpireResult(c))
    BY DEF Next, WorkerStep, Acquire, Contend, Refuse, AnswerLost, Follow, GiveUpFollowing,
       Tick, Renew, Decline, Fail, Return, Confirm, Record, Reject, Release, ExpireLease,
       ExpireFence, Connection, store, vars
  <2> QED
    BY <2>1, <2>2, <2>3
<1> QED
  BY <1>1 DEF Publish, TypeOK

LEMMA PublishFencedStep ==
  ASSUME TypeOK, LeaseInv, [Next]_vars, NEW b \in Backend, result'[b] \notin {result[b], NoLease}
  PROVE  result'[b].token = fence[b] /\ result[b].token <= result'[b].token
<1>1. PICK w \in Workers : Publish(w) /\ MayPublish(w) /\ via[w] = b /\ result'[b] = mine[w]
  BY ResultStep
<1>2. pc[w] \in Owning /\ held[b] = mine[w]
  BY <1>1 DEF Publish, MayPublish, StillHeld, Owning, Running
<1>3. mine[w] # NoLease
  BY <1>1, <1>2 DEF LeaseInv, TokensIssued, NoLease, TypeOK
<1> QED
  BY <1>1, <1>2, <1>3 DEF LeaseInv, TokensIssued

\* Results are written by the newest owner only, and never go back.
THEOREM PublishesAreFenced == ASSUME ~FenceExpires PROVE Spec => PublishFenced
<1>1. TypeOK /\ LeaseInv /\ [Next]_vars =>
        [\A b \in Backend :
           result'[b] \notin {result[b], NoLease} =>
             /\ result'[b].token = fence[b]
             /\ result[b].token <= result'[b].token]_vars
  BY PublishFencedStep
<1> QED
  BY <1>1, TypeCorrect, LeaseInvariant, PTL DEF Spec, PublishFenced

-----------------------------------------------------------------------------
(* Refinement: the lease in Redis implements fenced ownership *)

LEMMA OwnershipInitially == Init => Ownership!OwnershipInit
  BY DEF Init, Ownership!OwnershipInit, Backend, NoLease

LEMMA SetBackRefines ==
  ASSUME TypeOK, LeaseInv, NEW w \in Workers, pc[w] \in Owning, SetBack(w),
         UNCHANGED <<fence, result>>
  PROVE  [Ownership!OwnershipNext]_(Ownership!ownership)
<1> USE DEF Ownership!OwnershipNext, Ownership!ownership, Ownership!TakeBack
<1>1. CASE held'["redis"] = held["redis"]
  BY <1>1
<1>2. CASE held'["redis"] # held["redis"]
  <2>1. Unclaimed(w) /\ via[w] = "redis" /\ held'["redis"] = mine[w]
    BY <1>2 DEF SetBack, Renewed, StillHeld, TypeOK
  <2>2. fence["redis"] > 0
    BY <2>1 DEF Unclaimed, LeaseInv, TokensIssued, TypeOK, Backend
  <2> QED
    BY <2>1, <2>2 DEF Unclaimed, NoLease
<1> QED
  BY <1>1, <1>2

LEMMA OwnershipStep ==
  ASSUME ~FenceExpires, TypeOK, LeaseInv, [Next]_vars
  PROVE  [Ownership!OwnershipNext]_(Ownership!ownership)
<1> USE DEF Ownership!OwnershipNext, Ownership!ownership
<1>1. ASSUME UNCHANGED <<held["redis"], fence["redis"], result["redis"]>>
      PROVE  [Ownership!OwnershipNext]_(Ownership!ownership)
  BY <1>1
<1>2. ASSUME NEW w \in Workers, NEW b \in Backend, Acquire(w, b)
      PROVE  [Ownership!OwnershipNext]_(Ownership!ownership)
  BY <1>2 DEF Acquire, SetKey, FreshLease, NoLease, Ownership!Claim, TypeOK, Backend
<1>3. ASSUME NEW w \in Workers, AnswerLost(w)
      PROVE  [Ownership!OwnershipNext]_(Ownership!ownership)
  BY <1>3 DEF AnswerLost, FreshLease, NoLease, Ownership!Claim, Backend
<1>4. ASSUME NEW w \in Workers, Renew(w) \/ Confirm(w)
      PROVE  [Ownership!OwnershipNext]_(Ownership!ownership)
  <2>1. pc[w] \in Owning
    BY <1>4 DEF Renew, Confirm, LeaseInv, RenewalsOwned, Owning, Running
  <2>2. SetBack(w) /\ UNCHANGED <<fence, result>>
    BY <1>4 DEF Renew, Confirm
  <2> QED
    BY <2>1, <2>2, SetBackRefines
<1>5. ASSUME NEW w \in Workers, Publish(w)
      PROVE  [Ownership!OwnershipNext]_(Ownership!ownership)
  <2>1. UNCHANGED <<held, fence>> /\ pc[w] \in Owning
    BY <1>5 DEF Publish, Owning, Running
  <2>2. CASE result'["redis"] = result["redis"]
    BY <2>1, <2>2
  <2>3. CASE result'["redis"] # result["redis"]
    <3>1. via[w] = "redis" /\ held["redis"] = mine[w] /\ result'["redis"] = mine[w]
      BY <1>5, <2>3 DEF Publish, MayPublish, StillHeld, TypeOK, Backend
    <3>2. held["redis"].token > 0
      BY <2>1, <3>1 DEF LeaseInv, TokensIssued, TypeOK, Backend
    <3> QED
      BY <2>1, <3>1, <3>2 DEF Ownership!Accept
  <2> QED
    BY <2>2, <2>3
<1>6. ASSUME NEW w \in Workers, Release(w)
      PROVE  [Ownership!OwnershipNext]_(Ownership!ownership)
  BY <1>6 DEF Release, NoLease, Ownership!Vacate, TypeOK, Backend
<1>7. ASSUME NEW b \in Backend, ExpireLease(b) \/ ExpireResult(b)
      PROVE  [Ownership!OwnershipNext]_(Ownership!ownership)
  BY <1>7 DEF ExpireLease, ExpireResult, NoLease, Ownership!Vacate, Ownership!Forget, TypeOK, Backend
<1>8. ASSUME NEW p \in Process, Crash(p)
      PROVE  UNCHANGED <<held["redis"], fence["redis"], result["redis"]>>
  BY <1>8 DEF Crash, store, TypeOK, Backend
<1>9. ASSUME \/ \E w \in Workers :
                  \/ \E b \in Backend : Contend(w, b)
                  \/ Refuse(w) \/ Follow(w) \/ GiveUpFollowing(w) \/ Tick(w) \/ Decline(w)
                  \/ Fail(w) \/ Return(w) \/ Record(w) \/ Reject(w)
             \/ \E p \in Process : Connection(p)
             \/ UNCHANGED vars
      PROVE  UNCHANGED <<held["redis"], fence["redis"], result["redis"]>>
  BY <1>9 DEF Contend, Refuse, Follow, GiveUpFollowing, Tick, Decline, Fail, Return, Record,
     Reject, Connection, store, vars
<1> QED
  BY <1>1, <1>2, <1>3, <1>4, <1>5, <1>6, <1>7, <1>8, <1>9 DEF Next, WorkerStep, ExpireFence

\* Leases in Redis implement fenced ownership: epochs only grow, whoever holds
\* the task holds the newest, only the holder's result is accepted.
THEOREM ImplementsFencedOwnership == ASSUME ~FenceExpires PROVE Spec => ImplementsOwnership
<1>1. TypeOK /\ LeaseInv /\ [Next]_vars => [Ownership!OwnershipNext]_(Ownership!ownership)
  BY OwnershipStep
<1> QED
  BY <1>1, OwnershipInitially, TypeCorrect, LeaseInvariant, PTL
     DEF Spec, ImplementsOwnership, Ownership!OwnershipSpec

=============================================================================
