--------------------------- MODULE CapacityBroker ---------------------------
(***************************************************************************)
(* Admission to one provider endpoint                                      *)
(* (packages/core/src/swarm/capacity-broker.ts) and the delegations that   *)
(* ask for it (tools/sub-agent.ts).  Every permit is a field of a Redis    *)
(* hash with a weight and an expiry that its holder's process computed; a  *)
(* holder extends its permit on a timer and gives it back at the end.  A   *)
(* call that fails on Redis is made on a table of the process.             *)
(*                                                                         *)
(* Time passes in ticks no shorter than the poll interval.  The expiry of  *)
(* a permit is kept as what is left of it on a true clock; Skew is how far *)
(* the clock of a process is ahead.  Any call may be lost, and any process *)
(* may stop or stand still.  Every delegation reads the mode anew; the     *)
(* snapshot, the key of the endpoint and the mode "off" are left out.      *)
(***************************************************************************)
EXTENDS Integers, FiniteSets

CONSTANTS
  Work,       \* delegations to the endpoint, one after the other in each
  Processes,  \* processes they run in
  Home,       \* the process of each delegation
  Skew,       \* how many ticks the clock of each process is ahead
  MaxSkew,
  Ids,        \* permit ids
  Weight,     \* units each delegation asks for
  Capacity,   \* mission.capacity.endpointUnits
  Timeout,    \* acquireTimeoutMs, in ticks
  TTL,        \* permitTtlMs, in ticks
  KeyTTL,     \* expiry of the whole hash, in ticks
  RenewEvery, \* renewMs, in ticks
  MaxMissed   \* renewals in a row that may be lost

Redis == "redis"
NoTable == "none"
NoPermit == "nothing"

ASSUME BrokerAssumption ==
  /\ IsFiniteSet(Work) /\ IsFiniteSet(Ids) /\ IsFiniteSet(Processes)
  /\ Home \in [Work -> Processes]
  /\ MaxSkew \in Nat /\ Skew \in [Processes -> -MaxSkew..MaxSkew]
  /\ Weight \in [Work -> Nat \ {0}] /\ Capacity \in Nat \ {0}
  /\ Timeout \in Nat /\ TTL \in Nat /\ KeyTTL \in Nat /\ KeyTTL >= 4 * TTL
  /\ RenewEvery \in Nat \ {0} /\ 3 * RenewEvery <= TTL /\ MaxMissed \in Nat
  /\ {Redis, NoTable} \cap Processes = {} /\ NoPermit \notin Ids

Tables == Processes \union {Redis}

VARIABLES
  permits, \* [on, rest, weight, gone] of each id: its table, the ticks left of it,
           \* the ticks since its holder went away without releasing it (history)
  work,    \* [phase, permit, waited, age, missed] of each delegation; age is that of
           \* the renewal timer
  key,     \* ticks until the Redis hash expires
  orderly  \* Redis decided every acquire, every refusal was obeyed and no renewal
           \* was late (history)

vars == <<permits, work, key, orderly>>

Held == -1
Unused == [on |-> NoTable, rest |-> -MaxSkew, weight |-> 0, gone |-> Held]
Resting == [phase |-> "idle", permit |-> NoPermit, waited |-> 0, age |-> 0, missed |-> 0]

Init ==
  /\ permits = [i \in Ids |-> Unused]
  /\ work = [w \in Work |-> Resting]
  /\ key = 0
  /\ orderly = TRUE

-----------------------------------------------------------------------------
(* The tables *)

On(ps, l) == {i \in Ids : ps[i].on = l}

\* Mutant: a permit is counted until somebody releases it.
NeverExpires(rest, now) == FALSE

\* exp <= now
Expired(rest, now) == rest <= now

\* The entries of a table that its next acquire counts, by unit.
UnitsOf(ps, S) == UNION {{i} \X (1..ps[i].weight) : i \in S}
Counted(ps, l, now) == {i \in On(ps, l) : ~Expired(ps[i].rest, now)}

\* Mutant: the weight asked for is not counted.
FitsAny(ps, l, now, weight) == Cardinality(UnitsOf(ps, Counted(ps, l, now))) < Capacity

Fits(ps, l, now, weight) == Cardinality(UnitsOf(ps, Counted(ps, l, now))) + weight <= Capacity

Issued(l, now, weight) == [on |-> l, rest |-> TTL + now, weight |-> weight, gone |-> Held]

Pruned(ps, l, now) ==
  [i \in Ids |-> IF i \in On(ps, l) /\ Expired(ps[i].rest, now) THEN Unused ELSE ps[i]]

Free(ps) == {i \in Ids : ps[i].on = NoTable /\ \A w \in Work : work[w].permit # i}

\* ACQUIRE_LUA and its local twin: prune, then admit under a new id, or not.
Now(w) == Skew[Home[w]]

Acquired(ps, l, w) ==
  LET pruned == Pruned(ps, l, Now(w))
  IN  IF Fits(ps, l, Now(w), Weight[w])
      THEN {[permits |-> [pruned EXCEPT ![i] = Issued(l, Now(w), Weight[w])], id |-> i] : i \in Free(ps)}
      ELSE {[permits |-> pruned, id |-> NoPermit]}

-----------------------------------------------------------------------------
(* Admission *)

Runs(w, permit) ==
  work' = [work EXCEPT ![w] = [Resting EXCEPT !.phase = "running", !.permit = permit]]

\* Saturated.  In enforce mode sleep and ask again until the wait budget is used
\* up, and then refuse the delegation; in shadow mode run it without a permit.
Denied(w) ==
  \/ /\ work[w].waited < Timeout
     /\ work' = [work EXCEPT ![w].phase = "waiting"]
  \/ /\ work[w].waited = Timeout
     /\ work' = [work EXCEPT ![w] = Resting]
  \/ /\ work[w].phase = "idle"
     /\ Runs(w, NoPermit)

Settled(w, outcome) ==
  /\ work[w].phase \in {"idle", "waiting"}
  /\ permits' = outcome.permits
  /\ IF outcome.id = NoPermit THEN Denied(w) ELSE Runs(w, outcome.id)

KeyAfter(outcome) == IF outcome.id = NoPermit THEN key ELSE KeyTTL

TryRedis(w) ==
  \E outcome \in Acquired(permits, Redis, w) :
    /\ Settled(w, outcome)
    /\ key' = KeyAfter(outcome)
    /\ IF outcome.id = NoPermit /\ work'[w].phase = "running"
       THEN orderly' = FALSE ELSE UNCHANGED orderly

Abandoned(g) == IF g.on = NoTable THEN g ELSE [g EXCEPT !.gone = 0]

\* What Redis holds when its call has failed: what it held, or, when only the answer
\* was lost, perhaps a permit that nobody holds.
Left(w) ==
  {[permits |-> permits, id |-> NoPermit]}
    \union
  {[outcome EXCEPT !.permits =
      [i \in Ids |-> IF i = outcome.id THEN Abandoned(@[i]) ELSE @[i]]] :
     outcome \in Acquired(permits, Redis, w)}

TryLocal(w) ==
  /\ \E left \in Left(w) : \E outcome \in Acquired(left.permits, Home[w], w) :
       Settled(w, outcome) /\ key' = KeyAfter(left)
  /\ orderly' = FALSE

-----------------------------------------------------------------------------
(* A running delegation *)

Holds(w) == work[w].phase = "running" /\ work[w].permit # NoPermit
Due(w) == Holds(w) /\ work[w].age = RenewEvery

\* Mutant: an expired or missing permit is made anew.
RenewedAnyway(i, w) ==
  /\ permits' = [permits EXCEPT ![i] = Issued(IF @.on = NoTable THEN Redis ELSE @.on, Now(w), Weight[w])]
  /\ key' = KeyTTL

\* RENEW_LUA and its local twin.  Nobody looks at the answer.
Renewed(i, w) ==
  IF permits[i].on # NoTable /\ ~Expired(permits[i].rest, Now(w))
  THEN /\ permits' = [permits EXCEPT ![i].rest = TTL + Now(w)]
       /\ key' = IF permits[i].on = Redis THEN KeyTTL ELSE key
  ELSE UNCHANGED <<permits, key>>

Renew(w) ==
  /\ Due(w)
  /\ \/ /\ Renewed(work[w].permit, w)
        /\ work' = [work EXCEPT ![w].age = 0, ![w].missed = 0]
     \/ /\ work[w].missed < MaxMissed
        /\ work' = [work EXCEPT ![w].age = 0, ![w].missed = @ + 1]
        /\ UNCHANGED <<permits, key>>
  /\ UNCHANGED orderly

\* releaseProviderPermit.
Released(w) == [permits EXCEPT ![work[w].permit] = Unused]

\* The finally of the delegation.
End(w) ==
  /\ work[w].phase = "running"
  /\ work' = [work EXCEPT ![w] = Resting]
  /\ \/ Holds(w) /\ permits' = Released(w)
     \/ ~Holds(w) /\ UNCHANGED permits
     \/ /\ Holds(w)
        /\ permits[work[w].permit].on = Redis
        /\ permits' = [permits EXCEPT ![work[w].permit] = Abandoned(@)]
  /\ UNCHANGED <<key, orderly>>

-----------------------------------------------------------------------------
(* Time and failures *)

Older(g) ==
  [g EXCEPT !.rest = IF @ > -MaxSkew THEN @ - 1 ELSE @,
            !.gone = IF @ \in 0..TTL THEN @ + 1 ELSE @]

\* The hash goes when its key expires, whatever it holds.
Aged(g) == IF key = 1 /\ g.on = Redis THEN Unused ELSE Older(g)

Tick ==
  /\ permits' = [i \in Ids |-> Aged(permits[i])]
  /\ key' = IF key = 0 THEN 0 ELSE key - 1
  /\ work' = [w \in Work |->
       [work[w] EXCEPT !.waited = IF work[w].phase = "waiting" /\ @ < Timeout THEN @ + 1 ELSE @,
                       !.age = IF Holds(w) /\ @ < RenewEvery THEN @ + 1 ELSE @]]
  /\ IF \E w \in Work : Due(w) THEN orderly' = FALSE ELSE UNCHANGED orderly

Crash(p) ==
  /\ permits' = [i \in Ids |->
       IF permits[i].on = p THEN Unused
       ELSE IF \E w \in Work : Home[w] = p /\ work[w].permit = i
            THEN Abandoned(permits[i]) ELSE permits[i]]
  /\ work' = [w \in Work |-> IF Home[w] = p THEN Resting ELSE work[w]]
  /\ UNCHANGED <<key, orderly>>

Next ==
  \/ \E w \in Work : TryRedis(w) \/ TryLocal(w) \/ Renew(w) \/ End(w)
  \/ Tick
  \/ \E p \in Processes : Crash(p)

Spec == Init /\ [][Next]_vars

-----------------------------------------------------------------------------
(* Properties *)

TypeOK ==
  /\ permits \in [Ids -> [on : Tables \union {NoTable}, rest : -MaxSkew..TTL + MaxSkew,
                          weight : Nat, gone : Held..TTL + 1]]
  /\ work \in [Work -> [phase : {"idle", "waiting", "running"}, permit : Ids \union {NoPermit},
                        waited : 0..Timeout, age : 0..RenewEvery, missed : 0..MaxMissed]]
  /\ key \in 0..KeyTTL
  /\ orderly \in BOOLEAN

\* "admit iff held + weight <= capacity": whatever fails, and whatever the clocks
\* say, no table ever has more units than the endpoint; a renewal makes none.
TableWithinCapacity == \A l \in Tables : Cardinality(UnitsOf(permits, On(permits, l))) <= Capacity

\* "two processes honor one provider cap": as long as Redis decides every acquire,
\* refusals are obeyed and renewals are made in time, the delegations that run do not
\* occupy more units than the endpoint has, whatever crashes and whatever renewals
\* and releases are lost.
Occupied == UNION {{w} \X (1..Weight[w]) : w \in {v \in Work : work[v].phase = "running"}}
OneCap == orderly => Cardinality(Occupied) <= Capacity

\* "a crashed holder frees its units within one TTL": a permit without a holder is
\* not counted for longer, by any process.
FreedInTTL ==
  \A i \in Ids, p \in Processes :
    permits[i].on = Redis /\ permits[i].gone >= TTL => i \notin Counted(permits, Redis, Skew[p])

=============================================================================
