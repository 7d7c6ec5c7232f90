---------------------------- MODULE MissionBudget ----------------------------
(***************************************************************************)
(* The budget ledger of one mission (packages/core/src/swarm/mission-budget.ts) *)
(* and the delegations that debit it (tools/sub-agent.ts).  A delegation   *)
(* reserves an estimate before it runs and replaces it by what it used     *)
(* when it ends.  The ledger is a Redis hash that expires when nothing     *)
(* touched it for a while; a call that fails on Redis, or that is made     *)
(* where none is configured, is made on a ledger of the process.           *)
(*                                                                         *)
(* Time passes in ticks.  Everything that may go wrong may go wrong at any *)
(* moment: a call on Redis is not carried out, or it is and its answer is  *)
(* lost, the mission store fails, a run ends without statistics, a process *)
(* ends, the mission pauses until the ledger expires, a delegation that has *)
(* no deadline runs on until it does.  The budget's mode is read for each  *)
(* delegation.  A reservation's identity, the snapshot and the rounding of *)
(* amounts are left out.                                                   *)
(***************************************************************************)
EXTENDS Integers, FiniteSets

CONSTANTS
  Children,  \* delegations of one mission
  Processes, \* processes they run in
  Home,      \* the process of each delegation
  Dims,      \* budgeted dimensions
  Limit,     \* limits of the mission, 0 for none
  Reserve,   \* defaultChildReserve
  Uses,      \* what a delegation may turn out to use
  TTL        \* BUDGET_TTL_S, in ticks

NoLedger == "none"
Redis == "redis"

ASSUME BudgetAssumption ==
  /\ IsFiniteSet(Children) /\ IsFiniteSet(Processes)
  /\ Home \in [Children -> Processes]
  /\ Limit \in [Dims -> Nat] /\ Reserve \in [Dims -> Nat]
  /\ Uses \subseteq [Dims -> Nat]
  /\ TTL \in Nat \ {0}
  /\ {Redis, NoLedger} \cap Processes = {}

Ledgers == Processes \union {Redis}

VARIABLES
  ledger, \* [spent, reserved, ttl] of each ledger; a ttl of 0: it does not exist
  child,  \* [phase, on, age]: how far a delegation is, the ledger that holds its
          \* reservation, the ticks it has run (TTL: that many or more)
  lost,   \* whether a child's reservation on Redis lost its holder (history)
  outran, \* the ledger a child was on when it had run for TTL ticks (history)
  used,   \* what the children used that ended (history)
  over,   \* what those that ended since the last admission used above their
          \* estimates (history)
  whole   \* whether the ledger on Redis knows all of it so far (history)

vars == <<ledger, child, lost, outran, used, over, whole>>

Zero == [d \in Dims |-> 0]
Plus(x, y) == [d \in Dims |-> x[d] + y[d]]
Monus(x, y) == [d \in Dims |-> IF x[d] < y[d] THEN 0 ELSE x[d] - y[d]]

Empty == [spent |-> Zero, reserved |-> Zero, ttl |-> 0]

Init ==
  /\ ledger = [l \in Ledgers |-> Empty]
  /\ child = [c \in Children |-> [phase |-> "idle", on |-> NoLedger, age |-> 0]]
  /\ lost = [c \in Children |-> FALSE]
  /\ outran = [c \in Children |-> NoLedger]
  /\ used = Zero
  /\ over = Zero
  /\ whole = TRUE

-----------------------------------------------------------------------------
(* The ledger *)

\* Mutant: what is reserved is not counted.
FitsSpent(l) == \A d \in Dims : Limit[d] > 0 => ledger[l].spent[d] + Reserve[d] <= Limit[d]

\* Mutant: the estimate itself need not fit.
FitsBefore(l) ==
  \A d \in Dims : Limit[d] > 0 => ledger[l].spent[d] + ledger[l].reserved[d] <= Limit[d]

\* RESERVE_LUA and its local twin: every limited dimension must fit.
Fits(l) ==
  \A d \in Dims : Limit[d] > 0 =>
    ledger[l].spent[d] + ledger[l].reserved[d] + Reserve[d] <= Limit[d]

\* Mutant: the expiry is set only when the ledger is made.
ReservedStale(g) == [g EXCEPT !.reserved = Plus(@, Reserve), !.ttl = IF @ = 0 THEN TTL ELSE @]

Reserved(g) == [g EXCEPT !.reserved = Plus(@, Reserve), !.ttl = TTL]

\* Mutant: the amount used is dropped.
ReconciledReleases(g, actual) == [g EXCEPT !.reserved = Monus(@, Reserve), !.ttl = TTL]

\* RECONCILE_LUA and its local twin.
Reconciled(g, actual) ==
  [g EXCEPT !.reserved = Monus(@, Reserve), !.spent = Plus(@, actual), !.ttl = TTL]

-----------------------------------------------------------------------------
(* Delegations *)

Runs(c, l) == child' = [child EXCEPT ![c] = [phase |-> "running", on |-> l, age |-> 0]]

\* A refusal ends the delegation in "enforce" mode; in "shadow" mode it runs
\* without a reservation.
Refused(c) ==
  \/ child' = [child EXCEPT ![c].phase = "refused"] /\ UNCHANGED whole
  \/ Runs(c, NoLedger) /\ whole' = FALSE

ReserveOnRedis(c) ==
  /\ child[c].phase = "idle"
  /\ \/ /\ Fits(Redis)
        /\ ledger' = [ledger EXCEPT ![Redis] = Reserved(@)]
        /\ Runs(c, Redis)
        /\ over' = Zero
        /\ UNCHANGED whole
     \/ /\ ~Fits(Redis)
        /\ Refused(c)
        /\ UNCHANGED <<ledger, over>>
  /\ UNCHANGED <<lost, outran, used>>

\* The call on Redis fails, perhaps after it was carried out, or there is no
\* Redis.  Unlike Redis, a local ledger is touched by a refusal too.
ReserveLocally(c, stray) ==
  LET home == Home[c]
      granted == Fits(home)
  IN  /\ child[c].phase = "idle"
      /\ stray => Fits(Redis)
      /\ ledger' = [ledger EXCEPT
           ![home] = IF granted THEN Reserved(@) ELSE [@ EXCEPT !.ttl = TTL],
           ![Redis] = IF stray THEN Reserved(@) ELSE @]
      /\ lost' = IF stray THEN [lost EXCEPT ![c] = TRUE] ELSE lost
      /\ whole' = FALSE
      /\ \/ granted /\ Runs(c, home)
         \/ ~granted /\ child' = [child EXCEPT ![c].phase = "refused"]
         \/ ~granted /\ Runs(c, NoLedger)
      /\ UNCHANGED <<outran, used, over>>

\* The mission cannot be looked up ("proceeding unreserved"), or the mode is "off".
RunUnreserved(c) ==
  /\ child[c].phase = "idle"
  /\ Runs(c, NoLedger)
  /\ whole' = FALSE
  /\ UNCHANGED <<ledger, lost, outran, used, over>>

\* The finally of the delegation, and its refusal by the capacity broker: the
\* reservation is replaced by what the statistics say, 0 without them.
Reported(use) == {use, Zero}

End(c, use, actual) ==
  /\ child[c].phase = "running"
  /\ child' = [child EXCEPT ![c] = [phase |-> "done", on |-> NoLedger, age |-> 0]]
  /\ used' = Plus(used, use)
  /\ over' = Plus(over, Monus(use, Reserve))
  /\ UNCHANGED outran
  /\ \/ /\ child[c].on # NoLedger
        /\ ledger' = [ledger EXCEPT ![child[c].on] = Reconciled(@, actual)]
        /\ whole' = (whole /\ actual = use)
        /\ UNCHANGED lost
     \/ /\ child[c].on = NoLedger
        /\ UNCHANGED <<ledger, lost, whole>>
     \/ /\ child[c].on = Redis \* the call fails; it is not repeated
        /\ lost' = [lost EXCEPT ![c] = TRUE]
        /\ whole' = FALSE
        /\ UNCHANGED ledger

-----------------------------------------------------------------------------
(* Time and failures *)

Older(g) == IF g.ttl <= 1 THEN Empty ELSE [g EXCEPT !.ttl = @ - 1]

Age(c) == IF child[c].phase = "running" /\ child[c].age < TTL THEN child[c].age + 1 ELSE child[c].age

\* Nothing bounds a run: one without a deadline may outrun the ledger's time.
Tick ==
  /\ ledger' = [l \in Ledgers |-> Older(ledger[l])]
  /\ child' = [c \in Children |-> [child[c] EXCEPT !.age = Age(c)]]
  /\ outran' = [c \in Children |->
       IF outran[c] = NoLedger /\ Age(c) = TTL THEN child[c].on ELSE outran[c]]
  /\ whole' = (whole /\ ledger[Redis].ttl # 1)
  /\ UNCHANGED <<lost, used, over>>

\* A process ends, with its ledger and the delegations that run in it.
Crash(p) ==
  LET dead == {c \in Children : Home[c] = p /\ child[c].phase = "running"}
  IN  /\ ledger' = [ledger EXCEPT ![p] = Empty]
      /\ child' = [c \in Children |->
           IF c \in dead THEN [phase |-> "done", on |-> NoLedger, age |-> 0] ELSE child[c]]
      /\ lost' = [c \in Children |-> lost[c] \/ (c \in dead /\ child[c].on = Redis)]
      /\ whole' = (whole /\ dead = {})
      /\ UNCHANGED <<outran, used, over>>

Next ==
  \/ \E c \in Children : ReserveOnRedis(c) \/ RunUnreserved(c)
  \/ \E c \in Children, stray \in BOOLEAN : ReserveLocally(c, stray)
  \/ \E c \in Children, use \in Uses : \E actual \in Reported(use) : End(c, use, actual)
  \/ Tick
  \/ \E p \in Processes : Crash(p)

Spec == Init /\ [][Next]_vars

-----------------------------------------------------------------------------
(* Properties *)

TypeOK ==
  /\ ledger \in [Ledgers -> [spent : [Dims -> Nat], reserved : [Dims -> Nat], ttl : 0..TTL]]
  /\ child \in [Children -> [phase : {"idle", "running", "refused", "done"},
                             on : Ledgers \union {NoLedger}, age : 0..TTL]]
  /\ lost \in [Children -> BOOLEAN]
  /\ outran \in [Children -> Ledgers \union {NoLedger}]
  /\ used \in [Dims -> Nat] /\ over \in [Dims -> Nat]
  /\ whole \in BOOLEAN

Live == {c \in Children : child[c].phase = "running"}
HeldOn(l) == {c \in Children : child[c].on = l}
Gone == {c \in Children : lost[c]}
Outran(l) == {c \in Children : outran[c] = l}

\* A ledger holds the reservation of each child that debits it exactly once, and
\* on Redis no more than those of the children that went without giving theirs
\* back.  Whatever else fails, a reservation is missing only if a child outran the
\* ledger's time: one for each such child, its own or the one that it took off
\* the next ledger when it ended.
ReservationsHeld ==
  \A l \in Ledgers :
    \E k \in 0..(Cardinality(HeldOn(l)) + IF l = Redis THEN Cardinality(Gone) ELSE 0) :
      /\ Cardinality(HeldOn(l)) <= k + Cardinality(Outran(l))
      /\ \A d \in Dims : ledger[l].reserved[d] = Reserve[d] * k

\* "reconciles to actual usage after": while every reserve and reconcile got
\* through with its statistics, and no pause let the ledger go, what the children
\* used is on it.
UsageRecorded == whole => ledger[Redis].spent = used

\* "the whole swarm debits one envelope": as long as that is so, the ledger on
\* Redis implements the envelope of MissionEnvelope, with children that check
\* and debit it from several processes at once.
Envelope == INSTANCE MissionEnvelope WITH live <- Live

OneEnvelope == [][whole' => Envelope!Next \/ UNCHANGED <<used, Live>>]_vars

\* "Hard ceiling": meanwhile the mission does not use more than its limits, but
\* for what the children that ended since the last admission used above their
\* estimates, which nothing holds them to: no child is admitted over a limit, and
\* none on what another may still use.
HardCeiling == whole => \A d \in Dims : Limit[d] > 0 => used[d] <= Limit[d] + over[d]

=============================================================================
