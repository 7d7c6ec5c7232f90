------------------------------ MODULE TaskLease ------------------------------
(***************************************************************************)
(* Renewable, fenced task leases (packages/core/src/swarm/locks.ts) and    *)
(* the part of a delegation that lives by them                             *)
(* (executeDelegationWithFallback, packages/core/src/tools/sub-agent.ts).  *)
(*                                                                         *)
(* One lease key, so one task: keys share no state.  A worker is one       *)
(* delegation of the task; it walks its queue of candidate agents and      *)
(* takes the lease anew for each.  The Lua scripts the code sends to Redis *)
(* are atomic, so each is one step; a heartbeat's renewal is in flight     *)
(* between its tick and its answer, and everything may happen meanwhile.   *)
(* Time is left out: a TTL may run out at any moment.                      *)
(***************************************************************************)
EXTENDS Integers

CONSTANTS
  Workers,          \* the delegations of the task
  Process,          \* the gateway processes they run in
  Host,             \* the process of each worker
  Clustered,        \* deployment.mode is not "single_process"
  Candidates,       \* candidate agents in a worker's queue
  ConfirmAttempts,  \* CONFIRM_ATTEMPTS
  FenceExpires      \* whether FENCE_TTL_MS may pass without an acquisition

ASSUME LeaseAssumption ==
  /\ Host \in [Workers -> Process]
  /\ Clustered \in BOOLEAN
  /\ FenceExpires \in BOOLEAN
  /\ Candidates \in Nat \ {0}
  /\ ConfirmAttempts \in Nat \ {0}
  /\ ~Clustered => \A v, w \in Workers : Host[v] = Host[w]

Backend == {"redis", "local"}

\* The value of a lease key, `owner:token`.  An owner is a random UUID: here
\* the number of the acquisition that drew it, which is as unique.
Lease == [owner : Nat, token : Nat]
NoLease == [owner |-> 0, token |-> 0]

VARIABLES
  held,      \* the lease key in each backend, NoLease when absent or expired
  fence,     \* its fence counter, 0 when absent
  result,    \* the durable result: the lease that published it, or NoLease
  online,    \* whether a process reaches Redis
  acquired,  \* acquisitions granted so far (the source of owners)
  orphans,   \* leases, by backend and owner, whose owner went away without releasing
  pc,        \* where each worker is
  mine,      \* the lease it owns, or the one whose result it followed
  via,       \* the backend that granted it
  tries,     \* candidates it has shifted off its queue
  checks,    \* unanswered confirmations of the current check
  renewing,  \* whether a heartbeat renewal is in flight
  lost,      \* the heartbeat's sticky signal
  outcome    \* what its attempt came to

store == <<held, fence, result>>
worker == <<pc, mine, via, tries, checks, renewing, lost, outcome>>
vars == <<held, fence, result, online, acquired, orphans, worker>>

\* idle      about to take the next candidate off the queue
\* following contended: waiting for the winner's result
\* running   the lease is held and the agent runs
\* confirming, settled, publishing   the run ended; the lease is checked, the
\*           task recorded, the durable result written
\* releasing the heartbeat is stopped and the lease given back
Running == {"running", "confirming", "settled", "publishing"}
Owning == Running \union {"releasing"}
Ended == {"done", "crashed"}

Outcome == {"none", "unavailable", "inFlight", "followed", "refused",
            "failed", "leaseLost", "completed"}

Init ==
  /\ held = [b \in Backend |-> NoLease]
  /\ fence = [b \in Backend |-> 0]
  /\ result = [b \in Backend |-> NoLease]
  /\ online = [p \in Process |-> TRUE]
  /\ acquired = 0
  /\ orphans = {}
  /\ pc = [w \in Workers |-> "idle"]
  /\ mine = [w \in Workers |-> NoLease]
  /\ via = [w \in Workers |-> "redis"]
  /\ tries = [w \in Workers |-> 0]
  /\ checks = [w \in Workers |-> 0]
  /\ renewing = [w \in Workers |-> FALSE]
  /\ lost = [w \in Workers |-> FALSE]
  /\ outcome = [w \in Workers |-> "none"]

-----------------------------------------------------------------------------
(* Acquisition: tryAcquireTaskLease *)

Reachable(w) == online[Host[w]]

\* The backend an acquisition is decided by: Redis when it answers, the
\* process-local map when it does not and the deployment is a single process.
Decides(w, b) ==
  \/ b = "redis" /\ Reachable(w)
  \/ b = "local" /\ ~Reachable(w) /\ ~Clustered

FreshLease(b) == [owner |-> acquired + 1, token |-> fence[b] + 1]

\* The acquisition script: refuse an existing key, else bump the fence and set it.
SetKey(b) ==
  /\ held[b] = NoLease
  /\ held' = [held EXCEPT ![b] = FreshLease(b)]
  /\ fence' = [fence EXCEPT ![b] = @ + 1]
  /\ acquired' = acquired + 1

NextCandidate(w) ==
  /\ pc[w] = "idle"
  /\ tries[w] < Candidates
  /\ tries' = [tries EXCEPT ![w] = @ + 1]

\* "acquired": the lease is ours and its heartbeat starts.
Acquire(w, b) ==
  /\ NextCandidate(w)
  /\ Decides(w, b)
  /\ SetKey(b)
  /\ pc' = [pc EXCEPT ![w] = "running"]
  /\ mine' = [mine EXCEPT ![w] = FreshLease(b)]
  /\ via' = [via EXCEPT ![w] = b]
  /\ lost' = [lost EXCEPT ![w] = FALSE]
  /\ UNCHANGED <<result, online, orphans, checks, renewing, outcome>>

\* "contended": another owner holds the key; follow its result.
Contend(w, b) ==
  /\ NextCandidate(w)
  /\ Decides(w, b)
  /\ held[b] # NoLease
  /\ pc' = [pc EXCEPT ![w] = "following"]
  /\ UNCHANGED <<store, online, acquired, orphans, mine, via, checks, renewing,
                 lost, outcome>>

\* "unavailable": a clustered deployment refuses the process-local fallback.
Refuse(w) ==
  /\ NextCandidate(w)
  /\ ~Reachable(w)
  /\ Clustered
  /\ pc' = [pc EXCEPT ![w] = "done"]
  /\ outcome' = [outcome EXCEPT ![w] = "unavailable"]
  /\ UNCHANGED <<store, online, acquired, orphans, mine, via, checks, renewing, lost>>

\* Redis ran the script and the connection broke before the answer: the key
\* is set for an owner that will never know.  The code goes on as if Redis had
\* not been asked: refused in a cluster, decided by the local map, for the
\* same owner, in a single process.
AnswerLost(w) ==
  /\ NextCandidate(w)
  /\ Reachable(w)
  /\ held["redis"] = NoLease
  /\ online' = [online EXCEPT ![Host[w]] = FALSE]
  /\ acquired' = acquired + 1
  /\ orphans' = orphans \union {<<"redis", acquired + 1>>}
  /\ LET asked == {"redis"} \union {b \in {"local"} : ~Clustered /\ held[b] = NoLease}
     IN  /\ held' = [b \in Backend |-> IF b \in asked THEN FreshLease(b) ELSE held[b]]
         /\ fence' = [b \in Backend |-> IF b \in asked THEN fence[b] + 1 ELSE fence[b]]
  /\ \/ /\ Clustered
        /\ pc' = [pc EXCEPT ![w] = "done"]
        /\ outcome' = [outcome EXCEPT ![w] = "unavailable"]
        /\ UNCHANGED <<mine, via, lost>>
     \/ /\ ~Clustered
        /\ held["local"] # NoLease
        /\ pc' = [pc EXCEPT ![w] = "following"]
        /\ UNCHANGED <<mine, via, lost, outcome>>
     \/ /\ ~Clustered
        /\ held["local"] = NoLease
        /\ pc' = [pc EXCEPT ![w] = "running"]
        /\ mine' = [mine EXCEPT ![w] = FreshLease("local")]
        /\ via' = [via EXCEPT ![w] = "local"]
        /\ lost' = [lost EXCEPT ![w] = FALSE]
        /\ UNCHANGED outcome
  /\ UNCHANGED <<result, checks, renewing>>

-----------------------------------------------------------------------------
(* Following a winner: waitForTaskLeaseResult, readTaskLeaseResult *)

\* Redis when it answers; else nothing, or the local map of a process that
\* never had a connection.
Readable(w) ==
  IF Reachable(w) THEN {result["redis"]} ELSE {NoLease, result["local"]}

Follow(w) ==
  /\ pc[w] = "following"
  /\ \E r \in Readable(w) \ {NoLease} : mine' = [mine EXCEPT ![w] = r]
  /\ pc' = [pc EXCEPT ![w] = "done"]
  /\ outcome' = [outcome EXCEPT ![w] = "followed"]
  /\ UNCHANGED <<store, online, acquired, orphans, via, tries, checks, renewing, lost>>

GiveUpFollowing(w) ==
  /\ pc[w] = "following"
  /\ NoLease \in Readable(w)
  /\ pc' = [pc EXCEPT ![w] = "done"]
  /\ outcome' = [outcome EXCEPT ![w] = "inFlight"]
  /\ UNCHANGED <<store, online, acquired, orphans, mine, via, tries, checks,
                 renewing, lost>>

-----------------------------------------------------------------------------
(* Renewal: renewTaskLeaseState, startTaskLeaseHeartbeat *)

Answered(w) == via[w] = "local" \/ Reachable(w)
StillHeld(w) == held[via[w]] = mine[w]

\* Mutant: a vanished key is taken back without asking its fence.
UnclaimedAnyFence(w) == held[via[w]] = NoLease

Unclaimed(w) == held[via[w]] = NoLease /\ fence[via[w]] = mine[w].token

\* A lease nobody took is still ours: extended when the key holds our value,
\* set back when the key is gone and its fence is still our token.
Renewed(w) == Answered(w) /\ (StillHeld(w) \/ Unclaimed(w))

\* Mutant: an expired lease counts as lost though nobody took the task.
SupersededByExpiry(w) == Answered(w) /\ ~StillHeld(w)

Superseded(w) == Answered(w) /\ ~StillHeld(w) /\ ~Unclaimed(w)

\* Mutant: the renewal writes its value whatever the key holds.
SetBackAlways(w) ==
  held' = IF Answered(w) THEN [held EXCEPT ![via[w]] = mine[w]] ELSE held

SetBack(w) ==
  held' = IF Renewed(w) THEN [held EXCEPT ![via[w]] = mine[w]] ELSE held

Tick(w) ==
  /\ pc[w] \in Running
  /\ ~lost[w]
  /\ ~renewing[w]
  /\ renewing' = [renewing EXCEPT ![w] = TRUE]
  /\ UNCHANGED <<store, online, acquired, orphans, pc, mine, via, tries, checks,
                 lost, outcome>>

Renew(w) ==
  /\ renewing[w]
  /\ SetBack(w)
  /\ lost' = [lost EXCEPT ![w] = @ \/ Superseded(w)]
  /\ renewing' = [renewing EXCEPT ![w] = FALSE]
  /\ UNCHANGED <<fence, result, online, acquired, orphans, pc, mine, via, tries,
                 checks, outcome>>

-----------------------------------------------------------------------------
(* The attempt: executeDelegationWithFallback, from the lease to its release *)

Close(w, what) ==
  /\ pc' = [pc EXCEPT ![w] = "releasing"]
  /\ outcome' = [outcome EXCEPT ![w] = what]

\* Mission budget or provider capacity refuses the run in "enforce" mode.
Decline(w) ==
  /\ pc[w] = "running"
  /\ Close(w, "refused")
  /\ UNCHANGED <<store, online, acquired, orphans, mine, via, tries, checks,
                 renewing, lost>>

\* The run threw.
Fail(w) ==
  /\ pc[w] = "running"
  /\ Close(w, "failed")
  /\ UNCHANGED <<store, online, acquired, orphans, mine, via, tries, checks,
                 renewing, lost>>

\* The run returned (or session evidence was reused): leaseStillCurrent reads
\* the heartbeat's signal, then confirms.
Return(w) ==
  /\ pc[w] = "running"
  /\ IF lost[w]
     THEN Close(w, "leaseLost") /\ UNCHANGED checks
     ELSE /\ pc' = [pc EXCEPT ![w] = "confirming"]
          /\ checks' = [checks EXCEPT ![w] = 0]
          /\ UNCHANGED outcome
  /\ UNCHANGED <<store, online, acquired, orphans, mine, via, tries, renewing, lost>>

AttemptsLeft(w) == checks[w] + 1 < ConfirmAttempts

\* One round of confirmTaskLease.  A backend that does not answer
\* ConfirmAttempts times does not cost the finished work: it is published.
Confirm(w) ==
  /\ pc[w] = "confirming"
  /\ SetBack(w)
  /\ \/ /\ Renewed(w)
        /\ pc' = [pc EXCEPT ![w] = "settled"]
        /\ UNCHANGED <<checks, outcome>>
     \/ /\ Superseded(w)
        /\ Close(w, "leaseLost")
        /\ UNCHANGED checks
     \/ /\ ~Answered(w)
        /\ AttemptsLeft(w)
        /\ checks' = [checks EXCEPT ![w] = @ + 1]
        /\ UNCHANGED <<pc, outcome>>
     \/ /\ ~Answered(w)
        /\ ~AttemptsLeft(w)
        /\ pc' = [pc EXCEPT ![w] = "settled"]
        /\ UNCHANGED <<checks, outcome>>
  /\ UNCHANGED <<fence, result, online, acquired, orphans, mine, via, tries,
                 renewing, lost>>

\* The result is classified: completed or partial (reused evidence is complete),
\* and recorded on the task ...
Record(w) ==
  /\ pc[w] = "settled"
  /\ pc' = [pc EXCEPT ![w] = "publishing"]
  /\ checks' = [checks EXCEPT ![w] = 0]
  /\ outcome' = [outcome EXCEPT ![w] = "completed"]
  /\ UNCHANGED <<store, online, acquired, orphans, mine, via, tries, renewing, lost>>

\* ... or a failure, and the next candidate's turn.
Reject(w) ==
  /\ pc[w] = "settled"
  /\ Close(w, "failed")
  /\ UNCHANGED <<store, online, acquired, orphans, mine, via, tries, checks,
                 renewing, lost>>

\* publishTaskLeaseResult: written by the current owner only, refused otherwise.

\* Mutant: any live lease lets the result through.
MayPublishUnfenced(w) == Answered(w) /\ held[via[w]] # NoLease

MayPublish(w) == Answered(w) /\ StillHeld(w)

Publish(w) ==
  /\ pc[w] = "publishing"
  /\ result' = IF MayPublish(w) THEN [result EXCEPT ![via[w]] = mine[w]] ELSE result
  /\ pc' = [pc EXCEPT ![w] = "releasing"]
  /\ UNCHANGED <<held, fence, online, acquired, orphans, mine, via, tries, checks,
                 renewing, lost, outcome>>

\* releaseLease: the heartbeat is stopped, its renewal in flight awaited, and
\* the key deleted if it is still ours.  An unreachable Redis keeps it.  A
\* failed attempt goes on to the next candidate unless the evidence it left
\* or an infrastructure failure ends the delegation.

\* Mutants: the renewal in flight is not awaited; the release waits for Redis.
MayReleaseAtOnce(w) == pc[w] = "releasing"
MayReleaseAnswered(w) == pc[w] = "releasing" /\ ~renewing[w] /\ Answered(w)

MayRelease(w) == pc[w] = "releasing" /\ ~renewing[w]

Release(w) ==
  /\ MayRelease(w)
  /\ IF Answered(w)
     THEN /\ held' = IF StillHeld(w) THEN [held EXCEPT ![via[w]] = NoLease] ELSE held
          /\ UNCHANGED orphans
     ELSE /\ orphans' = orphans \union {<<via[w], mine[w].owner>>}
          /\ UNCHANGED held
  /\ \/ pc' = [pc EXCEPT ![w] = "done"]
     \/ /\ outcome[w] = "failed"
        /\ tries[w] < Candidates
        /\ pc' = [pc EXCEPT ![w] = "idle"]
  /\ lost' = [lost EXCEPT ![w] = FALSE]
  /\ UNCHANGED <<fence, result, online, acquired, mine, via, tries, checks, renewing, outcome>>

-----------------------------------------------------------------------------
(* The environment: clocks, connections, crashes *)

Orphaned(b) == <<b, held[b].owner>> \in orphans

ExpireLease(b) ==
  /\ held[b] # NoLease
  /\ held' = [held EXCEPT ![b] = NoLease]
  /\ orphans' = orphans \ {<<b, held[b].owner>>}
  /\ UNCHANGED <<fence, result, online, acquired, worker>>

ExpireOrphan(b) == Orphaned(b) /\ ExpireLease(b)

ExpireResult(b) ==
  /\ result[b] # NoLease
  /\ result' = [result EXCEPT ![b] = NoLease]
  /\ UNCHANGED <<held, fence, online, acquired, orphans, worker>>

\* FENCE_TTL_MS after the last acquisition, whatever was renewed since.
ExpireFence ==
  /\ FenceExpires
  /\ fence["redis"] # 0
  /\ fence' = [fence EXCEPT !["redis"] = 0]
  /\ UNCHANGED <<held, result, online, acquired, orphans, worker>>

Connection(p) ==
  /\ online' = [online EXCEPT ![p] = ~@]
  /\ UNCHANGED <<store, acquired, orphans, worker>>

\* A process dies with the delegations it runs and its local maps; the
\* delegations it has not started yet run in the process that replaces it.
Crash(p) ==
  LET dead == {w \in Workers : Host[w] = p /\ pc[w] \notin Ended /\ (pc[w] = "idle" => tries[w] > 0)}
  IN  /\ dead # {}
      /\ pc' = [w \in Workers |-> IF w \in dead THEN "crashed" ELSE pc[w]]
      /\ renewing' = [w \in Workers |-> renewing[w] /\ w \notin dead]
      /\ orphans' = orphans \union
           {<<via[w], mine[w].owner>> : w \in {v \in dead : pc[v] \in Owning}}
      /\ IF Clustered
         THEN UNCHANGED store
         ELSE /\ held' = [held EXCEPT !["local"] = NoLease]
              /\ fence' = [fence EXCEPT !["local"] = 0]
              /\ result' = [result EXCEPT !["local"] = NoLease]
      /\ UNCHANGED <<online, acquired, mine, via, tries, checks, lost, outcome>>

-----------------------------------------------------------------------------

WorkerStep(w) ==
  \/ \E b \in Backend : Acquire(w, b) \/ Contend(w, b)
  \/ Refuse(w)
  \/ Follow(w) \/ GiveUpFollowing(w)
  \/ Decline(w) \/ Fail(w) \/ Return(w)
  \/ Confirm(w)
  \/ Record(w) \/ Reject(w)
  \/ Publish(w)
  \/ Release(w)

Next ==
  \/ \E w \in Workers : WorkerStep(w) \/ AnswerLost(w) \/ Tick(w) \/ Renew(w)
  \/ \E b \in Backend : ExpireLease(b) \/ ExpireResult(b)
  \/ ExpireFence
  \/ \E p \in Process : Connection(p) \/ Crash(p)

Spec == Init /\ [][Next]_vars

\* A delegation's own steps are timer- or promise-driven and bounded: the turn
\* deadline ends a run, the follow budget a wait, a client timeout a renewal.
\* Redis deletes a key whose TTL is not extended.  Nothing makes an agent tick,
\* a process crash or a connection change.
Fairness ==
  /\ \A w \in Workers : WF_vars(WorkerStep(w)) /\ WF_vars(Renew(w))
  /\ \A b \in Backend : WF_vars(ExpireOrphan(b))

FairSpec == Spec /\ Fairness

-----------------------------------------------------------------------------

\* The variables keep their types: keys hold leases, a delegation never takes
\* more candidates than it has, nor confirms more often than CONFIRM_ATTEMPTS.
TypeOK ==
  /\ held \in [Backend -> Lease]
  /\ fence \in [Backend -> Nat]
  /\ result \in [Backend -> Lease]
  /\ online \in [Process -> BOOLEAN]
  /\ acquired \in Nat
  /\ orphans \subseteq Backend \X Nat
  /\ pc \in [Workers -> Owning \union Ended \union {"idle", "following"}]
  /\ mine \in [Workers -> Lease]
  /\ via \in [Workers -> Backend]
  /\ tries \in [Workers -> 0 .. Candidates]
  /\ checks \in [Workers -> 0 .. ConfirmAttempts - 1]
  /\ renewing \in [Workers -> BOOLEAN]
  /\ lost \in [Workers -> BOOLEAN]
  /\ outcome \in [Workers -> Outcome]

\* The key always names the newest acquisition: no renewal, reclaim or late
\* answer brings an older owner back once another worker has acquired.
NewestHolds == \A b \in Backend : held[b] # NoLease => held[b].token = fence[b]

\* A lease in the store is one its owner will still release, or one whose
\* owner is gone and could not: never one that was given back and came alive
\* again under a renewal that was in flight (which would block the task for
\* contenders until its TTL with nobody working on it).
NothingRevived ==
  \A b \in Backend :
    held[b] # NoLease =>
      \/ Orphaned(b)
      \/ \E w \in Workers : pc[w] \in Owning /\ via[w] = b /\ mine[w] = held[b]

\* Finished work is thrown away only for a real takeover: a worker that
\* abandons its result, or whose heartbeat says lost, has a newer acquisition
\* on its key; expiry, outages and the heartbeat's races never cost a run.
LostMeansTaken ==
  \A w \in Workers :
    /\ pc[w] \in Owning
    /\ lost[w] \/ (pc[w] = "releasing" /\ outcome[w] = "leaseLost")
    => mine[w].token < fence[via[w]]

\* What makes the above inductive.  A worker's token was handed out by the
\* fence of its backend, the key is never older than the fence allows, and one
\* token names one lease, in the key as among the workers: a matching fence
\* then does prove that nobody acquired since.
TokensIssued ==
  /\ \A w \in Workers : pc[w] \in Owning => mine[w].token \in 1 .. fence[via[w]]
  /\ \A b \in Backend :
       /\ held[b] # NoLease => held[b].token = fence[b] /\ held[b].token > 0
       /\ result[b].token <= fence[b]

TokenNamesLease ==
  /\ \A v, w \in Workers :
       /\ pc[v] \in Owning /\ pc[w] \in Owning
       /\ via[v] = via[w] /\ mine[v].token = mine[w].token
       => mine[v] = mine[w]
  /\ \A w \in Workers :
       /\ pc[w] \in Owning /\ held[via[w]] # NoLease
       /\ mine[w].token = held[via[w]].token
       => held[via[w]] = mine[w]

\* A renewal in flight belongs to a worker that has not given its lease back,
\* and only a completed attempt is published.
RenewalsOwned == \A w \in Workers : renewing[w] => pc[w] \in Owning
CompletedPublishes == \A w \in Workers : pc[w] = "publishing" => outcome[w] = "completed"

LeaseInv ==
  /\ TokensIssued
  /\ TokenNamesLease
  /\ RenewalsOwned
  /\ CompletedPublishes
  /\ NothingRevived
  /\ LostMeansTaken

\* A durable result is written only by the newest owner and never replaced by
\* an older one's, whichever checks went stale between the run and the write.
PublishFenced ==
  [][\A b \in Backend :
       result'[b] \notin {result[b], NoLease} =>
         /\ result'[b].token = fence[b]
         /\ result[b].token <= result'[b].token]_vars

\* Every delegation of the task comes to an end.
EveryDelegationEnds == \A w \in Workers : <>(pc[w] \in Ended)

-----------------------------------------------------------------------------

\* The lease implements fenced ownership.
Ownership == INSTANCE TaskOwnership WITH
  epoch <- fence["redis"], holder <- held["redis"].token, accepted <- result["redis"].token

ImplementsOwnership == Ownership!OwnershipSpec

=============================================================================
